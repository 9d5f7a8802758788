-------------------------- MODULE WebsiteChat_proofs --------------------------
(***************************************************************************)
(* For any visitors, messages and agents: a page shows its own contact's   *)
(* conversations, a customer has one open conversation, READ was shown.    *)
(***************************************************************************)
EXTENDS WebsiteChat, SequenceTheorems, WellFoundedInduction, TLAPS

\* A conversation keeps the post that opened it, a message is in one conversation,
\* and a reply is in one when it is queued.
Logs ==
  /\ \A c \in Convs : c \in Log(c)
  /\ \A c, d \in Convs : Log(c) \cap Log(d) # {} => c = d
  /\ \A c \in Convs : \A h \in Replies \cap Log(c) : status[h] # None

\* What a page shows or is about to get.
OnPage(v) == page[v].seen \cup IF page[v].answer = None THEN {} ELSE page[v].answer

\* It was queued, and it is of conversations of the visitor's contact.
Pages ==
  \A v \in Visitors :
    /\ page[v].seen \subseteq shown
    /\ \A h \in OnPage(v) : status[h] # None
    /\ \A c \in Convs :
         c = Current(v) \/ Log(c) \cap OnPage(v) # {} => conv[c].contact = contact[v]

\* Contacts are of visitors who wrote.
Wrote ==
  /\ \A c \in Convs : contact[conv[c].contact] # None
  /\ \A v \in Visitors : contact[v] # None => contact[contact[v]] # None

IInv == TypeOK /\ Logs /\ Pages /\ Wrote /\ OneOpenConversation /\ ReadWasShown

-----------------------------------------------------------------------------
(* Sequences.                                                              *)

\* A set of numbers has a least one.
LEMMA MinIn == ASSUME NEW T \in SUBSET Nat, T # {} PROVE Min(T) \in T
<1> DEFINE R == {ss \in Nat \X Nat : ss[1] < ss[2]}
<1>1. IsWellFoundedOn(R, Nat)
  BY NatLessThanWellFounded DEF OpToRel
<1>2. \A x, y \in Nat : y < x => <<y, x>> \in R
  OBVIOUS
<1> HIDE DEF R
<1>3. PICK x \in T : \A y \in T : ~(<<y, x>> \in R)
  BY <1>1, WFMin
<1>4. ASSUME NEW y \in T PROVE x <= y
  <2>1. ~(y < x) /\ x \in Nat /\ y \in Nat
    BY <1>1, <1>2, <1>3
  <2> QED
    BY <2>1
<1> QED
  BY <1>4 DEF Min

LEMMA AppendSet ==
  ASSUME NEW S, NEW s \in Seq(S), NEW x \in S
  PROVE  ToSet(Append(s, x)) = ToSet(s) \cup {x}
<1>1. \A i \in 1..Len(s) : Append(s, x)[i] = s[i]
  OBVIOUS
<1>2. /\ Append(s, x)[Len(s) + 1] = x /\ Len(s) \in Nat
      /\ DOMAIN s = 1..Len(s) /\ DOMAIN Append(s, x) = 1..Len(s) + 1
  OBVIOUS
<1>3. \A i \in 1..Len(s) + 1 : i = Len(s) + 1 \/ i \in 1..Len(s)
  BY <1>2
<1> QED
  BY <1>1, <1>2, <1>3 DEF ToSet

LEMMA SubSeqIn ==
  ASSUME NEW S, NEW s \in Seq(S), NEW m \in 1..Len(s) + 1, NEW n \in 0..Len(s)
  PROVE  /\ SubSeq(s, m, n) \in Seq(S)
         /\ ToSet(SubSeq(s, m, n)) = {s[i] : i \in m..n}
<1>1. /\ \A i \in m..n : s[i] \in S
      /\ m \in Int /\ n \in Int
  OBVIOUS
<1>2. /\ SubSeq(s, m, n) \in Seq(S)
      /\ Len(SubSeq(s, m, n)) = IF m <= n THEN n - m + 1 ELSE 0
      /\ \A i \in 1..n - m + 1 : SubSeq(s, m, n)[i] = s[m + i - 1]
  BY <1>1, SubSeqProperties
<1>3. DOMAIN SubSeq(s, m, n) = 1..n - m + 1
  <2>1. DOMAIN SubSeq(s, m, n) = 1..Len(SubSeq(s, m, n)) /\ n - m + 1 \in Int
    BY <1>2
  <2>2. \A i \in Int : i \in 1..Len(SubSeq(s, m, n)) <=> i \in 1..n - m + 1
    BY <1>2, <2>1
  <2> QED
    BY <2>1, <2>2
<1>4. ASSUME NEW i \in m..n PROVE i - m + 1 \in 1..n - m + 1 /\ s[i] = SubSeq(s, m, n)[i - m + 1]
  <2>1. i - m + 1 \in 1..n - m + 1 /\ m + (i - m + 1) - 1 = i
    OBVIOUS
  <2> QED
    BY <2>1, <1>2
<1>5. \A k \in 1..n - m + 1 : m + k - 1 \in m..n
  OBVIOUS
<1>6. ToSet(SubSeq(s, m, n)) = {SubSeq(s, m, n)[k] : k \in 1..n - m + 1}
  BY <1>3 DEF ToSet
<1>7. \A k \in 1..n - m + 1 : SubSeq(s, m, n)[k] = s[m + k - 1]
  BY <1>2
<1>8. ToSet(SubSeq(s, m, n)) \subseteq {s[i] : i \in m..n}
  BY <1>5, <1>6, <1>7
<1>9. {s[i] : i \in m..n} \subseteq ToSet(SubSeq(s, m, n))
  BY <1>4, <1>6
<1> QED
  BY <1>2, <1>8, <1>9

LEMMA ConcatSet ==
  ASSUME NEW S, NEW s \in Seq(S), NEW t \in Seq(S)
  PROVE  s \o t \in Seq(S) /\ ToSet(s \o t) = ToSet(s) \cup ToSet(t)
<1>1. /\ Len(s) \in Nat /\ Len(t) \in Nat /\ DOMAIN s = 1..Len(s) /\ DOMAIN t = 1..Len(t)
      /\ s \o t \in Seq(S) /\ DOMAIN (s \o t) = 1..Len(s) + Len(t)
      /\ \A i \in 1..Len(s) + Len(t) : (s \o t)[i] = IF i <= Len(s) THEN s[i] ELSE t[i - Len(s)]
  OBVIOUS
<1>2. ASSUME NEW i \in 1..Len(s) PROVE s[i] = (s \o t)[i] /\ i \in 1..Len(s) + Len(t)
  BY <1>1
<1>3. ASSUME NEW i \in 1..Len(t) PROVE t[i] = (s \o t)[Len(s) + i] /\ Len(s) + i \in 1..Len(s) + Len(t)
  <2>1. Len(s) + i \in 1..Len(s) + Len(t) /\ ~(Len(s) + i <= Len(s)) /\ Len(s) + i - Len(s) = i
    BY <1>1
  <2> QED
    BY <2>1, <1>1
<1>4. ASSUME NEW i \in 1..Len(s) + Len(t) PROVE (s \o t)[i] \in ToSet(s) \cup ToSet(t)
  <2>1. CASE i <= Len(s)
    BY <2>1, <1>1 DEF ToSet
  <2>2. CASE ~(i <= Len(s))
    <3>1. i - Len(s) \in 1..Len(t) /\ (s \o t)[i] = t[i - Len(s)]
      BY <2>2, <1>1
    <3> QED
      BY <3>1, <1>1 DEF ToSet
  <2> QED
    BY <2>1, <2>2
<1>5. ToSet(s \o t) \subseteq ToSet(s) \cup ToSet(t)
  BY <1>1, <1>4 DEF ToSet
<1>6. ToSet(s) \subseteq ToSet(s \o t)
  BY <1>1, <1>2 DEF ToSet
<1>7. ASSUME NEW i \in 1..Len(t) PROVE t[i] \in ToSet(s \o t)
  BY <1>1, <1>3 DEF ToSet
<1>8. ToSet(t) \subseteq ToSet(s \o t)
  BY <1>1, <1>7 DEF ToSet
<1> QED
  BY <1>1, <1>5, <1>6, <1>8

\* What was at the front, or anywhere, is in the sequence with e before it.
LEMMA TouchSet ==
  ASSUME NEW S, NEW s \in Seq(S), NEW e \in S
  PROVE  /\ <<e>> \o RemoveFirst(s, e) \in Seq(S)
         /\ ToSet(<<e>> \o RemoveFirst(s, e)) = ToSet(s) \cup {e}
<1> DEFINE t == RemoveFirst(s, e)
           I == {i \in 1..Len(s) : s[i] = e}
           k == Min(I)
<1>1. Len(s) \in Nat /\ DOMAIN s = 1..Len(s)
  OBVIOUS
<1>2. t \in Seq(S) /\ ToSet(t) \subseteq ToSet(s) /\ ToSet(s) \subseteq ToSet(t) \cup {e}
  <2>1. CASE I = {}
    <3>1. t = s
      BY <2>1 DEF RemoveFirst
    <3> QED
      BY <3>1
  <2>2. CASE I # {}
    <3>1. k \in 1..Len(s) /\ s[k] = e
      <4>1. I \in SUBSET Nat
        BY <1>1
      <4>2. Min(I) \in I
        BY <2>2, <4>1, MinIn
      <4> QED
        BY <4>2
    <3>2. t = SubSeq(s, 1, k - 1) \o SubSeq(s, k + 1, Len(s))
      BY <2>2 DEF RemoveFirst, RemoveAt, SelectInSeq
    <3> HIDE DEF k, I
    <3>3. /\ SubSeq(s, 1, k - 1) \in Seq(S) /\ SubSeq(s, k + 1, Len(s)) \in Seq(S)
          /\ ToSet(SubSeq(s, 1, k - 1)) = {s[i] : i \in 1..k - 1}
          /\ ToSet(SubSeq(s, k + 1, Len(s))) = {s[i] : i \in k + 1..Len(s)}
      <4>1. /\ 1 \in 1..Len(s) + 1 /\ k - 1 \in 0..Len(s)
            /\ k + 1 \in 1..Len(s) + 1 /\ Len(s) \in 0..Len(s)
        BY <3>1, <1>1
      <4> QED
        BY <4>1, SubSeqIn
    <3>4. t \in Seq(S) /\ ToSet(t) = {s[i] : i \in 1..k - 1} \cup {s[i] : i \in k + 1..Len(s)}
      <4> DEFINE a == SubSeq(s, 1, k - 1)
                 b == SubSeq(s, k + 1, Len(s))
      <4>1. a \in Seq(S) /\ b \in Seq(S) /\ t = a \o b
        BY <3>2, <3>3
      <4> HIDE DEF a, b, t
      <4>2. t \in Seq(S) /\ ToSet(t) = ToSet(a) \cup ToSet(b)
        BY <4>1, ConcatSet, Zenon
      <4> QED
        BY <4>2, <3>3 DEF a, b
    <3>5. \A i \in 1..Len(s) : i \in 1..k - 1 \/ i = k \/ i \in k + 1..Len(s)
      BY <3>1, <1>1
    <3>6. 1..k - 1 \subseteq 1..Len(s) /\ k + 1..Len(s) \subseteq 1..Len(s)
      BY <3>1, <1>1
    <3> QED
      BY <3>1, <3>4, <3>5, <3>6, <1>1 DEF ToSet
  <2> QED
    BY <2>1, <2>2
<1> HIDE DEF t
<1> DEFINE h == <<e>>
<1>3. h \in Seq(S) /\ ToSet(h) = {e}
  BY DEF ToSet
<1> HIDE DEF h
<1>4. h \o t \in Seq(S) /\ ToSet(h \o t) = {e} \cup ToSet(t)
  <2>1. h \in Seq(S) /\ t \in Seq(S)
    BY <1>2, <1>3
  <2>2. h \o t \in Seq(S) /\ ToSet(h \o t) = ToSet(h) \cup ToSet(t)
    BY <2>1, ConcatSet, Zenon
  <2> QED
    BY <2>2, <1>3
<1> QED
  BY <1>2, <1>4 DEF h, t

-----------------------------------------------------------------------------
(* Conversations.                                                          *)

LEMMA ConvType ==
  ASSUME TypeOK, NEW c \in Convs
  PROVE  /\ conv[c] \in Threads
         /\ conv[c].contact \in Visitors /\ conv[c].log \in Seq(Posts \cup Replies)
         /\ Log(c) \subseteq Posts \cup Replies /\ c \in Posts /\ c # None
<1>1. conv[c] \in Threads
  BY DEF TypeOK
<1>2. conv[c].log \in Seq(Posts \cup Replies)
  BY <1>1 DEF Threads
<1>3. \A i \in DOMAIN conv[c].log : conv[c].log[i] \in Posts \cup Replies
  BY <1>2
<1>4. Log(c) \subseteq Posts \cup Replies
  BY <1>3 DEF Log, ToSet
<1> QED
  BY <1>1, <1>2, <1>4, NamesAssumption DEF TypeOK, Threads

LEMMA CurrentType ==
  ASSUME TypeOK, NEW v \in Visitors
  PROVE  Current(v) \in Convs \cup {None}
<1>1. session[v] # None => session[v] \in [conv : Convs \cup {None}, live : BOOLEAN]
  BY DEF TypeOK
<1> QED
  BY <1>1 DEF Current

LEMMA PageType ==
  ASSUME TypeOK, NEW v \in Visitors
  PROVE  /\ page[v] \in Widgets /\ OnPage(v) \subseteq Replies
         /\ page[v].ack \cup page[v].pending \subseteq page[v].seen
<1>1. page[v] \in Widgets
  BY DEF TypeOK
<1> QED
  BY <1>1 DEF OnPage, Widgets, TypeOK

\* The page of one visitor changes.
LEMMA PageChanges ==
  ASSUME TypeOK, NEW v \in Visitors, NEW p \in Widgets, p.ack \cup p.pending \subseteq p.seen,
         page' = [page EXCEPT ![v] = p]
  PROVE  /\ page' \in [Visitors -> Widgets]
         /\ page'[v] = p /\ \A w \in Visitors : w # v => page'[w] = page[w]
         /\ \A w \in Visitors : page'[w].ack \cup page'[w].pending \subseteq page'[w].seen
<1>1. page \in [Visitors -> Widgets]
  BY DEF TypeOK
<1>2. /\ page' \in [Visitors -> Widgets]
      /\ page'[v] = p /\ \A w \in Visitors : w # v => page'[w] = page[w]
  BY <1>1
<1> QED
  BY <1>2 DEF TypeOK

LEMMA NewestIn ==
  ASSUME TypeOK, NEW S \in SUBSET Convs, S # {}
  PROVE  Newest(S) \in S
<1> DEFINE T == {n \in DOMAIN recent : recent[n] \in S}
<1>1. recent \in Seq(Posts) /\ ToSet(recent) = Convs
  BY DEF TypeOK
<1>2. T \in SUBSET Nat
  BY <1>1
<1>3. T # {}
  BY <1>1 DEF ToSet
<1>4. Min(T) \in T
  <2> HIDE DEF T
  <2> QED
    BY <1>2, <1>3, MinIn
<1> QED
  BY <1>4 DEF Newest

\* The open conversation a visitor's message goes to is of its contact, if there is one.
LEMMA FindOpenIsOwn ==
  ASSUME TypeOK, Pages, NEW v \in Visitors
  PROVE  \/ FindOpen(v) = None /\ \A c \in Opened : conv[c].contact # contact[v]
         \/ FindOpen(v) \in Opened /\ conv[FindOpen(v)].contact = contact[v]
<1> DEFINE mine == {c \in Opened : conv[c].contact = contact[v]}
<1>1. Opened \subseteq Convs
  BY DEF Opened
<1>2. CASE Current(v) \in Opened
  BY <1>1, <1>2 DEF Pages, FindOpen
<1>3. CASE Current(v) \notin Opened /\ mine = {}
  BY <1>3 DEF FindOpen
<1>4. CASE Current(v) \notin Opened /\ mine # {}
  <2>1. mine \in SUBSET Convs
    BY <1>1
  <2>2. Newest(mine) \in mine
    <3> HIDE DEF mine
    <3> QED
      BY <1>4, <2>1, NewestIn
  <2> QED
    BY <1>4, <2>2 DEF FindOpen
<1> QED
  BY <1>2, <1>3, <1>4

\* An answer holds replies of the session's conversation.
LEMMA ServedIn ==
  ASSUME TypeOK, NEW v \in Visitors
  PROVE  /\ Served(v) \subseteq Replies
         /\ Served(v) # {} => Current(v) \in Convs /\ Served(v) \subseteq Log(Current(v))
<1>1. CASE Current(v) = None
  BY <1>1 DEF Served
<1>2. CASE Current(v) # None
  <2> DEFINE c == Current(v)
             s == conv[c].log
             m == IF Len(s) > PageSize THEN Len(s) - PageSize + 1 ELSE 1
  <2>1. c \in Convs
    BY <1>2, CurrentType
  <2>2. s \in Seq(Posts \cup Replies)
    BY <2>1, ConvType
  <2>3. Len(s) \in Nat
    BY <2>2
  <2>4. m \in 1..Len(s) + 1 /\ Len(s) \in 0..Len(s)
    BY <2>3, PageAssumption
  <2>5. ToSet(SubSeq(s, m, Len(s))) = {s[i] : i \in m..Len(s)}
    <3> HIDE DEF s, m
    <3> QED
      BY <2>2, <2>4, SubSeqIn
  <2>6. m..Len(s) \subseteq DOMAIN s
    BY <2>2, <2>3, <2>4
  <2>7. Page(c) \subseteq Log(c)
    <3>1. Page(c) = ToSet(SubSeq(s, m, Len(s)))
      BY DEF Page
    <3>2. Log(c) = {s[i] : i \in DOMAIN s}
      BY DEF Log, ToSet
    <3> HIDE DEF s, m
    <3> QED
      BY <2>5, <2>6, <3>1, <3>2
  <2> QED
    BY <1>2, <2>1, <2>7 DEF Served
<1> QED
  BY <1>1, <1>2

-----------------------------------------------------------------------------
(* Steps that leave the conversations and their contacts alone.            *)

\* A page shows no more than it did, or asks for what its session's conversation holds.
LEMMA VisitKept ==
  ASSUME IInv, TypeOK', ReadWasShown', UNCHANGED <<contact, conv, split>>,
         \A v \in Visitors :
           /\ Current(v)' \in {Current(v), None}
           /\ OnPage(v)' \subseteq OnPage(v) \cup Served(v)
           /\ page'[v].seen \subseteq shown',
         \A h \in Replies : status[h] # None => status'[h] # None
  PROVE  IInv'
<1> USE DEF IInv
<1>1. \A c : Log(c)' = Log(c) /\ Convs' = Convs
  BY DEF Log, Convs, ToSet
<1>2. Logs'
  BY <1>1 DEF Logs
<1>3. ASSUME NEW v \in Visitors
      PROVE  /\ \A h \in OnPage(v)' : status'[h] # None
             /\ \A c \in Convs : c = Current(v)' \/ Log(c) \cap OnPage(v)' # {}
                                   => conv[c].contact = contact[v]
  <2>1. OnPage(v) \subseteq Replies
    BY PageType
  <2>2. /\ Served(v) \subseteq Replies
        /\ Served(v) # {} => Current(v) \in Convs /\ Served(v) \subseteq Log(Current(v))
    BY ServedIn
  <2>3. \A h \in OnPage(v)' : status'[h] # None
    BY <2>1, <2>2 DEF Pages, Logs
  <2>4. ASSUME NEW c \in Convs, c = Current(v)' PROVE conv[c].contact = contact[v]
    BY <2>4, ConvType DEF Pages
  <2>5. ASSUME NEW c \in Convs, NEW h \in Log(c), h \in OnPage(v)'
        PROVE  conv[c].contact = contact[v]
    <3>1. CASE h \in OnPage(v)
      BY <3>1, <2>5 DEF Pages
    <3>2. CASE h \in Served(v)
      <4>1. c = Current(v)
        BY <3>2, <2>2, <2>5 DEF Logs
      <4> QED
        BY <4>1 DEF Pages
    <3> QED
      BY <3>1, <3>2, <2>5
  <2> QED
    BY <2>3, <2>4, <2>5
<1>4. Pages'
  BY <1>1, <1>3 DEF Pages
<1>5. Wrote' /\ OneOpenConversation'
  BY <1>1 DEF Wrote, OneOpenConversation
<1> QED
  BY <1>2, <1>4, <1>5

LEMMA NewSessionInv == ASSUME IInv, NEW v \in Visitors, NewSession(v) PROVE IInv'
<1> USE DEF IInv
<1>1. /\ session' = [session EXCEPT ![v] = [conv |-> None, live |-> TRUE]]
      /\ page' = [page EXCEPT ![v].ack = {}]
      /\ UNCHANGED <<contact, conv, recent, status, split, shown>>
  BY DEF NewSession
<1> DEFINE p == [page[v] EXCEPT !.ack = {}]
<1>2. /\ p \in Widgets /\ p.ack \cup p.pending \subseteq p.seen
      /\ p.seen = page[v].seen /\ p.answer = page[v].answer
  BY PageType DEF Widgets
<1>3. page' = [page EXCEPT ![v] = p]
  BY <1>1
<1> HIDE DEF p
<1>4. /\ page' \in [Visitors -> Widgets]
      /\ page'[v] = p /\ \A w \in Visitors : w # v => page'[w] = page[w]
      /\ \A w \in Visitors : page'[w].ack \cup page'[w].pending \subseteq page'[w].seen
  BY <1>2, <1>3, PageChanges
<1>5. session' \in [Visitors -> [conv : Convs \cup {None}, live : BOOLEAN] \cup {None}]
  BY <1>1 DEF TypeOK
<1>6. TypeOK'
  BY <1>1, <1>4, <1>5 DEF TypeOK, Convs
<1>7. ASSUME NEW w \in Visitors
      PROVE  Current(w)' \in {Current(w), None} /\ OnPage(w)' = OnPage(w) /\ page'[w].seen = page[w].seen
  BY <1>1, <1>2, <1>4 DEF TypeOK, Current, OnPage
<1> QED
  BY <1>1, <1>6, <1>7, VisitKept DEF ReadWasShown, Pages

LEMMA ExpireInv == ASSUME IInv, NEW v \in Visitors, Expire(v) PROVE IInv'
<1> USE DEF IInv
<1>1. /\ session[v] # None /\ session' = [session EXCEPT ![v].live = FALSE]
      /\ UNCHANGED <<contact, conv, recent, status, page, split, shown>>
  BY DEF Expire, Live
<1>2. session[v] \in [conv : Convs \cup {None}, live : BOOLEAN]
  BY <1>1 DEF TypeOK
<1>3. TypeOK'
  BY <1>1, <1>2 DEF TypeOK, Convs
<1>4. ASSUME NEW w \in Visitors
      PROVE  Current(w)' \in {Current(w), None} /\ OnPage(w)' = OnPage(w)
  BY <1>1, <1>2 DEF TypeOK, Current, OnPage
<1> QED
  BY <1>1, <1>3, <1>4, VisitKept DEF ReadWasShown, Pages

\* The statuses SENT become DELIVERED; the answer holds what is served.
LEMMA LoadInv == ASSUME IInv, NEW v \in Visitors, Load(v) PROVE IInv'
<1> USE DEF IInv
<1>1. /\ page' = [page EXCEPT ![v].answer = Served(v)]
      /\ UNCHANGED <<contact, conv, recent, session, split, shown>>
      /\ \A h \in Replies : status'[h] \in {status[h], Fetched(status[h])}
      /\ status' \in [Replies -> {None, "QUEUED", "SENT", "DELIVERED", "READ"}]
  BY DEF Load, TypeOK, Fetched
<1>2. Served(v) \subseteq Replies
  BY ServedIn
<1>3. \A h \in Replies : /\ status[h] # None => status'[h] # None
                         /\ status'[h] = "READ" => status[h] = "READ"
  BY <1>1, NamesAssumption DEF Fetched
<1> DEFINE p == [page[v] EXCEPT !.answer = Served(v)]
<1>4. /\ p \in Widgets /\ p.ack \cup p.pending \subseteq p.seen
      /\ p.seen = page[v].seen /\ p.answer = Served(v)
  BY <1>2, PageType DEF Widgets
<1>5. page' = [page EXCEPT ![v] = p]
  BY <1>1
<1> HIDE DEF p
<1>6. /\ page' \in [Visitors -> Widgets]
      /\ page'[v] = p /\ \A w \in Visitors : w # v => page'[w] = page[w]
      /\ \A w \in Visitors : page'[w].ack \cup page'[w].pending \subseteq page'[w].seen
  BY <1>4, <1>5, PageChanges
<1>7. TypeOK'
  BY <1>1, <1>6 DEF TypeOK, Convs
<1>8. ASSUME NEW w \in Visitors
      PROVE  /\ Current(w)' = Current(w) /\ OnPage(w)' \subseteq OnPage(w) \cup Served(w)
             /\ page'[w].seen = page[w].seen
  BY <1>1, <1>4, <1>6 DEF Current, OnPage
<1>9. ReadWasShown'
  BY <1>1, <1>3 DEF ReadWasShown
<1> QED
  BY <1>1, <1>3, <1>7, <1>8, <1>9, VisitKept DEF Pages

LEMMA ReceiveInv == ASSUME IInv, NEW v \in Visitors, Receive(v) PROVE IInv'
<1> USE DEF IInv
<1> DEFINE new     == page[v].answer \ page[v].seen
           pending == page[v].pending \cup new
<1>1. /\ page[v].answer # None
      /\ page' = [page EXCEPT ![v].answer = None, ![v].seen = @ \cup new, ![v].pending = pending,
                              ![v].ack = IF page[v].visible THEN pending ELSE @]
      /\ shown' = shown \cup new /\ UNCHANGED <<hub, split>>
  BY DEF Receive
<1>2. page[v].answer \in SUBSET Replies
  BY <1>1, PageType DEF Widgets
<1> DEFINE p == [page[v] EXCEPT !.answer = None, !.seen = @ \cup new, !.pending = pending,
                             !.ack = IF page[v].visible THEN pending ELSE @]
<1>3. /\ p \in Widgets /\ p.ack \cup p.pending \subseteq p.seen
      /\ p.seen = page[v].seen \cup new /\ p.answer = None
  BY <1>2, PageType DEF Widgets
<1>4. page' = [page EXCEPT ![v] = p]
  BY <1>1, PageType DEF TypeOK, Widgets
<1> HIDE DEF p
<1>5. /\ page' \in [Visitors -> Widgets]
      /\ page'[v] = p /\ \A w \in Visitors : w # v => page'[w] = page[w]
      /\ \A w \in Visitors : page'[w].ack \cup page'[w].pending \subseteq page'[w].seen
  BY <1>3, <1>4, PageChanges
<1>6. TypeOK'
  BY <1>1, <1>2, <1>5 DEF TypeOK, Convs, hub
<1>7. ASSUME NEW w \in Visitors
      PROVE  Current(w)' = Current(w) /\ OnPage(w)' = OnPage(w) /\ page'[w].seen \subseteq shown'
  BY <1>1, <1>3, <1>5 DEF Current, OnPage, Pages, hub
<1> QED
  BY <1>1, <1>6, <1>7, VisitKept DEF ReadWasShown, hub

\* A reply that becomes READ was in a read request, so in a page.
LEMMA AcknowledgeInv ==
  ASSUME IInv, NEW v \in Visitors, NEW answered \in BOOLEAN, Acknowledge(v, answered)
  PROVE  IInv'
<1> USE DEF IInv
<1>1. /\ status' = [h \in Replies |-> IF h \in Read(v) THEN "READ" ELSE status[h]]
      /\ page' = [page EXCEPT ![v].ack = {},
                              ![v].pending = IF answered /\ Live(v) THEN @ \ page[v].ack ELSE @]
      /\ UNCHANGED <<contact, conv, recent, session, split, shown>>
  BY DEF Acknowledge
<1>2. Read(v) \subseteq page[v].seen
  BY DEF Read, TypeOK
<1>3. ReadWasShown'
  BY <1>1, <1>2 DEF ReadWasShown, Pages
<1> DEFINE p == [page[v] EXCEPT !.ack = {},
                             !.pending = IF answered /\ Live(v) THEN @ \ page[v].ack ELSE @]
<1>4. /\ p \in Widgets /\ p.ack \cup p.pending \subseteq p.seen
      /\ p.seen = page[v].seen /\ p.answer = page[v].answer
  BY PageType DEF Widgets
<1>5. page' = [page EXCEPT ![v] = p]
  BY <1>1, PageType DEF TypeOK, Widgets
<1> HIDE DEF p
<1>6. /\ page' \in [Visitors -> Widgets]
      /\ page'[v] = p /\ \A w \in Visitors : w # v => page'[w] = page[w]
      /\ \A w \in Visitors : page'[w].ack \cup page'[w].pending \subseteq page'[w].seen
  BY <1>4, <1>5, PageChanges
<1>7. ASSUME NEW w \in Visitors
      PROVE  page'[w].seen = page[w].seen /\ page'[w].answer = page[w].answer
  BY <1>4, <1>6
<1>8. TypeOK'
  BY <1>1, <1>6 DEF TypeOK, Convs
<1>9. ASSUME NEW w \in Visitors PROVE Current(w)' = Current(w) /\ OnPage(w)' = OnPage(w)
  BY <1>1, <1>7 DEF Current, OnPage
<1> QED
  BY <1>1, <1>3, <1>7, <1>8, <1>9, NamesAssumption, VisitKept DEF Pages

\* An answer or a read request is lost, the panel or the document changes, the page is reloaded.
LEMMA PageInv ==
  ASSUME IInv, NEW v \in Visitors,
         LoadLost(v) \/ AcknowledgeLost(v) \/ Toggle(v) \/ Hide(v) \/ Show(v) \/ Reload(v)
  PROVE  IInv'
<1> USE DEF IInv
<1>1. UNCHANGED <<hub, split, shown>>
  BY DEF LoadLost, AcknowledgeLost, Toggle, Hide, Show, Reload
<1> DEFINE Less(p) == /\ p \in Widgets /\ p.ack \cup p.pending \subseteq p.seen
                      /\ p.seen \subseteq page[v].seen /\ p.answer \in {None, page[v].answer}
<1>2. PICK p : Less(p) /\ page' = [page EXCEPT ![v] = p]
  <2>1. CASE LoadLost(v)
    <3> DEFINE p == [page[v] EXCEPT !.answer = None]
    <3>1. Less(p) /\ page' = [page EXCEPT ![v] = p]
      BY <2>1, PageType DEF LoadLost, Widgets
    <3> QED
      BY <3>1
  <2>2. CASE AcknowledgeLost(v)
    <3> DEFINE p == [page[v] EXCEPT !.ack = {}]
    <3>1. Less(p) /\ page' = [page EXCEPT ![v] = p]
      BY <2>2, PageType DEF AcknowledgeLost, Widgets
    <3> QED
      BY <3>1
  <2>3. CASE Toggle(v)
    <3> DEFINE p == [page[v] EXCEPT !.open = ~@]
    <3>1. Less(p) /\ page' = [page EXCEPT ![v] = p]
      BY <2>3, PageType DEF Toggle, Widgets, TypeOK
    <3> QED
      BY <3>1
  <2>4. CASE Hide(v)
    <3> DEFINE p == [page[v] EXCEPT !.visible = FALSE]
    <3>1. Less(p) /\ page' = [page EXCEPT ![v] = p]
      BY <2>4, PageType DEF Hide, Widgets
    <3> QED
      BY <3>1
  <2>5. CASE Show(v)
    <3> DEFINE p == [page[v] EXCEPT !.visible = TRUE,
                                    !.ack = IF page[v].open THEN page[v].pending ELSE @]
    <3>1. Less(p) /\ page' = [page EXCEPT ![v] = p]
      BY <2>5, PageType DEF Show, Widgets, TypeOK
    <3> QED
      BY <3>1
  <2>6. CASE Reload(v)
    <3>1. Less(Fresh) /\ page' = [page EXCEPT ![v] = Fresh]
      BY <2>6 DEF Reload, Fresh, Widgets
    <3> QED
      BY <3>1
  <2> QED
    BY <2>1, <2>2, <2>3, <2>4, <2>5, <2>6
<1>3. /\ page' \in [Visitors -> Widgets]
      /\ page'[v] = p /\ \A w \in Visitors : w # v => page'[w] = page[w]
      /\ \A w \in Visitors : page'[w].ack \cup page'[w].pending \subseteq page'[w].seen
  BY <1>2, PageChanges
<1>4. ASSUME NEW w \in Visitors
      PROVE  page'[w].seen \subseteq page[w].seen /\ OnPage(w)' \subseteq OnPage(w)
  BY <1>2, <1>3 DEF OnPage
<1>5. TypeOK'
  BY <1>1, <1>3 DEF TypeOK, Convs, hub
<1>6. \A w : Current(w)' = Current(w)
  BY <1>1 DEF Current, hub
<1> QED
  BY <1>1, <1>4, <1>5, <1>6, VisitKept DEF ReadWasShown, Pages, hub

LEMMA SentInv == ASSUME IInv, NEW h \in Replies, Sent(h) PROVE IInv'
<1> USE DEF IInv
<1>1. /\ status' = [status EXCEPT ![h] = "SENT"]
      /\ UNCHANGED <<contact, conv, recent, session, page, split, shown>>
  BY DEF Sent
<1>2. TypeOK'
  BY <1>1 DEF TypeOK, Convs
<1>3. /\ \A g \in Replies : status[g] # None => status'[g] # None
      /\ ReadWasShown'
  BY <1>1, NamesAssumption DEF TypeOK, ReadWasShown
<1>4. \A w : Current(w)' = Current(w) /\ OnPage(w)' = OnPage(w)
  BY <1>1 DEF Current, OnPage
<1> QED
  BY <1>1, <1>2, <1>3, <1>4, VisitKept DEF Pages

-----------------------------------------------------------------------------
(* Steps that change conversations.                                        *)

\* A conversation gets a message.
LEMMA LogGrows ==
  ASSUME TypeOK, NEW c \in Convs, NEW m \in Posts \cup Replies
  PROVE  /\ Append(conv[c].log, m) \in Seq(Posts \cup Replies)
         /\ ToSet(Append(conv[c].log, m)) = Log(c) \cup {m}
<1>1. conv[c].log \in Seq(Posts \cup Replies)
  BY ConvType
<1>2. Append(conv[c].log, m) \in Seq(Posts \cup Replies)
  BY <1>1, AppendProperties
<1>3. ToSet(Append(conv[c].log, m)) = ToSet(conv[c].log) \cup {m}
  BY <1>1, AppendSet
<1> QED
  BY <1>2, <1>3 DEF Log

LEMMA TouchType ==
  ASSUME TypeOK, NEW c \in Posts
  PROVE  Touch(c) \in Seq(Posts) /\ ToSet(Touch(c)) = Convs \cup {c}
<1>1. recent \in Seq(Posts) /\ ToSet(recent) = Convs
  BY DEF TypeOK
<1> QED
  BY <1>1, TouchSet DEF Touch

\* A post goes to the open conversation of the visitor's contact, or opens one.
LEMMA PostShape ==
  ASSUME IInv, NEW v \in Visitors, NEW p \in Posts, Post(v, p)
  PROVE  \E c \in Posts, owner \in Visitors, row \in Threads :
           /\ owner = IF contact[v] = None THEN v ELSE contact[v]
           /\ \/ c = p /\ c \notin Convs /\ \A d \in Opened : conv[d].contact # contact[v]
              \/ c \in Convs /\ conv[c].open /\ conv[c].contact = contact[v] /\ owner = contact[v]
           /\ row.contact = owner /\ row.open = TRUE
           /\ ToSet(row.log) = (IF c \in Convs THEN Log(c) ELSE {}) \cup {p}
           /\ session[v] # None /\ \A d \in Convs : p \notin Log(d)
           /\ contact' = [contact EXCEPT ![v] = owner]
           /\ conv' = [d \in Convs \cup {c} |-> IF d # c THEN conv[d] ELSE row]
           /\ recent' = Touch(c) /\ session' = [session EXCEPT ![v].conv = c]
           /\ UNCHANGED <<status, page, split, shown>>
<1> USE DEF IInv
<1> DEFINE owner == IF contact[v] = None THEN v ELSE contact[v]
           c     == IF FindOpen(v) = None THEN p ELSE FindOpen(v)
           row   == IF c \in Convs THEN [conv[c] EXCEPT !.log = Append(@, p)]
                    ELSE [contact |-> owner, open |-> TRUE, log |-> <<p>>]
<1>1. /\ session[v] # None /\ p \notin Made
      /\ contact' = [contact EXCEPT ![v] = owner]
      /\ conv' = [d \in Convs \cup {c} |-> IF d # c THEN conv[d] ELSE row]
      /\ recent' = Touch(c) /\ session' = [session EXCEPT ![v].conv = c]
      /\ UNCHANGED <<status, page, split, shown>>
  BY DEF Post, Live
<1>2. /\ \A d \in Convs : p \notin Log(d)
      /\ p \notin Convs
  BY <1>1 DEF Made, Logs
<1>3. /\ contact \in [Visitors -> Visitors \cup {None}] /\ owner \in Visitors
      /\ owner # None /\ (contact[v] # None => owner = contact[v])
  BY NamesAssumption DEF TypeOK
<1>4. \/ c = p /\ c \notin Convs /\ \A d \in Opened : conv[d].contact # contact[v]
      \/ c \in Convs /\ conv[c].open /\ conv[c].contact = contact[v] /\ owner = contact[v]
  <2>1. \A d \in Opened : d \in Convs /\ d # None /\ conv[d].open /\ conv[d].contact # None
    BY ConvType, NamesAssumption DEF Opened
  <2> QED
    BY <2>1, <1>2, <1>3, FindOpenIsOwn
<1>5. c \in Posts
  BY <1>4, ConvType
<1>6. /\ row \in Threads /\ row.contact = owner /\ row.open = TRUE
      /\ ToSet(row.log) = (IF c \in Convs THEN Log(c) ELSE {}) \cup {p}
  <2>1. CASE c \in Convs
    <3>1. /\ Append(conv[c].log, p) \in Seq(Posts \cup Replies)
          /\ ToSet(Append(conv[c].log, p)) = Log(c) \cup {p}
      BY <2>1, LogGrows
    <3>2. conv[c] \in Threads /\ conv[c].open = TRUE /\ conv[c].contact = owner
      BY <2>1, <1>4, <1>2, ConvType DEF Threads
    <3>3. row = [conv[c] EXCEPT !.log = Append(@, p)]
      BY <2>1
    <3> HIDE DEF row, c, owner
    <3> QED
      BY <2>1, <3>1, <3>2, <3>3 DEF Threads
  <2>2. CASE c \notin Convs
    <3>1. <<p>> \in Seq(Posts \cup Replies) /\ ToSet(<<p>>) = {p}
      BY DEF ToSet
    <3> QED
      BY <2>2, <3>1, <1>3 DEF Threads
  <2> QED
    BY <2>1, <2>2
<1> HIDE DEF row, c
<1> QED
  BY <1>1, <1>2, <1>3, <1>4, <1>5, <1>6

LEMMA PostInv == ASSUME IInv, NEW v \in Visitors, NEW p \in Posts, Post(v, p) PROVE IInv'
<1> USE DEF IInv
<1>1. PICK c \in Posts, owner \in Visitors, row \in Threads :
           /\ owner = IF contact[v] = None THEN v ELSE contact[v]
           /\ \/ c = p /\ c \notin Convs /\ \A d \in Opened : conv[d].contact # contact[v]
              \/ c \in Convs /\ conv[c].open /\ conv[c].contact = contact[v] /\ owner = contact[v]
           /\ row.contact = owner /\ row.open = TRUE
           /\ ToSet(row.log) = (IF c \in Convs THEN Log(c) ELSE {}) \cup {p}
           /\ session[v] # None /\ \A d \in Convs : p \notin Log(d)
           /\ contact' = [contact EXCEPT ![v] = owner]
           /\ conv' = [d \in Convs \cup {c} |-> IF d # c THEN conv[d] ELSE row]
           /\ recent' = Touch(c) /\ session' = [session EXCEPT ![v].conv = c]
           /\ UNCHANGED <<status, page, split, shown>>
  BY PostShape
<1>2. \A d \in Convs : p \notin Log(d)
  BY <1>1
<1>3. /\ contact \in [Visitors -> Visitors \cup {None}]
      /\ owner # None /\ (contact[v] # None => owner = contact[v])
  BY <1>1, NamesAssumption DEF TypeOK
<1>4. \/ c = p /\ c \notin Convs /\ \A d \in Opened : conv[d].contact # contact[v]
      \/ c \in Convs /\ conv[c].open /\ conv[c].contact = contact[v] /\ owner = contact[v]
  BY <1>1
<1>5. c \in Posts
  OBVIOUS
<1>6. /\ row \in Threads /\ row.contact = owner /\ row.open = TRUE
      /\ ToSet(row.log) = (IF c \in Convs THEN Log(c) ELSE {}) \cup {p}
  BY <1>1
<1>7. /\ Convs' = Convs \cup {c} /\ conv'[c] = row
      /\ \A d \in Convs : d # c => conv'[d] = conv[d] /\ Log(d)' = Log(d)
      /\ Log(c)' = (IF c \in Convs THEN Log(c) ELSE {}) \cup {p}
  <2>1. Convs' = Convs \cup {c} /\ conv'[c] = row
    BY <1>1 DEF Convs
  <2>2. \A d \in Convs : d # c => conv'[d] = conv[d]
    BY <1>1
  <2> QED
    BY <2>1, <2>2, <1>6 DEF Log
<1>8. /\ contact' \in [Visitors -> Visitors \cup {None}]
      /\ contact'[v] = owner /\ \A w \in Visitors : w # v => contact'[w] = contact[w]
      /\ \A w \in Visitors : contact[w] # None => contact'[w] = contact[w]
  BY <1>1, <1>3
<1>9. /\ session' \in [Visitors -> [conv : Convs' \cup {None}, live : BOOLEAN] \cup {None}]
      /\ Current(v)' \in {c, None} /\ \A w \in Visitors : w # v => Current(w)' = Current(w)
  <2>1. session[v] \in [conv : Convs \cup {None}, live : BOOLEAN]
    BY <1>1 DEF TypeOK
  <2>2. \A w \in Visitors : session[w] \in [conv : Convs' \cup {None}, live : BOOLEAN] \cup {None}
    BY <1>7 DEF TypeOK
  <2>3. [session[v] EXCEPT !.conv = c] \in [conv : Convs' \cup {None}, live : BOOLEAN]
    BY <2>1, <1>7
  <2>4. /\ session \in [Visitors -> [conv : Convs \cup {None}, live : BOOLEAN] \cup {None}]
        /\ session' = [session EXCEPT ![v] = [session[v] EXCEPT !.conv = c]]
    BY <1>1 DEF TypeOK
  <2>5. session' \in [Visitors -> [conv : Convs' \cup {None}, live : BOOLEAN] \cup {None}]
    BY <2>2, <2>3, <2>4
  <2>6. \A w \in Visitors : session'[w] = IF w = v THEN [session[v] EXCEPT !.conv = c] ELSE session[w]
    BY <2>4
  <2>7. [session[v] EXCEPT !.conv = c].conv = c
    BY <2>1
  <2> QED
    BY <2>5, <2>6, <2>7 DEF Current
<1>10. TypeOK'
  <2>1. recent' \in Seq(Posts) /\ ToSet(recent') = Convs'
    BY <1>1, <1>5, <1>7, TouchType
  <2>2. conv' \in [Convs' -> Threads]
    <3>1. \A d \in Convs' : conv'[d] \in Threads
      BY <1>6, <1>7, ConvType
    <3> QED
      BY <3>1, <1>1, <1>7
  <2>3. Convs' \subseteq Posts
    BY <1>5, <1>7 DEF TypeOK
  <2> QED
    BY <2>1, <2>2, <2>3, <1>1, <1>8, <1>9 DEF TypeOK
<1>11. Logs'
  <2>1. p \notin Replies
    BY NamesAssumption
  <2>2. \A d \in Convs' : d \in Log(d)'
    BY <1>4, <1>7 DEF Logs
  <2>3. ASSUME NEW d \in Convs', NEW e \in Convs', Log(d)' \cap Log(e)' # {} PROVE d = e
    BY <2>3, <1>2, <1>7 DEF Logs
  <2>4. \A d \in Convs' : \A h \in Replies \cap Log(d)' : status'[h] # None
    BY <2>1, <1>1, <1>7 DEF Logs
  <2> QED
    BY <2>2, <2>3, <2>4 DEF Logs
<1>12. Pages'
  <2> SUFFICES ASSUME NEW w \in Visitors, NEW d \in Convs',
                      d = Current(w)' \/ Log(d)' \cap OnPage(w) # {}
               PROVE  conv'[d].contact = contact'[w]
    BY <1>1 DEF Pages, OnPage
  <2>1. p \notin OnPage(w)
    BY PageType, NamesAssumption
  <2>2. CASE d = c /\ w = v
    BY <2>2, <1>6, <1>7, <1>8
  <2>3. CASE d \in Convs /\ (d = Current(w) \/ Log(d) \cap OnPage(w) # {})
    <3>1. conv[d].contact = contact[w] /\ conv[d].contact \in Visitors
      BY <2>3, ConvType DEF Pages
    <3>2. contact'[w] = contact[w]
      BY <3>1, <1>8, NamesAssumption
    <3>3. conv'[d].contact = conv[d].contact
      BY <2>3, <1>4, <1>6, <1>7
    <3> QED
      BY <3>1, <3>2, <3>3
  <2>4. CASE d = Current(w)' /\ w = v
    <3>1. d # None
      BY <1>7, <1>5, ConvType, NamesAssumption
    <3> QED
      BY <3>1, <2>2, <2>4, <1>9
  <2>5. CASE Log(d)' \cap OnPage(w) # {} \/ (d = Current(w)' /\ w # v)
    <3>1. CASE d \in Convs
      BY <3>1, <2>1, <2>3, <2>5, <1>7, <1>9
    <3>2. CASE d \notin Convs
      <4>1. d = c /\ Log(d)' = {p}
        BY <3>2, <1>7
      <4>2. d \in Posts
        BY <4>1, <1>5
      <4>3. ~(d = Current(w)' /\ w # v)
        BY <3>2, <4>2, <1>9, CurrentType, NamesAssumption
      <4> QED
        BY <2>1, <2>5, <4>1, <4>3
    <3> QED
      BY <3>1, <3>2
  <2> QED
    BY <2>4, <2>5
<1>13. Wrote'
  <2>1. \A w \in Visitors : contact[w] # None => contact'[w] # None
    BY <1>8
  <2>2. contact'[owner] # None
    <3>1. CASE contact[v] = None
      BY <3>1, <1>1, <1>3, <1>8
    <3>2. CASE contact[v] # None
      BY <3>2, <2>1, <1>3 DEF Wrote
    <3> QED
      BY <3>1, <3>2
  <2>3. \A d \in Convs' : contact'[conv'[d].contact] # None
    BY <2>1, <2>2, <1>6, <1>7, ConvType DEF Wrote
  <2>4. ASSUME NEW w \in Visitors, contact'[w] # None PROVE contact'[contact'[w]] # None
    <3>1. CASE w = v
      BY <3>1, <2>2, <1>8
    <3>2. CASE w # v
      BY <3>2, <2>1, <2>4, <1>3, <1>8 DEF Wrote
    <3> QED
      BY <3>1, <3>2
  <2> QED
    BY <2>3, <2>4 DEF Wrote
<1>14. OneOpenConversation'
  <2>1. ASSUME c \notin Convs, NEW d \in Convs, conv[d].open PROVE conv[d].contact # owner
    <3>1. conv[d].contact # contact[v]
      BY <2>1, <1>4 DEF Opened
    <3>2. CASE contact[v] = None
      BY <3>2, <1>1, <1>3, <2>1 DEF Wrote
    <3> QED
      BY <3>1, <3>2, <1>3
  <2>2. ASSUME NEW d \in Convs', NEW e \in Convs', conv'[d].open, conv'[e].open,
               conv'[d].contact = conv'[e].contact
        PROVE  d = e \/ conv'[d].contact \in split
    <3>1. CASE c \in Convs
      BY <3>1, <2>2, <1>4, <1>6, <1>7 DEF OneOpenConversation
    <3>2. CASE c \notin Convs
      BY <3>2, <2>1, <2>2, <1>6, <1>7 DEF OneOpenConversation
    <3> QED
      BY <3>1, <3>2
  <2> QED
    BY <2>2, <1>1 DEF OneOpenConversation
<1>15. ReadWasShown'
  BY <1>1 DEF ReadWasShown
<1> QED
  BY <1>10, <1>11, <1>12, <1>13, <1>14, <1>15

\* A reply goes into a conversation, which it opens.
LEMMA ReplyInv == ASSUME IInv, NEW h \in Replies, NEW c \in Convs, Reply(h, c) PROVE IInv'
<1> USE DEF IInv
<1> DEFINE log == Append(conv[c].log, h)
           row == [conv[c] EXCEPT !.log = log, !.open = TRUE]
<1>1. /\ status[h] = None /\ status' = [status EXCEPT ![h] = "QUEUED"]
      /\ conv' = [conv EXCEPT ![c].log = Append(@, h), ![c].open = TRUE]
      /\ recent' = Touch(c)
      /\ split' = IF conv[c].open THEN split ELSE split \cup {conv[c].contact}
      /\ UNCHANGED <<contact, session, page, shown>>
  BY DEF Reply
<1>2. /\ conv[c] \in Threads /\ conv[c].contact \in Visitors /\ c \in Posts
      /\ conv \in [Convs -> Threads]
  BY ConvType DEF TypeOK
<1>3. log \in Seq(Posts \cup Replies) /\ ToSet(log) = Log(c) \cup {h}
  BY LogGrows
<1>4. /\ row \in Threads /\ row.contact = conv[c].contact /\ row.open = TRUE /\ row.log = log
      /\ conv' = [conv EXCEPT ![c] = row]
  <2> HIDE DEF log
  <2>1. row \in Threads /\ row.contact = conv[c].contact /\ row.open = TRUE /\ row.log = log
    BY <1>2, <1>3 DEF Threads
  <2>2. conv' = [conv EXCEPT ![c] = row]
    BY <1>1, <1>2 DEF Threads, log
  <2> QED
    BY <2>1, <2>2
<1> HIDE DEF row, log
<1>5. /\ Convs' = Convs /\ conv' \in [Convs -> Threads]
      /\ conv'[c] = row /\ \A d \in Convs : d # c => conv'[d] = conv[d]
  BY <1>2, <1>4 DEF Convs
<1>6. /\ Log(c)' = Log(c) \cup {h} /\ \A d \in Convs : d # c => Log(d)' = Log(d)
      /\ \A d \in Convs : conv'[d].contact = conv[d].contact
  BY <1>3, <1>4, <1>5 DEF Log
<1>7. /\ status' \in [Replies -> {None, "QUEUED", "SENT", "DELIVERED", "READ"}]
      /\ \A g \in Replies : status[g] # None => status'[g] = status[g]
      /\ status'[h] = "QUEUED" /\ \A g \in Replies : g # h => status'[g] = status[g]
  BY <1>1 DEF TypeOK
<1>8. TypeOK'
  <2>1. recent' \in Seq(Posts) /\ ToSet(recent') = Convs'
    <3>1. Touch(c) \in Seq(Posts) /\ ToSet(Touch(c)) = Convs \cup {c}
      BY <1>2, TouchType
    <3>2. Convs \cup {c} = Convs
      OBVIOUS
    <3> QED
      BY <3>1, <3>2, <1>1, <1>5
  <2>2. split' \subseteq Visitors
    BY <1>1, <1>2 DEF TypeOK
  <2> QED
    BY <2>1, <2>2, <1>1, <1>5, <1>7 DEF TypeOK
<1>9. \A d \in Convs : h \notin Log(d)
  BY <1>1 DEF Logs
<1>10. Logs'
  <2>1. \A d \in Convs' : d \in Log(d)'
    BY <1>5, <1>6 DEF Logs
  <2>2. ASSUME NEW d \in Convs', NEW e \in Convs', Log(d)' \cap Log(e)' # {} PROVE d = e
    BY <2>2, <1>5, <1>6, <1>9 DEF Logs
  <2>3. ASSUME NEW d \in Convs', NEW g \in Replies \cap Log(d)' PROVE status'[g] # None
    BY <2>3, <1>5, <1>6, <1>7, NamesAssumption DEF Logs
  <2> QED
    BY <2>1, <2>2, <2>3 DEF Logs
<1>11. Pages'
  <2> SUFFICES ASSUME NEW w \in Visitors
               PROVE  /\ page[w].seen \subseteq shown
                      /\ \A g \in OnPage(w) : status'[g] # None
                      /\ \A d \in Convs : d = Current(w) \/ Log(d)' \cap OnPage(w) # {}
                                            => conv'[d].contact = contact[w]
    <3>1. \A w : Current(w)' = Current(w) /\ OnPage(w)' = OnPage(w)
      BY <1>1 DEF Current, OnPage
    <3> QED
      BY <3>1, <1>1, <1>5 DEF Pages
  <2>1. OnPage(w) \subseteq Replies /\ h \notin OnPage(w)
    BY <1>1, PageType DEF Pages
  <2> QED
    BY <2>1, <1>6, <1>7 DEF Pages
<1>12. Wrote'
  BY <1>1, <1>5, <1>6 DEF Wrote
<1>13. OneOpenConversation'
  <2>1. CASE conv[c].open
    <3>1. \A d \in Convs : conv'[d].open => conv[d].open
      BY <2>1, <1>5
    <3> QED
      BY <2>1, <3>1, <1>1, <1>5, <1>6 DEF OneOpenConversation
  <2>2. CASE ~conv[c].open
    BY <2>2, <1>1, <1>5, <1>6 DEF OneOpenConversation
  <2> QED
    BY <2>1, <2>2
<1>14. ReadWasShown'
  BY <1>1, <1>7 DEF ReadWasShown
<1> QED
  BY <1>8, <1>10, <1>11, <1>12, <1>13, <1>14

\* An agent closes a conversation, or opens one.
LEMMA SetStatusInv ==
  ASSUME IInv, NEW c \in Convs, NEW open \in BOOLEAN, SetStatus(c, open) PROVE IInv'
<1> USE DEF IInv
<1> DEFINE row == [conv[c] EXCEPT !.open = open]
<1>1. /\ conv' = [conv EXCEPT ![c].open = open]
      /\ split' = IF open THEN split \cup {conv[c].contact} ELSE split
      /\ UNCHANGED <<contact, recent, status, session, page, shown>>
  BY DEF SetStatus
<1>2. /\ conv[c] \in Threads /\ conv[c].contact \in Visitors /\ conv \in [Convs -> Threads]
  BY ConvType DEF TypeOK
<1>3. /\ row \in Threads /\ row.contact = conv[c].contact /\ row.open = open
      /\ row.log = conv[c].log /\ conv' = [conv EXCEPT ![c] = row]
  BY <1>1, <1>2 DEF Threads
<1> HIDE DEF row
<1>4. /\ Convs' = Convs /\ conv' \in [Convs -> Threads]
      /\ conv'[c] = row /\ \A d \in Convs : d # c => conv'[d] = conv[d]
  BY <1>2, <1>3 DEF Convs
<1>5. \A d \in Convs : Log(d)' = Log(d) /\ conv'[d].contact = conv[d].contact
  BY <1>3, <1>4 DEF Log
<1>6. TypeOK'
  BY <1>1, <1>2, <1>4 DEF TypeOK
<1>7. \A w : Current(w)' = Current(w) /\ OnPage(w)' = OnPage(w)
  BY <1>1 DEF Current, OnPage
<1>8. Logs' /\ Wrote' /\ ReadWasShown'
  BY <1>1, <1>4, <1>5 DEF Logs, Wrote, ReadWasShown
<1>9. Pages'
  BY <1>1, <1>4, <1>5, <1>7 DEF Pages
<1>10. OneOpenConversation'
  <2>1. CASE open
    BY <2>1, <1>1, <1>4, <1>5 DEF OneOpenConversation
  <2>2. CASE ~open
    <3>1. \A d \in Convs : conv'[d].open => conv[d].open
      BY <2>2, <1>3, <1>4
    <3> QED
      BY <2>2, <3>1, <1>1, <1>4, <1>5 DEF OneOpenConversation
  <2> QED
    BY <2>1, <2>2
<1> QED
  BY <1>6, <1>8, <1>9, <1>10

\* A contact is merged into another, in the identities and the conversations alike.
LEMMA MergeInv ==
  ASSUME IInv, NEW x \in Visitors, NEW y \in Visitors, Merge(x, y) PROVE IInv'
<1> USE DEF IInv
<1> DEFINE Now(a) == IF a = x THEN y ELSE a
           rows   == [c \in Convs |->
                        IF conv[c].contact = x THEN [conv[c] EXCEPT !.contact = y] ELSE conv[c]]
<1>1. /\ {x, y} \subseteq {contact[v] : v \in Visitors} \ {None}
      /\ contact' = [v \in Visitors |-> IF contact[v] = x THEN y ELSE contact[v]]
      /\ conv' = rows
      /\ split' = split \cup {y}
      /\ UNCHANGED <<recent, status, session, page, shown>>
  BY DEF Merge
<1>2. Convs' = Convs
  BY <1>1 DEF Convs
<1>3. ASSUME NEW c \in Convs
      PROVE  /\ conv'[c] \in Threads /\ conv'[c].contact = Now(conv[c].contact)
             /\ conv'[c].open = conv[c].open /\ conv'[c].log = conv[c].log /\ Log(c)' = Log(c)
  <2>1. conv[c] \in Threads /\ conv'[c] = rows[c]
    BY <1>1, ConvType
  <2>2. /\ conv'[c] \in Threads /\ conv'[c].contact = Now(conv[c].contact)
        /\ conv'[c].open = conv[c].open /\ conv'[c].log = conv[c].log
    BY <2>1 DEF Threads
  <2> QED
    BY <2>2 DEF Log
<1>4. \A v \in Visitors : contact'[v] = Now(contact[v])
  BY <1>1
<1>5. x # None /\ y # None /\ contact[y] # None
  BY <1>1, NamesAssumption DEF Wrote
<1>6. TypeOK'
  <2>1. conv' \in [Convs -> Threads]
    BY <1>1, <1>3
  <2>2. contact' \in [Visitors -> Visitors \cup {None}]
    BY <1>1 DEF TypeOK
  <2> QED
    BY <2>1, <2>2, <1>1, <1>2 DEF TypeOK
<1>7. \A w : Current(w)' = Current(w) /\ OnPage(w)' = OnPage(w)
  BY <1>1 DEF Current, OnPage
<1>8. Logs' /\ ReadWasShown'
  <2>1. \A c \in Convs : Log(c)' = Log(c)
    BY <1>3
  <2> QED
    BY <2>1, <1>1, <1>2 DEF Logs, ReadWasShown
<1>9. Pages'
  <2>1. \A v \in Visitors : page'[v].seen \subseteq shown' /\ \A h \in OnPage(v)' : status'[h] # None
    BY <1>1, <1>7 DEF Pages
  <2>2. ASSUME NEW v \in Visitors, NEW c \in Convs,
               c = Current(v)' \/ Log(c)' \cap OnPage(v)' # {}
        PROVE  conv'[c].contact = contact'[v]
    <3>1. conv[c].contact = contact[v]
      BY <2>2, <1>3, <1>7 DEF Pages
    <3> QED
      BY <3>1, <1>3, <1>4
  <2> QED
    BY <2>1, <2>2, <1>2 DEF Pages
<1>10. Wrote'
  <2>1. ASSUME NEW a \in Visitors, contact[a] # None PROVE contact'[Now(a)] # None
    BY <2>1, <1>4, <1>5
  <2>2. \A c \in Convs : contact'[conv'[c].contact] # None
    BY <2>1, <1>3, ConvType DEF Wrote
  <2>3. ASSUME NEW w \in Visitors, contact'[w] # None PROVE contact'[contact'[w]] # None
    <3>1. contact[w] # None /\ contact[w] \in Visitors
      BY <2>3, <1>4, <1>5 DEF TypeOK
    <3> QED
      BY <3>1, <2>1, <1>4 DEF Wrote
  <2> QED
    BY <2>2, <2>3, <1>2 DEF Wrote
<1>11. OneOpenConversation'
  BY <1>1, <1>2, <1>3 DEF OneOpenConversation
<1> QED
  BY <1>6, <1>8, <1>9, <1>10, <1>11

-----------------------------------------------------------------------------
(* The theorems.                                                           *)

LEMMA InitInv == Init => IInv
<1> SUFFICES ASSUME Init PROVE IInv
  OBVIOUS
<1>1. Convs = {}
  BY DEF Init, Convs
<1>2. ToSet(<<>>) = {} /\ <<>> \in Seq(Posts)
  BY DEF ToSet
<1>3. conv \in [Convs -> Threads]
  BY <1>1 DEF Init, Convs
<1>4. Fresh \in Widgets /\ Fresh.ack = {} /\ Fresh.pending = {} /\ Fresh.seen = {} /\ Fresh.answer = None
  BY DEF Fresh, Widgets
<1>5. TypeOK
  BY <1>1, <1>2, <1>3, <1>4 DEF Init, TypeOK
<1>6. Pages
  BY <1>1, <1>4 DEF Init, Pages, OnPage
<1> QED
  BY <1>1, <1>5, <1>6, NamesAssumption
     DEF IInv, Init, Logs, Wrote, OneOpenConversation, ReadWasShown

LEMMA StepInv == IInv /\ [Next]_vars => IInv'
<1> SUFFICES ASSUME IInv, [Next]_vars PROVE IInv'
  OBVIOUS
<1>1. CASE AgentStep
  BY <1>1, SentInv, ReplyInv, SetStatusInv, MergeInv DEF AgentStep
<1>2. ASSUME NEW v \in Visitors, PageStep(v) PROVE IInv'
  BY <1>2, NewSessionInv, LoadInv, ReceiveInv, AcknowledgeInv, PageInv DEF PageStep
<1>3. ASSUME NEW v \in Visitors, VisitorStep(v) PROVE IInv'
  BY <1>3, ExpireInv, PageInv, PostInv DEF VisitorStep
<1>4. CASE UNCHANGED vars
  BY <1>4 DEF vars, hub, IInv, TypeOK, Logs, Pages, OnPage, Wrote, OneOpenConversation,
              ReadWasShown, Convs, Log, Current
<1> QED
  BY <1>1, <1>2, <1>3, <1>4 DEF Next

\* The chat is in the states the proof describes: threads, pages and statuses agree.
THEOREM Inductive == Spec => []IInv
  BY InitInv, StepInv, PTL DEF Spec

\* Type correctness of the chat's rows and of the widgets (service.ts, dsdst-chat.ts).
THEOREM TypeCorrect == Spec => []TypeOK
<1>1. IInv => TypeOK
  BY DEF IInv
<1> QED
  BY <1>1, Inductive, PTL

\* A page shows and polls conversations of its visitor's contact and of no other, through
\* merges, closed threads, new sessions, reloads and late answers (findOpenConversation).
THEOREM OwnConversations == Spec => []Isolation
<1>1. IInv => Isolation
  BY DEF IInv, Pages, OnPage, Isolation
<1> QED
  BY <1>1, Inductive, PTL

\* A customer who writes has one open conversation, unless an agent reopened one or merged
\* contacts (findOpenConversation and the insertion of ingestWebsiteMessage).
THEOREM OneOpen == Spec => []OneOpenConversation
<1>1. IInv => OneOpenConversation
  BY DEF IInv
<1> QED
  BY <1>1, Inductive, PTL

\* A reply that is READ was displayed in a page: neither a fetch nor a read request that
\* outlives its page or session makes it so (POST /read and flushRead).
THEOREM ReadIsShown == Spec => []ReadWasShown
<1>1. IInv => ReadWasShown
  BY DEF IInv
<1> QED
  BY <1>1, Inductive, PTL
=============================================================================
