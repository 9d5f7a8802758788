-------------------------- MODULE MetaWebhook_proofs --------------------------
(***************************************************************************)
(* For any payloads the providers may post: the inbox is what customers    *)
(* wrote.  The normalisation is a loop, of which MadeIs says what it       *)
(* returns; the rest is AckedIsDelivered of module Conversations_proofs    *)
(* and the fact that what is stored was an item of some payload.           *)
(***************************************************************************)
EXTENDS MetaWebhook, Conversations_proofs, WellFoundedInduction

-----------------------------------------------------------------------------
(* The loop of the normalisations.                                         *)

\* A set of numbers that is not empty has a least member.
LEMMA LeastIn ==
  ASSUME NEW T \in SUBSET Nat, T # {}
  PROVE  \E x \in T : \A y \in T : x <= y
<1> DEFINE R == {ss \in Nat \X Nat : ss[1] < ss[2]}
<1>1. IsWellFoundedOn(R, Nat)
  BY NatLessThanWellFounded DEF OpToRel
<1>2. \A x, y \in Nat : y < x => <<y, x>> \in R
  OBVIOUS
<1> HIDE DEF R
<1>3. PICK x \in T : \A y \in T : ~(<<y, x>> \in R)
  BY <1>1, WFMin
<1>4. ASSUME NEW y \in T PROVE x <= y
  <2>1. ~(y < x) /\ x \in Nat /\ y \in Nat
    BY <1>1, <1>2, <1>3
  <2> QED
    BY <2>1
<1> QED
  BY <1>4

\* What the loop has made after each member of s.
IsLoop(g, s, f, k) ==
  g = [i \in 0..k |->
         IF i = 0 THEN <<>>
         ELSE IF s[i] \in DOMAIN f THEN Append(g[i - 1], f[s[i]]) ELSE g[i - 1]]

\* The recursion of the loop has a solution, by its least counterexample.
LEMMA LoopExists ==
  ASSUME NEW s, NEW f, NEW k \in Nat
  PROVE  \E g : IsLoop(g, s, f, k)
<1> DEFINE T == {n \in Nat : ~ \E g : IsLoop(g, s, f, n)}
<1>1. SUFFICES ASSUME T # {} PROVE FALSE
  OBVIOUS
<1>2. PICK n \in T : \A y \in T : n <= y
  BY <1>1, LeastIn
<1>3. n \in Nat /\ ~ \E g : IsLoop(g, s, f, n)
  BY <1>2
<1>4. n # 0
  <2>1. IsLoop([i \in 0..0 |-> <<>>], s, f, 0)
    BY DEF IsLoop
  <2> QED
    BY <1>3, <2>1
<1>5. PICK g : IsLoop(g, s, f, n - 1)
  <2>1. n - 1 \in Nat /\ ~(n <= n - 1)
    BY <1>3, <1>4
  <2>2. n - 1 \notin T
    BY <1>2, <2>1
  <2> QED
    BY <2>1, <2>2
<1> DEFINE last == IF s[n] \in DOMAIN f THEN Append(g[n - 1], f[s[n]]) ELSE g[n - 1]
           h == [i \in 0..n |-> IF i = n THEN last ELSE g[i]]
<1>6. \A i \in 0..n - 1 : h[i] = g[i]
  BY <1>3
<1>7. ASSUME NEW i \in 0..n
      PROVE  h[i] = IF i = 0 THEN <<>>
                    ELSE IF s[i] \in DOMAIN f THEN Append(h[i - 1], f[s[i]]) ELSE h[i - 1]
  <2>1. CASE i = n
    <3>1. h[i] = last /\ h[i - 1] = g[n - 1]
      BY <1>3, <1>4, <1>6, <2>1
    <3> QED
      BY <1>4, <2>1, <3>1
  <2>2. CASE i # n
    <3>1. i \in 0..n - 1 /\ (i # 0 => i - 1 \in 0..n - 1)
      BY <1>3, <2>2
    <3>2. g[i] = IF i = 0 THEN <<>>
                 ELSE IF s[i] \in DOMAIN f THEN Append(g[i - 1], f[s[i]]) ELSE g[i - 1]
      BY <1>5, <3>1 DEF IsLoop
    <3>3. h[i] = g[i] /\ (i # 0 => h[i - 1] = g[i - 1])
      BY <1>6, <3>1
    <3> QED
      BY <3>2, <3>3
  <2> QED
    BY <2>1, <2>2
<1>8. h = [i \in 0..n |-> h[i]]
  OBVIOUS
<1> HIDE DEF h, last
<1>9. IsLoop(h, s, f, n)
  BY <1>7, <1>8 DEF IsLoop
<1> QED
  BY <1>3, <1>9

\* Appending adds a member.
LEMMA AppendSet ==
  ASSUME NEW V, NEW t \in Seq(V), NEW x \in V
  PROVE  Append(t, x) \in Seq(V) /\ ToSet(Append(t, x)) = ToSet(t) \cup {x}
<1>1. \A i \in 1..Len(t) : Append(t, x)[i] = t[i]
  OBVIOUS
<1>2. /\ Append(t, x) \in Seq(V) /\ Append(t, x)[Len(t) + 1] = x /\ Len(t) \in Nat
      /\ DOMAIN t = 1..Len(t) /\ DOMAIN Append(t, x) = 1..Len(t) + 1
  OBVIOUS
<1>3. \A i \in 1..Len(t) + 1 : i = Len(t) + 1 \/ i \in 1..Len(t)
  BY <1>2
<1> QED
  BY <1>1, <1>2, <1>3 DEF ToSet

\* The loop makes something of just the members that f is defined for.
LEMMA MadeIs ==
  ASSUME NEW S, NEW s \in Seq(S), NEW V, NEW f, \A x \in DOMAIN f : f[x] \in V
  PROVE  /\ Made(s, f) \in Seq(V)
         /\ ToSet(Made(s, f)) = {f[x] : x \in ToSet(s) \cap DOMAIN f}
<1> DEFINE upTo(k) == {f[x] : x \in {s[i] : i \in 1..k} \cap DOMAIN f}
<1>1. Len(s) \in Nat /\ DOMAIN s = 1..Len(s)
  OBVIOUS
<1>2. PICK g : IsLoop(g, s, f, Len(s)) /\ Made(s, f) = g[Len(s)]
  <2> DEFINE G == CHOOSE g : IsLoop(g, s, f, Len(s))
  <2>1. IsLoop(G, s, f, Len(s))
    BY <1>1, LoopExists
  <2>2. Made(s, f) = G[Len(s)]
    BY DEF Made, IsLoop
  <2> QED
    BY <2>1, <2>2
<1> DEFINE T == {n \in 0..Len(s) : ~(g[n] \in Seq(V) /\ ToSet(g[n]) = upTo(n))}
<1>3. T = {}
  <2> SUFFICES ASSUME T # {} PROVE FALSE
    OBVIOUS
  <2>1. T \in SUBSET Nat
    BY <1>1
  <2>2. PICK n \in T : \A y \in T : n <= y
    BY <2>1, LeastIn
  <2>3. n \in 0..Len(s) /\ n \in Nat /\ ~(g[n] \in Seq(V) /\ ToSet(g[n]) = upTo(n))
    BY <2>1, <2>2
  <2>4. g[n] = IF n = 0 THEN <<>>
               ELSE IF s[n] \in DOMAIN f THEN Append(g[n - 1], f[s[n]]) ELSE g[n - 1]
    BY <1>2, <2>3 DEF IsLoop
  <2>5. CASE n = 0
    <3>1. g[n] = <<>> /\ upTo(n) = {}
      BY <2>4, <2>5
    <3>2. <<>> \in Seq(V) /\ ToSet(<<>>) = {}
      BY DEF ToSet
    <3> QED
      BY <2>3, <3>1, <3>2
  <2>6. CASE n # 0
    <3>1. n - 1 \in 0..Len(s) /\ ~(n <= n - 1)
      BY <1>1, <2>3, <2>6
    <3>2. n - 1 \notin T
      BY <2>2, <3>1
    <3>3. g[n - 1] \in Seq(V) /\ ToSet(g[n - 1]) = upTo(n - 1)
      BY <3>1, <3>2
    <3>4. {s[i] : i \in 1..n} = {s[i] : i \in 1..n - 1} \cup {s[n]}
      <4>1. \A i : i \in 1..n <=> i \in 1..n - 1 \/ i = n
        BY <2>3, <2>6
      <4> QED
        BY <4>1
    <3>5. upTo(n) = IF s[n] \in DOMAIN f THEN upTo(n - 1) \cup {f[s[n]]} ELSE upTo(n - 1)
      BY <3>4
    <3> HIDE DEF upTo
    <3>6. CASE s[n] \in DOMAIN f
      BY <2>3, <2>4, <2>6, <3>3, <3>5, <3>6, AppendSet
    <3>7. CASE s[n] \notin DOMAIN f
      BY <2>3, <2>4, <2>6, <3>3, <3>5, <3>7
    <3> QED
      BY <3>6, <3>7
  <2> QED
    BY <2>5, <2>6
<1>4. g[Len(s)] \in Seq(V) /\ ToSet(g[Len(s)]) = upTo(Len(s))
  <2>1. \A n \in 0..Len(s) : g[n] \in Seq(V) /\ ToSet(g[n]) = upTo(n)
    <3> HIDE DEF upTo
    <3> QED
      BY <1>3
  <2>2. Len(s) \in 0..Len(s)
    BY <1>1
  <2> HIDE DEF upTo, T
  <2> QED
    BY <2>1, <2>2
<1>5. ToSet(s) = {s[i] : i \in 1..Len(s)}
  BY <1>1 DEF ToSet
<1> QED
  BY <1>2, <1>4, <1>5

LEMMA ConcatSet ==
  ASSUME NEW V, NEW s \in Seq(V), NEW t \in Seq(V)
  PROVE  s \o t \in Seq(V) /\ ToSet(s \o t) = ToSet(s) \cup ToSet(t)
<1>1. /\ s \o t \in Seq(V) /\ Len(s \o t) = Len(s) + Len(t)
      /\ Len(s) \in Nat /\ Len(t) \in Nat
      /\ DOMAIN s = 1..Len(s) /\ DOMAIN t = 1..Len(t) /\ DOMAIN (s \o t) = 1..Len(s) + Len(t)
      /\ \A i \in 1..Len(s) : (s \o t)[i] = s[i]
      /\ \A i \in 1..Len(t) : (s \o t)[Len(s) + i] = t[i]
  OBVIOUS
<1>2. \A i \in 1..Len(s) + Len(t) : i \in 1..Len(s) \/ \E j \in 1..Len(t) : i = Len(s) + j
  <2> SUFFICES ASSUME NEW i \in 1..Len(s) + Len(t), i \notin 1..Len(s)
               PROVE  \E j \in 1..Len(t) : i = Len(s) + j
    OBVIOUS
  <2>1. i - Len(s) \in 1..Len(t) /\ i = Len(s) + (i - Len(s))
    BY <1>1
  <2> QED
    BY <2>1
<1>3. 1..Len(s) \subseteq 1..Len(s) + Len(t)
      /\ \A j \in 1..Len(t) : Len(s) + j \in 1..Len(s) + Len(t)
  BY <1>1
<1> DEFINE u == s \o t
<1>4. \A x \in ToSet(u) : x \in ToSet(s) \cup ToSet(t)
  <2> SUFFICES ASSUME NEW i \in 1..Len(s) + Len(t)
               PROVE  u[i] \in ToSet(s) \cup ToSet(t)
    BY <1>1 DEF ToSet
  <2>1. CASE i \in 1..Len(s)
    BY <1>1, <2>1 DEF ToSet
  <2>2. ASSUME NEW j \in 1..Len(t), i = Len(s) + j PROVE u[i] \in ToSet(s) \cup ToSet(t)
    BY <1>1, <2>2 DEF ToSet
  <2> QED
    BY <1>2, <2>1, <2>2
<1>5. \A x \in ToSet(s) \cup ToSet(t) : x \in ToSet(u)
  BY <1>1, <1>3 DEF ToSet
<1> QED
  BY <1>1, <1>4, <1>5

-----------------------------------------------------------------------------
(* The items of a payload.                                                 *)

IsMessage(i) == \E provider, a, from, user, id : i = Message(provider, a, from, user, id)
IsReceipt(i) == \E provider, a, id, what : i = Receipt(provider, a, id, what)

\* A payload's parts are sequences.
LEMMA PayloadParts ==
  ASSUME NEW b \in Batches, NEW p, p = Payloads[b]
  PROVE  /\ p.object \in {"whatsapp_business_account", "page", "instagram"}
         /\ p.messages \in Seq(ToSet(p.messages)) /\ p.statuses \in Seq(ToSet(p.statuses))
         /\ p.messaging \in Seq(ToSet(p.messaging))
         /\ p.deliveries \in Seq(ToSet(p.deliveries))
         /\ \A m \in ToSet(p.messages) : \E S : m.contacts \in Seq(S)
<1>1. p \in Body
  BY PayloadsAssumption
<1>2. ASSUME NEW S, NEW s \in Seq(S)
      PROVE  s \in Seq(ToSet(s)) /\ \A x \in ToSet(s) : x \in S
  BY DEF ToSet
<1> DEFINE M == [product : {"whatsapp", None}, phone : Accounts \cup {None},
                 contacts : Seq(Users \cup {None}), from : Users \cup {None},
                 id : Ids \cup {None}]
           T == [product : {"whatsapp", None}, phone : Accounts \cup {None},
                 id : Ids \cup {None}, status : STRING, time : Nat]
           V == [entry : Accounts \cup {None}, sender : Users,
                 recipient : Users \cup Accounts, mid : Ids \cup {None}, echo : BOOLEAN]
           D == [entry : Accounts \cup {None}, recipient : Accounts,
                 mid : Ids \cup {None}, watermark : Nat]
<1>3. \A m \in M : m.contacts \in Seq(Users \cup {None})
  OBVIOUS
<1>4. p \in [object : {"whatsapp_business_account", "page", "instagram"},
             messages : Seq(M), statuses : Seq(T), messaging : Seq(V), deliveries : Seq(D)]
  BY <1>1 DEF Body
<1> HIDE DEF M, T, V, D
<1>5. /\ p.object \in {"whatsapp_business_account", "page", "instagram"}
      /\ p.messages \in Seq(M) /\ p.statuses \in Seq(T)
      /\ p.messaging \in Seq(V) /\ p.deliveries \in Seq(D)
  BY <1>4
<1>6. \A m \in ToSet(p.messages) : m.contacts \in Seq(Users \cup {None})
  BY <1>2, <1>3, <1>5
<1> QED
  BY <1>2, <1>5, <1>6

\* Messages and receipts are told apart by their fields.
LEMMA ItemKinds ==
  /\ \A i : IsMessage(i) => IsInbound(i)
  /\ \A i : IsReceipt(i) => ~IsInbound(i)
BY DEF IsMessage, IsReceipt, IsInbound, Message, Receipt

\* What the loops keep and what they make of it.
Usable(p)        == {m \in ToSet(p.messages) :
                       m.product = "whatsapp" /\ None \notin {m.phone, m.from, m.id}}
FromCustomers(p) == {v \in ToSet(p.messaging) : FromCustomer(v)}
Written(m)          == Message("whatsapp", m.phone, m.from, WaId(m), m.id)
Posted(provider, v) == Message(provider, AccountOfEvent(v), v.sender, v.sender, v.mid)

AllWritten(p)          == {Written(m) : m \in Usable(p)}
AllPosted(provider, p) == {Posted(provider, v) : v \in FromCustomers(p)}

LEMMA MadeOfWhatsApp ==
  ASSUME NEW b \in Batches, NEW p, p = Payloads[b], NEW V,
         AllWritten(p) \subseteq V
  PROVE  /\ WhatsAppMessages(p) \in Seq(V)
         /\ ToSet(WhatsAppMessages(p)) = AllWritten(p)
<1> DEFINE f == [m \in Usable(p) |-> Written(m)]
<1>1. WhatsAppMessages(p) = Made(p.messages, f)
  BY DEF WhatsAppMessages, Usable, Written
<1>2. Usable(p) \subseteq ToSet(p.messages)
  BY DEF Usable
<1>3. p.messages \in Seq(ToSet(p.messages))
  BY PayloadParts
<1>4. \A x \in DOMAIN f : f[x] \in V
  BY DEF AllWritten
<1>5. {f[x] : x \in ToSet(p.messages) \cap DOMAIN f} = AllWritten(p)
  BY <1>2 DEF AllWritten
<1> HIDE DEF f
<1>6. /\ Made(p.messages, f) \in Seq(V)
      /\ ToSet(Made(p.messages, f)) = {f[x] : x \in ToSet(p.messages) \cap DOMAIN f}
  BY <1>3, <1>4, MadeIs
<1> QED
  BY <1>1, <1>5, <1>6

LEMMA MadeOfMessenger ==
  ASSUME NEW b \in Batches, NEW p, p = Payloads[b], NEW provider, NEW V,
         AllPosted(provider, p) \subseteq V
  PROVE  /\ MessengerMessages(provider, p) \in Seq(V)
         /\ ToSet(MessengerMessages(provider, p)) = AllPosted(provider, p)
<1> DEFINE f == [v \in FromCustomers(p) |-> Posted(provider, v)]
<1>1. MessengerMessages(provider, p) = Made(p.messaging, f)
  BY DEF MessengerMessages, FromCustomers, Posted
<1>2. FromCustomers(p) \subseteq ToSet(p.messaging)
  BY DEF FromCustomers
<1>3. p.messaging \in Seq(ToSet(p.messaging))
  BY PayloadParts
<1>4. \A x \in DOMAIN f : f[x] \in V
  BY DEF AllPosted
<1>5. {f[x] : x \in ToSet(p.messaging) \cap DOMAIN f} = AllPosted(provider, p)
  BY <1>2 DEF AllPosted
<1> HIDE DEF f
<1>6. /\ Made(p.messaging, f) \in Seq(V)
      /\ ToSet(Made(p.messaging, f)) = {f[x] : x \in ToSet(p.messaging) \cap DOMAIN f}
  BY <1>3, <1>4, MadeIs
<1> QED
  BY <1>1, <1>5, <1>6

\* The other two loops make receipts only.
LEMMA MadeOfReceipts ==
  ASSUME NEW b \in Batches, NEW p, p = Payloads[b]
  PROVE  \E V : /\ \A i \in V : ~IsInbound(i)
                /\ WhatsAppStatuses(p) \in Seq(V) /\ ToSet(WhatsAppStatuses(p)) \subseteq V
                /\ FacebookStatuses(p) \in Seq(V) /\ ToSet(FacebookStatuses(p)) \subseteq V
<1> DEFINE made(x) == Receipt("whatsapp", x.phone, x.id, <<x.status, x.time>>)
           told(x) == Receipt("facebook", AccountOfEvent(x), x.mid, <<"delivered", x.watermark>>)
           kept == {x \in ToSet(p.statuses) :
                      /\ x.product = "whatsapp" /\ None \notin {x.phone, x.id}
                      /\ x.status \in {"sent", "delivered", "read", "failed"}}
           named == {x \in ToSet(p.deliveries) : x.mid # None}
           f == [x \in kept |-> made(x)]
           g == [x \in named |-> told(x)]
           V == {made(x) : x \in ToSet(p.statuses)} \cup {told(x) : x \in ToSet(p.deliveries)}
<1>1. \A i \in V : ~IsInbound(i)
  BY DEF Receipt, IsInbound
<1>2. p.statuses \in Seq(ToSet(p.statuses)) /\ p.deliveries \in Seq(ToSet(p.deliveries))
  BY PayloadParts
<1>3. (\A x \in DOMAIN f : f[x] \in V) /\ (\A x \in DOMAIN g : g[x] \in V)
  OBVIOUS
<1>4. WhatsAppStatuses(p) = Made(p.statuses, f) /\ FacebookStatuses(p) = Made(p.deliveries, g)
  BY DEF WhatsAppStatuses, FacebookStatuses
<1> HIDE DEF f, g, V
<1>5. WhatsAppStatuses(p) \in Seq(V) /\ ToSet(WhatsAppStatuses(p)) \subseteq V
  BY <1>2, <1>3, <1>4, MadeIs
<1>6. FacebookStatuses(p) \in Seq(V) /\ ToSet(FacebookStatuses(p)) \subseteq V
  BY <1>2, <1>3, <1>4, MadeIs
<1> QED
  BY <1>1, <1>5, <1>6

\* The messages among the items of a batch are those of customers.
LEMMA InboundItems ==
  ASSUME NEW b \in Batches, NEW p, p = Payloads[b]
  PROVE  \E provider :
           {i \in ItemsOf(b) : IsInbound(i)} = AllWritten(p) \cup AllPosted(provider, p)
<1>1. PICK R : /\ \A i \in R : ~IsInbound(i)
               /\ WhatsAppStatuses(p) \in Seq(R) /\ ToSet(WhatsAppStatuses(p)) \subseteq R
               /\ FacebookStatuses(p) \in Seq(R) /\ ToSet(FacebookStatuses(p)) \subseteq R
  BY MadeOfReceipts
<1> DEFINE I == AllWritten(p) \cup AllPosted("facebook", p) \cup AllPosted("instagram", p)
           V == I \cup R
<1>2. \A i \in I : IsInbound(i)
  BY DEF AllWritten, AllPosted, Written, Posted, Message, IsInbound
<1>3. /\ AllWritten(p) \subseteq V /\ AllPosted("facebook", p) \subseteq V
      /\ AllPosted("instagram", p) \subseteq V /\ R \subseteq V
  OBVIOUS
<1>4. /\ WhatsAppMessages(p) \in Seq(V) /\ ToSet(WhatsAppMessages(p)) = AllWritten(p)
  BY <1>3, MadeOfWhatsApp
<1>5. /\ MessengerMessages("facebook", p) \in Seq(V)
      /\ ToSet(MessengerMessages("facebook", p)) = AllPosted("facebook", p)
  BY <1>3, MadeOfMessenger
<1>6. /\ MessengerMessages("instagram", p) \in Seq(V)
      /\ ToSet(MessengerMessages("instagram", p)) = AllPosted("instagram", p)
  BY <1>3, MadeOfMessenger
<1>7. ItemsOf(b) = ToSet(ItemsOfPayload(p))
  BY PayloadsAssumption DEF PayloadItems, ItemsOf, ToSet
<1>8. p.object = "whatsapp_business_account" => FromCustomers(p) = {}
  BY ProviderAssumption DEF FromCustomers, ToSet
<1> HIDE DEF V
<1>9. WhatsAppStatuses(p) \in Seq(V) /\ FacebookStatuses(p) \in Seq(V)
  BY <1>1, <1>3
<1> DEFINE head == WhatsAppMessages(p) \o WhatsAppStatuses(p)
           page == MessengerMessages("facebook", p) \o FacebookStatuses(p)
<1>10. head \in Seq(V) /\ ToSet(head) = AllWritten(p) \cup ToSet(WhatsAppStatuses(p))
  BY <1>4, <1>9, ConcatSet
<1>11. page \in Seq(V) /\ ToSet(page) = AllPosted("facebook", p) \cup ToSet(FacebookStatuses(p))
  BY <1>5, <1>9, ConcatSet
<1>12. CASE p.object = "page"
  <2>1. ItemsOfPayload(p) = head \o page
    BY <1>12 DEF ItemsOfPayload
  <2> HIDE DEF head, page
  <2>2. ToSet(ItemsOfPayload(p)) = ToSet(head) \cup ToSet(page)
    BY <1>10, <1>11, <2>1, ConcatSet
  <2>3. {i \in ItemsOf(b) : IsInbound(i)} = AllWritten(p) \cup AllPosted("facebook", p)
    BY <1>1, <1>2, <1>7, <1>10, <1>11, <2>2
  <2> QED
    BY <2>3
<1>13. CASE p.object = "instagram"
  <2>1. ItemsOfPayload(p) = head \o MessengerMessages("instagram", p)
    BY <1>13 DEF ItemsOfPayload
  <2> HIDE DEF head, page
  <2>2. ToSet(ItemsOfPayload(p)) = ToSet(head) \cup AllPosted("instagram", p)
    BY <1>10, <1>6, <2>1, ConcatSet
  <2>3. {i \in ItemsOf(b) : IsInbound(i)} = AllWritten(p) \cup AllPosted("instagram", p)
    BY <1>1, <1>2, <1>7, <1>10, <2>2
  <2> QED
    BY <2>3
<1>14. CASE p.object = "whatsapp_business_account"
  <2>1. ItemsOfPayload(p) = head \o <<>>
    BY <1>14 DEF ItemsOfPayload
  <2>2. AllPosted("facebook", p) = {}
    BY <1>8, <1>14 DEF AllPosted
  <2> HIDE DEF head, page
  <2>3. <<>> \in Seq(V) /\ ToSet(<<>>) = {}
    BY DEF ToSet
  <2>4. ToSet(ItemsOfPayload(p)) = ToSet(head)
    BY <1>10, <2>1, <2>3, ConcatSet
  <2>5. {i \in ItemsOf(b) : IsInbound(i)} = AllWritten(p) \cup AllPosted("facebook", p)
    BY <1>1, <1>2, <1>7, <1>10, <2>2, <2>4
  <2> QED
    BY <2>5
<1> QED
  BY <1>12, <1>13, <1>14, PayloadParts

\* Who is taken for the writer of a WhatsApp message.
LEMMA WaIdIs ==
  ASSUME NEW m, NEW S, m.contacts \in Seq(S)
  PROVE  WaId(m) \in IF m.from \in Listed(m) THEN {m.from} ELSE Listed(m) \cup {m.from}
<1>1. m.contacts # <<>> => m.contacts[1] \in Listed(m)
  BY DEF Listed, ToSet
<1> QED
  BY <1>1 DEF WaId

\* An event is a customer's message to the recipient, or the account's own.
LEMMA EventIs ==
  ASSUME NEW b \in Batches, NEW v \in ToSet(Payloads[b].messaging)
  PROVE  /\ FromCustomer(v) <=> v.mid # None /\ v.sender \notin Accounts
         /\ FromCustomer(v) => AccountOfEvent(v) = v.recipient
BY ProviderAssumption DEF FromCustomer, AccountOfEvent

\* The messages among the items are what customers wrote, and all of it.
LEMMA ItemsAreWritten ==
  ASSUME NEW b \in Batches
  PROVE  /\ \A i \in ItemsOf(b) : IsInbound(i) => \E w \in WrittenTo(Payloads[b]) : IsOf(i, w)
         /\ \A w \in WrittenTo(Payloads[b]) : \E i \in ItemsOf(b) : IsInbound(i) /\ IsOf(i, w)
<1> DEFINE p == Payloads[b]
<1>1. PICK provider :
        {i \in ItemsOf(b) : IsInbound(i)} = AllWritten(p) \cup AllPosted(provider, p)
  BY InboundItems
<1> DEFINE as(m) == IF m.from \in Listed(m) THEN {m.from} ELSE Listed(m) \cup {m.from}
           text(m) == [conv |-> <<m.phone, m.from>>, id |-> m.id, as |-> as(m)]
           post(v) == [conv |-> <<v.recipient, v.sender>>, id |-> v.mid, as |-> {v.sender}]
<1>2. WrittenTo(p) = {text(m) : m \in Usable(p)} \cup {post(v) : v \in FromCustomers(p)}
  <2>1. FromCustomers(p) =
          {v \in ToSet(p.messaging) : v.mid # None /\ v.sender \notin Accounts}
    BY EventIs DEF FromCustomers
  <2> QED
    BY <2>1 DEF WrittenTo, Usable
<1>3. ASSUME NEW m \in Usable(p) PROVE IsOf(Written(m), text(m))
  <2>1. WaId(m) \in as(m)
    BY PayloadParts, WaIdIs DEF Usable
  <2> QED
    BY <2>1 DEF IsOf, Written, Message
<1>4. ASSUME NEW v \in FromCustomers(p) PROVE IsOf(Posted(provider, v), post(v))
  <2>1. AccountOfEvent(v) = v.recipient
    BY EventIs DEF FromCustomers
  <2> QED
    BY <2>1 DEF IsOf, Posted, Message
<1> HIDE DEF p, text, post
<1>5. ASSUME NEW i \in ItemsOf(b), IsInbound(i)
      PROVE  \E w \in WrittenTo(p) : IsOf(i, w)
  <2>1. i \in AllWritten(p) \cup AllPosted(provider, p)
    BY <1>1, <1>5
  <2> QED
    BY <2>1, <1>2, <1>3, <1>4 DEF AllWritten, AllPosted
<1>6. ASSUME NEW w \in WrittenTo(p)
      PROVE  \E i \in ItemsOf(b) : IsInbound(i) /\ IsOf(i, w)
  <2>1. \E i \in AllWritten(p) \cup AllPosted(provider, p) : IsOf(i, w)
    BY <1>2, <1>3, <1>4, <1>6 DEF AllWritten, AllPosted
  <2> QED
    BY <1>1, <2>1
<1> QED
  BY <1>5, <1>6 DEF p

-----------------------------------------------------------------------------
(* The inbox.                                                              *)

\* What is in the inbox came with some payload.
StoredWasPosted == \A m \in stored : IsInbound(m) /\ \E b \in Batches : m \in ItemsOf(b)

\* Only ingestInbound of a new message adds to the inbox.
LEMMA OnlyIngested == [Next]_vars => stored' = stored \/ IngestNew
BY DEF Next, Begin, HandlerStep, IngestDuplicate, ApplyStatus, Reject, Acknowledge, Crash,
       AccountCreated, SendRecorded, Open, ReplyQueued, SetStatus, Merge, inbox, people, vars

LEMMA StoredStep ==
  ASSUME IInv, StoredWasPosted, [Next]_vars
  PROVE  StoredWasPosted'
<1>1. CASE stored' = stored
  BY <1>1 DEF StoredWasPosted, ItemsOf, IsInbound
<1>2. CASE IngestNew
  <2> DEFINE i == Current
  <2>1. stored' = stored \cup {i} /\ HasItem /\ IsInbound(i)
    BY <1>2 DEF IngestNew
  <2>2. handler.batch \in Batches /\ handler.item \in DOMAIN Items[handler.batch]
    BY <2>1, CurrentType DEF IInv
  <2>3. \E b \in Batches : i \in ItemsOf(b)
    BY <2>2 DEF ItemsOf, Current
  <2> HIDE DEF i
  <2> QED
    BY <2>1, <2>3 DEF StoredWasPosted, ItemsOf, IsInbound
<1> QED
  BY <1>1, <1>2, OnlyIngested

\* The same message of two payloads is of the same customer in the same conversation.
LEMMA InboxIsWritten ==
  ASSUME IInv, StoredWasPosted
  PROVE  PayloadDelivered
<1>1. \A m \in stored : \E b \in Batches : \E w \in WrittenTo(Payloads[b]) : IsOf(m, w)
  BY ItemsAreWritten DEF StoredWasPosted
<1>2. acked \subseteq Batches /\ AckedIsDelivered
  BY DEF IInv, TypeOK, Delivery
<1>3. ASSUME NEW b \in acked, NEW i \in ItemsOf(b) PROVE Delivered(i)
  BY <1>2 DEF AckedIsDelivered, ItemsOf
<1>4. ASSUME NEW b \in acked, NEW w \in WrittenTo(Payloads[b])
      PROVE  \E m \in stored : IsOf(m, w)
  <2>1. b \in Batches
    BY <1>2
  <2>2. PICK i \in ItemsOf(b) : IsInbound(i) /\ IsOf(i, w)
    BY <2>1, ItemsAreWritten
  <2>3. PICK m \in stored : SameMessage(m, i)
    BY <1>3, <2>2 DEF Delivered
  <2>4. PICK d \in Batches : \E x \in WrittenTo(Payloads[d]) : IsOf(m, x)
    BY <1>1
  <2>5. PICK x \in WrittenTo(Payloads[d]) : IsOf(m, x)
    BY <2>4
  <2>6. w.id = x.id /\ w.conv[1] = x.conv[1]
    BY <2>2, <2>3, <2>5 DEF IsOf, SameMessage
  <2>7. w = x
    BY <2>1, <2>6, ProviderAssumption
  <2> QED
    BY <2>5, <2>7
<1> QED
  BY <1>1, <1>3, <1>4 DEF PayloadDelivered

\* docs/architecture.md:5: a 200 means that every message of the payload is in its
\* customer's conversation and every receipt had its effect; no echo and nothing
\* else that no customer wrote is in the inbox.
THEOREM InboxIsFromCustomers == Spec => []PayloadDelivered
<1>1. Init => StoredWasPosted
  BY DEF Init, StoredWasPosted
<1> QED
  BY <1>1, Inductive, StoredStep, InboxIsWritten, PTL DEF Spec
=============================================================================
