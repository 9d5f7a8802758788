-------------------------- MODULE TrendyolPoll_proofs --------------------------
(***************************************************************************)
(* For every number of questions, page size, page limit and overlap that   *)
(* is no smaller than the difference of the clocks: what is behind the     *)
(* cursor's window is in the inbox, or slipped in the one way the code     *)
(* allows.                                                                 *)
(***************************************************************************)
EXTENDS TrendyolPoll, FiniteSetTheorems, TLAPS

\* The cursor is not ahead of the marketplace by more than the clocks differ.
CursorBehind == cursor # None => cursor - Skew <= time

\* A question the poll still has to take is on a page it has not read, and not
\* older than the newest it has seen.
Ahead(q) == Offset <= Rank(q) /\ poll.newest <= modified[q]

\* What was in the window when the poll began, and was not modified since.
Untouched(q) == InWindow(q) /\ modified[q] < poll.end - Skew

PollHolds ==
  poll # None =>
    /\ poll.start = StartDate(poll.end)
    /\ poll.end - Skew <= time
    /\ poll.newest <= poll.end \/ poll.newest = poll.start
    /\ \A q \in Questions : Untouched(q) =>
         known[q] = modified[q] \/ <<q, modified[q]>> \in poll.slipped \/ Ahead(q)

IInv == TypeOK /\ CursorBehind /\ PollHolds /\ CursorSafe

\* What is marked is marked with its modification, and marks are pairs.
LEMMA MarksType ==
  ASSUME NEW S \in SUBSET Questions
  PROVE  /\ \A q \in S : <<q, modified[q]>> \in Marks(S)
         /\ modified \in [Questions -> Nat] => Marks(S) \subseteq Questions \X Nat
<1>1. \A q \in S : <<q, modified[q]>> \in Marks(S)
  BY Zenon DEF Marks
<1>2. ASSUME modified \in [Questions -> Nat], NEW s \in Marks(S) PROVE s \in Questions \X Nat
  <2>1. PICK q \in S : s = <<q, modified[q]>>
    BY Zenon DEF Marks
  <2>2. modified[q] \in Nat
    BY <1>2
  <2> QED
    BY <2>1, <2>2
<1> QED
  BY <1>1, <1>2

-----------------------------------------------------------------------------
(* Ranks.                                                                  *)

\* Ranks are numbers, and the rank of a listed question is below their number.
LEMMA RankType ==
  ASSUME NEW q \in Questions
  PROVE  /\ IsFiniteSet(Listed) /\ Cardinality(Listed) \in Nat
         /\ IsFiniteSet(Before(q)) /\ Rank(q) \in Nat
         /\ TypeOK /\ q \in Listed => Rank(q) < Cardinality(Listed)
<1>1. IsFiniteSet(Listed)
  BY FS_Subset, QuestionsAssumption DEF Listed
<1>2. IsFiniteSet(Before(q))
  BY <1>1, FS_Subset DEF Before
<1>3. Cardinality(Listed) \in Nat /\ Rank(q) \in Nat
  BY <1>1, <1>2, FS_CardinalityType DEF Rank
<1>4. ASSUME TypeOK, q \in Listed PROVE Rank(q) < Cardinality(Listed)
  <2>1. Before(q) \subseteq Listed /\ q \notin Before(q)
    BY <1>4 DEF Before, TypeOK
  <2>2. Before(q) # Listed
    BY <2>1, <1>4
  <2> QED
    BY <2>1, <2>2, <1>1, <1>3, FS_Subset DEF Rank
<1> QED
  BY <1>1, <1>2, <1>3, <1>4

\* Pages are in order of modification.
LEMMA RankOrders ==
  ASSUME TypeOK, NEW p \in Questions, NEW q \in Questions, modified[q] < modified[p]
  PROVE  Rank(q) <= Rank(p)
<1>1. Before(q) \subseteq Before(p)
  BY DEF Before, Listed, TypeOK
<1> QED
  BY <1>1, RankType, FS_Subset DEF Rank

\* A question listed before another one has a smaller rank.
LEMMA RankStrict ==
  ASSUME TypeOK, NEW p \in Listed, NEW q \in Questions, modified[p] < modified[q]
  PROVE  Rank(p) < Rank(q)
<1>1. p \in Questions
  BY DEF Listed
<1>2. Before(p) \subseteq Before(q) /\ p \in Before(q) /\ p \notin Before(p)
  BY <1>1 DEF Before, Listed, TypeOK
<1>3. Before(p) # Before(q)
  BY <1>2
<1> QED
  BY <1>1, <1>2, <1>3, RankType, FS_Subset DEF Rank

\* The same of the next state.
LEMMA RankTypeNext == ASSUME NEW q \in Questions PROVE Rank(q)' \in Nat
<1>1. IsFiniteSet(Listed')
  BY FS_Subset, QuestionsAssumption DEF Listed
<1>2. IsFiniteSet(Before(q)')
  BY <1>1, FS_Subset DEF Before
<1> QED
  BY <1>2, FS_CardinalityType DEF Rank

-----------------------------------------------------------------------------
\* Init: nobody has asked, nothing is polled.
LEMMA InitInv == Init => IInv
<1> SUFFICES ASSUME Init PROVE IInv
  OBVIOUS
<1>1. TypeOK
  BY DEF Init, TypeOK
<1> QED
  BY <1>1 DEF Init, IInv, CursorBehind, PollHolds, CursorSafe

\* The clock goes on.
LEMMA TickInv == IInv /\ Tick => IInv'
<1> SUFFICES ASSUME IInv, Tick PROVE IInv'
  OBVIOUS
<1> USE DEF IInv, Tick
<1>1. TypeOK'
  BY DEF TypeOK
<1>2. CursorBehind'
  BY ClockAssumption DEF CursorBehind, TypeOK
<1>3. poll # None => poll.end - Skew <= time'
  BY ClockAssumption DEF PollHolds, TypeOK, Polls
<1>4. PollHolds'
  BY <1>3 DEF PollHolds, Untouched, Ahead, StartDate, InWindow, Offset, Rank, Before, Listed
<1>5. CursorSafe'
  BY DEF CursorSafe
<1> QED
  BY <1>1, <1>2, <1>4, <1>5

\* When q0 is modified every other question keeps its rank or loses one, and
\* the one that loses it across the border of what was read has slipped.
LEMMA ModifyRank ==
  ASSUME TypeOK, poll # None, NEW q0 \in Questions, Modify(q0),
         NEW q \in Questions, q # q0, Ahead(q), InWindow(q)
  PROVE  Ahead(q)' \/ <<q, modified[q]>> \in poll'.slipped
<1>1. poll \in Polls /\ poll' = [poll EXCEPT !.slipped = @ \cup Marks(Slips(q0))]
  BY DEF TypeOK, Modify
<1>2. /\ poll'.newest = poll.newest /\ poll'.start = poll.start /\ poll'.end = poll.end
      /\ Offset' = Offset /\ poll'.slipped = poll.slipped \cup Marks(Slips(q0))
  BY <1>1 DEF Offset, Polls
<1>3. /\ modified' = [modified EXCEPT ![q0] = time] /\ modified[q] < time
      /\ modified'[q] = modified[q] /\ modified'[q0] = time
  BY DEF TypeOK, Modify
<1>4. \A r \in Questions \ {q0} : (r \in Listed' <=> r \in Listed) /\ modified'[r] = modified[r]
  BY <1>2, <1>3 DEF Listed, InWindow, TypeOK
<1>5. Before(q)' = Before(q) \ {q0}
  <2>1. q0 \notin Before(q)'
    BY <1>3 DEF Before, TypeOK
  <2>2. \A r \in Questions \ {q0} : r \in Before(q)' <=> r \in Before(q)
    BY <1>3, <1>4 DEF Before
  <2>3. Before(q)' \subseteq Questions /\ Before(q) \subseteq Questions
    BY DEF Before, Listed
  <2> QED
    BY <2>1, <2>2, <2>3
<1>6. Offset \in Nat
  BY <1>1, PageAssumption DEF Offset, Polls
<1>7. CASE q0 \notin Before(q)
  <2>1. Rank(q)' = Rank(q)
    BY <1>5, <1>7 DEF Rank
  <2> QED
    BY <2>1, <1>2, <1>3 DEF Ahead
<1>8. CASE q0 \in Before(q)
  <2>1. Rank(q)' = Rank(q) - 1
    BY <1>5, <1>8, RankType, FS_RemoveElement DEF Rank
  <2>2. q0 \in Listed /\ Rank(q0) < Rank(q)
    BY <1>8, RankStrict DEF Before
  <2>3. CASE Rank(q) = Offset
    <3>1. q \in Slips(q0)
      <4>1. InWindow(q0) /\ Rank(q0) < Offset
        BY <2>2, <2>3 DEF Listed
      <4>2. ~(Rank(q0) >= Offset)
        BY <4>1, <1>6, RankType
      <4>3. q \in Listed
        BY DEF Listed
      <4> QED
        BY <4>1, <4>2, <4>3, <2>3 DEF Slips
    <3> QED
      BY <3>1, <1>2, MarksType DEF Slips, Listed
  <2>4. CASE Rank(q) # Offset
    BY <2>1, <2>4, <1>2, <1>3, <1>6, RankType DEF Ahead
  <2> QED
    BY <2>3, <2>4
<1> QED
  BY <1>7, <1>8

\* A question is modified: the new modification is after the cursor's window,
\* and the others stay where the poll finds them, or have slipped.
LEMMA ModifyInv ==
  ASSUME IInv, NEW q0 \in Questions, Modify(q0)
  PROVE  IInv'
<1> USE DEF IInv
<1>1. /\ modified' = [modified EXCEPT ![q0] = time] /\ changes' = changes + 1
      /\ UNCHANGED <<time, cursor, known, lost, failures>>
  BY DEF Modify
<1>2. /\ poll = None => poll' = None
      /\ poll # None => poll' = [poll EXCEPT !.slipped = @ \cup Marks(Slips(q0))]
  BY DEF Modify
<1>3. modified \in [Questions -> Nat] /\ time \in Nat /\ modified' \in [Questions -> Nat]
  BY <1>1 DEF TypeOK
<1>4. Marks(Slips(q0)) \subseteq Questions \X Nat
  <2>1. Slips(q0) \in SUBSET Questions
    BY DEF Slips, Listed
  <2> QED
    BY <2>1, <1>3, MarksType
<1>5. ASSUME poll # None
      PROVE  /\ poll' \in Polls /\ poll'.slipped = poll.slipped \cup Marks(Slips(q0))
             /\ poll'.start = poll.start /\ poll'.end = poll.end /\ poll'.page = poll.page
             /\ poll'.newest = poll.newest
  <2>1. poll \in Polls
    BY <1>5 DEF TypeOK
  <2>2. poll' = [poll EXCEPT !.slipped = @ \cup Marks(Slips(q0))]
    BY <1>2, <1>5
  <2>3. poll' \in Polls
    BY <2>1, <2>2, <1>4 DEF Polls
  <2>4. /\ poll'.slipped = poll.slipped \cup Marks(Slips(q0))
        /\ poll'.start = poll.start /\ poll'.end = poll.end /\ poll'.page = poll.page
        /\ poll'.newest = poll.newest
    BY <2>1, <2>2 DEF Polls
  <2> QED
    BY <2>3, <2>4
<1>6. TypeOK'
  <2>1. poll' \in Polls \cup {None}
    BY <1>2, <1>5
  <2>2. poll' # None => poll'.page < MaxPages /\ (cursor' # None => poll'.start >= 0)
    BY <1>1, <1>2, <1>5 DEF TypeOK
  <2> QED
    BY <2>1, <2>2, <1>1, <1>3 DEF TypeOK
<1>7. CursorBehind'
  BY <1>1 DEF CursorBehind
<1>8. PollHolds'
  <2>1. SUFFICES ASSUME poll' # None PROVE PollHolds!2'
    BY DEF PollHolds
  <2>2. poll # None /\ PollHolds!2
    BY <2>1, <1>2 DEF PollHolds
  <2>3. poll \in Polls
    BY <2>2 DEF TypeOK
  <2>4. /\ poll'.start = StartDate(poll.end)'
        /\ poll'.end - Skew <= time'
        /\ poll'.newest <= poll'.end \/ poll'.newest = poll'.start
    BY <2>2, <1>1, <1>5 DEF StartDate
  <2>5. ASSUME NEW q \in Questions, Untouched(q)'
        PROVE  \/ known'[q] = modified'[q]
               \/ <<q, modified'[q]>> \in poll'.slipped
               \/ Ahead(q)'
    <3>1. q # q0
      BY <2>5, <2>2, <2>3, <1>1, <1>3, <1>5, ClockAssumption DEF Untouched, Polls
    <3>2. modified'[q] = modified[q]
      BY <3>1, <1>1, <1>3
    <3>3. Untouched(q) /\ InWindow(q)
      BY <2>5, <2>2, <3>2, <1>5 DEF Untouched, InWindow
    <3>4. known[q] = modified[q] \/ <<q, modified[q]>> \in poll.slipped \/ Ahead(q)
      BY <3>3, <2>2
    <3>5. Ahead(q) => Ahead(q)' \/ <<q, modified[q]>> \in poll'.slipped
      BY <3>1, <3>3, <2>2, ModifyRank
    <3> QED
      BY <3>2, <3>4, <3>5, <2>2, <1>1, <1>5
  <2> QED
    BY <2>4, <2>5
<1>9. CursorSafe'
  <2>1. SUFFICES ASSUME NEW q \in Questions, cursor' # None, modified'[q] # 0,
                        modified'[q] < cursor' - Overlap
                 PROVE  known'[q] = modified'[q] \/ <<q, modified'[q]>> \in lost'
    BY DEF CursorSafe
  <2>2. cursor \in Int /\ cursor - Skew <= time
    BY <2>1, <1>1 DEF CursorBehind, TypeOK
  <2>3. q # q0
    BY <2>1, <2>2, <1>1, <1>3, ClockAssumption, OverlapAssumption
  <2>4. modified'[q] = modified[q]
    BY <2>3, <1>1, <1>3
  <2> QED
    BY <2>1, <2>4, <1>1 DEF CursorSafe
<1> QED
  BY <1>6, <1>7, <1>8, <1>9

\* A poll begins before the first page: everything in its window is ahead.
LEMMA StartPollInv == IInv /\ StartPoll => IInv'
<1> SUFFICES ASSUME IInv, StartPoll PROVE IInv'
  OBVIOUS
<1> USE DEF IInv
<1>1. PICK end \in (time - Skew)..(time + Skew) :
        /\ end \in Nat
        /\ poll' = [start |-> StartDate(end), end |-> end, page |-> 0,
                    newest |-> StartDate(end), slipped |-> {}]
  BY DEF StartPoll
<1>2. UNCHANGED <<time, modified, changes, cursor, known, lost, failures>>
  BY DEF StartPoll, provider
<1>3. StartDate(end) \in Int /\ (cursor # None => StartDate(end) >= 0)
  BY <1>1, ClockAssumption DEF StartDate, TypeOK
<1>4. poll' \in Polls
  BY <1>1, <1>3 DEF Polls
<1>5. /\ poll'.start = StartDate(end) /\ poll'.end = end /\ poll'.page = 0
      /\ poll'.newest = StartDate(end) /\ poll'.slipped = {}
  BY <1>1
<1>6. TypeOK'
  <2>1. poll'.page < MaxPages
    BY <1>5, PageAssumption
  <2> QED
    BY <2>1, <1>2, <1>3, <1>4, <1>5 DEF TypeOK
<1>7. PollHolds'
  <2>1. poll'.start = StartDate(poll.end)'
    BY <1>2, <1>5 DEF StartDate
  <2>2. poll'.end - Skew <= time'
    BY <1>1, <1>2, <1>5, ClockAssumption DEF TypeOK
  <2>3. ASSUME NEW q \in Questions, Untouched(q)' PROVE Ahead(q)'
    <3>1. Offset' = 0
      BY <1>5, PageAssumption DEF Offset
    <3>2. Rank(q)' \in Nat
      BY RankTypeNext
    <3>3. poll'.newest <= modified'[q]
      BY <2>3, <1>5 DEF Untouched, InWindow
    <3> QED
      BY <3>1, <3>2, <3>3 DEF Ahead
  <2> QED
    BY <2>1, <2>2, <2>3, <1>5 DEF PollHolds
<1> QED
  BY <1>2, <1>6, <1>7 DEF CursorBehind, CursorSafe

\* The newest time seen is that of an earlier page or of a question on this one.
LEMMA NewestSeen ==
  ASSUME TypeOK, poll # None, NEW m \in Newest(Page)
  PROVE  /\ m \in Int /\ poll \in Polls
         /\ m = poll.newest \/ \E p \in Page : m = modified[p]
<1>1. poll \in Polls /\ poll.newest \in Int /\ modified \in [Questions -> Nat]
  BY DEF TypeOK, Polls
<1>2. m = poll.newest \/ \E p \in Page : m = modified[p]
  BY DEF Newest
<1>3. \A p \in Page : modified[p] \in Int
  BY <1>1 DEF Page, Listed
<1> QED
  BY <1>1, <1>2, <1>3

\* A question ahead that this page did not bring is behind the page, and not
\* older than anything on it.
LEMMA StillAhead ==
  ASSUME TypeOK, poll # None, NEW q \in Questions, Ahead(q), InWindow(q), q \notin Page,
         NEW m \in Newest(Page)
  PROVE  Offset + PageSize <= Rank(q) /\ m <= modified[q]
<1>1. Offset \in Nat /\ Rank(q) \in Nat
  BY RankType, PageAssumption DEF TypeOK, Offset, Polls
<1>2. Offset + PageSize <= Rank(q)
  BY <1>1, PageAssumption DEF Ahead, Page, Listed
<1>3. ASSUME NEW p \in Page PROVE modified[p] <= modified[q]
  <2>1. p \in Questions /\ Rank(p) < Offset + PageSize /\ Rank(p) \in Nat
    BY RankType DEF Page, Listed
  <2>2. ~(modified[q] < modified[p])
    BY <2>1, <1>1, <1>2, RankOrders, PageAssumption
  <2> QED
    BY <2>1, <2>2 DEF TypeOK
<1> QED
  BY <1>2, <1>3, NewestSeen DEF Ahead

\* A page in the middle: what it did not bring is on the next ones.
LEMMA ReadPageInv == IInv /\ ReadPage => IInv'
<1> SUFFICES ASSUME IInv, ReadPage PROVE IInv'
  OBVIOUS
<1> USE DEF IInv
<1>1. PICK m \in Newest(Page) : poll' = [poll EXCEPT !.page = @ + 1, !.newest = m]
  BY DEF ReadPage
<1>2. /\ poll # None /\ poll.page + 1 < MaxPages /\ known' = Ingested(Page)
      /\ UNCHANGED <<time, modified, changes, cursor, lost, failures>>
  BY DEF ReadPage, provider
<1>3. poll \in Polls /\ m \in Int /\ (m = poll.newest \/ \E p \in Page : m = modified[p])
  BY <1>2, NewestSeen
<1>4. /\ poll' \in Polls /\ poll'.page = poll.page + 1 /\ poll'.newest = m
      /\ poll'.start = poll.start /\ poll'.end = poll.end /\ poll'.slipped = poll.slipped
  <2>1. poll.page + 1 \in Nat
    BY <1>3 DEF Polls
  <2>2. poll' \in Polls
    BY <1>1, <1>3, <2>1 DEF Polls
  <2>3. poll'.page = poll.page + 1 /\ poll'.newest = m
    BY <1>1, <1>3 DEF Polls
  <2>4. poll'.start = poll.start /\ poll'.end = poll.end /\ poll'.slipped = poll.slipped
    BY <1>1, <1>3 DEF Polls
  <2> QED
    BY <2>2, <2>3, <2>4
<1>5. known' \in [Questions -> Nat]
  BY <1>2 DEF Ingested, TypeOK
<1>6. TypeOK'
  BY <1>2, <1>4, <1>5 DEF TypeOK
<1>7. ASSUME NEW q \in Questions
      PROVE  /\ q \in Page => known'[q] = modified[q]
             /\ q \notin Page => known'[q] = known[q]
  BY <1>2 DEF Ingested
<1>8. Listed' = Listed /\ \A q \in Questions : Rank(q)' = Rank(q) /\ InWindow(q)' = InWindow(q)
  <2>1. \A q \in Questions : InWindow(q)' = InWindow(q)
    BY <1>2, <1>4 DEF InWindow
  <2>2. Listed' = Listed
    BY <2>1 DEF Listed
  <2>3. \A q \in Questions : Before(q)' = Before(q)
    BY <2>2, <1>2 DEF Before
  <2> QED
    BY <2>1, <2>2, <2>3 DEF Rank
<1>9. PollHolds'
  <2>1. PollHolds!2
    BY <1>2 DEF PollHolds
  <2>2. poll'.start = StartDate(poll.end)' /\ poll'.end - Skew <= time'
    BY <2>1, <1>2, <1>4 DEF StartDate
  <2>3. poll'.newest <= poll'.end \/ poll'.newest = poll'.start
    BY <2>1, <1>3, <1>4 DEF Page, Listed, InWindow
  <2>4. ASSUME NEW q \in Questions, Untouched(q)'
        PROVE  \/ known'[q] = modified'[q]
               \/ <<q, modified'[q]>> \in poll'.slipped
               \/ Ahead(q)'
    <3>1. Untouched(q) /\ InWindow(q)
      BY <2>4, <1>2, <1>4, <1>8 DEF Untouched
    <3>2. known[q] = modified[q] \/ <<q, modified[q]>> \in poll.slipped \/ Ahead(q)
      BY <3>1, <2>1
    <3>3. ASSUME Ahead(q), q \notin Page PROVE Ahead(q)'
      <4>1. Offset + PageSize <= Rank(q) /\ m <= modified[q]
        BY <3>1, <3>3, <1>2, StillAhead
      <4>2. Offset' = Offset + PageSize
        BY <1>3, <1>4, PageAssumption DEF Offset, Polls
      <4> QED
        BY <4>1, <4>2, <1>2, <1>4, <1>8 DEF Ahead
    <3> QED
      BY <3>2, <3>3, <1>2, <1>4, <1>7
  <2> QED
    BY <2>2, <2>3, <2>4, <1>4 DEF PollHolds
<1>10. CursorSafe'
  BY <1>2, <1>7 DEF CursorSafe
<1> QED
  BY <1>2, <1>6, <1>9, <1>10 DEF CursorBehind

\* A failed poll leaves the cursor: what it ingested is in the inbox as it is.
LEMMA FailPollInv == IInv /\ FailPoll => IInv'
<1> SUFFICES ASSUME IInv, FailPoll PROVE IInv'
  OBVIOUS
<1> USE DEF IInv
<1>1. PICK before \in 1..(time + 1) : known' = Ingested({q \in Page : modified[q] < before})
  BY DEF FailPoll
<1>2. /\ poll' = None /\ failures' = failures + 1
      /\ UNCHANGED <<time, modified, changes, cursor, lost>>
  BY DEF FailPoll, provider
<1>3. known' \in [Questions -> Nat]
  BY <1>1 DEF Ingested, TypeOK
<1>4. \A q \in Questions : known'[q] = modified[q] \/ known'[q] = known[q]
  BY <1>1 DEF Ingested
<1>5. TypeOK'
  BY <1>2, <1>3 DEF TypeOK
<1>6. CursorSafe'
  BY <1>2, <1>4 DEF CursorSafe
<1> QED
  BY <1>2, <1>5, <1>6 DEF CursorBehind, PollHolds

\* The cursor is stored: what it passes was in the window and taken, or slipped
\* behind the reader, or was passed by an earlier cursor.
LEMMA FinishPollInv == IInv /\ FinishPoll => IInv'
<1> SUFFICES ASSUME IInv, FinishPoll PROVE IInv'
  OBVIOUS
<1> USE DEF IInv
<1>1. PICK m \in Newest(Page) : cursor' = NextCursor(m)
  BY DEF FinishPoll
<1>2. /\ poll # None /\ known' = Ingested(Page) /\ lost' = lost \cup Missed(cursor') /\ poll' = None
      /\ UNCHANGED <<time, modified, changes, failures>>
  BY DEF FinishPoll, provider
<1>3. poll \in Polls /\ m \in Int /\ (m = poll.newest \/ \E p \in Page : m = modified[p])
  BY <1>2, NewestSeen
<1>4. /\ poll.start = StartDate(poll.end) /\ poll.end - Skew <= time
      /\ poll.newest <= poll.end \/ poll.newest = poll.start
      /\ poll.start \in Int /\ poll.end \in Nat
  BY <1>2, <1>3 DEF PollHolds, Polls
<1>5. cursor' \in Int /\ cursor' <= poll.end
  <2>1. CASE LastPage
    BY <2>1, <1>1, <1>4 DEF NextCursor
  <2>2. CASE ~LastPage
    <3>1. Listed # {}
      <4>1. Offset \in Nat /\ PageSize \in Nat \ {0}
        BY <1>3, PageAssumption DEF Offset, Polls
      <4>2. Cardinality({}) = 0
        BY FS_EmptySet
      <4> QED
        BY <4>1, <4>2, <2>2 DEF LastPage
    <3>2. poll.start <= poll.end
      BY <3>1, <1>4 DEF Listed, InWindow, TypeOK
    <3>3. m <= poll.end
      BY <3>2, <1>3, <1>4 DEF Page, Listed, InWindow, Polls
    <3> QED
      BY <2>2, <3>3, <1>1, <1>3 DEF NextCursor
  <2> QED
    BY <2>1, <2>2
<1>6. known' \in [Questions -> Nat]
  BY <1>2 DEF Ingested, TypeOK
<1>7. ASSUME NEW q \in Questions
      PROVE  /\ q \in Page => known'[q] = modified[q]
             /\ q \notin Page => known'[q] = known[q]
  BY <1>2 DEF Ingested
<1>8. TypeOK'
  <2>1. BeforeFirst \in SUBSET Questions
    BY DEF BeforeFirst
  <2>2. Marks(BeforeFirst) \subseteq Questions \X Nat
    BY <2>1, MarksType DEF TypeOK
  <2>3. Missed(cursor') \subseteq Questions \X Nat
    BY <2>2, <1>3 DEF Missed, Polls
  <2> QED
    BY <2>3, <1>2, <1>5, <1>6 DEF TypeOK
<1>9. CursorBehind'
  BY <1>2, <1>4, <1>5, ClockAssumption DEF CursorBehind, TypeOK
<1>10. CursorSafe'
  <2>1. SUFFICES ASSUME NEW q \in Questions, cursor' # None, modified'[q] # 0,
                        modified'[q] < cursor' - Overlap
                 PROVE  known'[q] = modified[q] \/ <<q, modified[q]>> \in lost'
    BY <1>2 DEF CursorSafe
  <2>2. /\ modified[q] \in Nat /\ modified[q] # 0 /\ modified[q] < cursor' - Overlap
        /\ Overlap \in Nat /\ Skew \in Nat
    BY <2>1, <1>2, ClockAssumption DEF TypeOK
  <2>3. CASE modified[q] < poll.start
    <3>1. CASE cursor = None
      <4>1. BeforeFirst \in SUBSET Questions /\ q \in BeforeFirst
        BY <3>1, <2>2, <2>3 DEF BeforeFirst
      <4>2. <<q, modified[q]>> \in Marks(BeforeFirst)
        BY <4>1, MarksType
      <4>3. known[q] = modified[q] \/ <<q, modified[q]>> \in Missed(cursor')
        BY <4>2, <2>2 DEF Missed
      <4> QED
        BY <4>3, <1>2, <1>7
    <3>2. CASE cursor # None
      <4>1. cursor \in Int /\ modified[q] < cursor - Overlap
        BY <3>2, <2>2, <2>3, <1>4 DEF StartDate, TypeOK
      <4>2. known[q] = modified[q] \/ <<q, modified[q]>> \in lost
        BY <3>2, <4>1, <2>2 DEF CursorSafe
      <4> QED
        BY <4>2, <1>2, <1>7
    <3> QED
      BY <3>1, <3>2
  <2>4. CASE poll.start <= modified[q]
    <3>1. InWindow(q) /\ Untouched(q)
      BY <2>2, <2>4, <1>4, <1>5, OverlapAssumption DEF InWindow, Untouched
    <3>2. known[q] = modified[q] \/ <<q, modified[q]>> \in poll.slipped \/ Ahead(q)
      BY <3>1, <1>2 DEF PollHolds
    <3>3. CASE <<q, modified[q]>> \in poll.slipped
      <4>1. known[q] = modified[q] \/ <<q, modified[q]>> \in Missed(cursor')
        BY <3>3, <2>2 DEF Missed
      <4> QED
        BY <4>1, <1>2, <1>7
    <3>4. ASSUME Ahead(q), q \notin Page PROVE FALSE
      <4>1. Offset + PageSize <= Rank(q) /\ m <= modified[q]
        BY <3>1, <3>4, <1>2, StillAhead
      <4>2. LastPage
        BY <4>1, <2>2, <1>1, <1>3 DEF NextCursor
      <4>3. Rank(q) < Cardinality(Listed)
        BY <3>1, RankType DEF Listed
      <4>4. Rank(q) \in Nat /\ Cardinality(Listed) \in Nat /\ Offset \in Nat /\ PageSize \in Nat
        BY <1>3, RankType, PageAssumption DEF Offset, Polls
      <4> QED
        BY <4>1, <4>2, <4>3, <4>4 DEF LastPage
    <3> QED
      BY <3>2, <3>3, <3>4, <1>7
  <2> QED
    BY <2>2, <2>3, <2>4, <1>4
<1> QED
  BY <1>2, <1>8, <1>9, <1>10 DEF PollHolds

-----------------------------------------------------------------------------
\* The parts together are an inductive invariant of the polled marketplace.
THEOREM Inductive == Spec => []IInv
<1>1. Init => IInv
  BY InitInv
<1>2. IInv /\ [Next]_vars => IInv'
  <2> SUFFICES ASSUME IInv, [Next]_vars PROVE IInv'
    OBVIOUS
  <2>1. CASE Tick
    BY <2>1, TickInv
  <2>2. ASSUME NEW q \in Questions, Modify(q) PROVE IInv'
    BY <2>2, ModifyInv
  <2>3. CASE StartPoll
    BY <2>3, StartPollInv
  <2>4. CASE ReadPage
    BY <2>4, ReadPageInv
  <2>5. CASE FinishPoll
    BY <2>5, FinishPollInv
  <2>6. CASE FailPoll
    BY <2>6, FailPollInv
  <2>7. CASE UNCHANGED vars
    BY <2>7 DEF vars, IInv, TypeOK, CursorBehind, PollHolds, CursorSafe, Untouched, Ahead,
                StartDate, InWindow, Offset, Rank, Before, Listed
  <2> QED
    BY <2>1, <2>2, <2>3, <2>4, <2>5, <2>6, <2>7 DEF Next
<1> QED
  BY <1>1, <1>2, PTL DEF Spec

\* Every reachable state is of its type: no page past the limit is asked for,
\* and after the first poll none reaches back before time 0.
THEOREM TypeCorrect == Spec => []TypeOK
<1>1. IInv => TypeOK
  BY DEF IInv
<1> QED
  BY <1>1, Inductive, PTL

\* A question behind the cursor's window is in the inbox as it is, or was older
\* than the first window, or slipped between two pages: there is no other way to
\* lose one, for any page size, page limit, overlap and failures.
THEOREM NothingSkipped == Spec => []CursorSafe
<1>1. IInv => CursorSafe
  BY DEF IInv
<1> QED
  BY <1>1, Inductive, PTL
=============================================================================
