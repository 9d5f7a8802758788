----------------------------- MODULE TrendyolPoll -----------------------------
(***************************************************************************)
(* The poll of a marketplace account: TrendyolAdapter.syncMessages of      *)
(* server/channels/trendyol/adapter.ts.  It reads the hub's clock, asks    *)
(* for the questions modified between the stored cursor (less an overlap)  *)
(* and that time, oldest modification first, one await per page, and       *)
(* stores a new cursor after the last page.  Customers and agents modify   *)
(* questions while the pages are read: a question that was read moves out  *)
(* of the window, those behind it move up, and one of them slips onto a    *)
(* page that was read already.                                             *)
(*                                                                         *)
(* A modification is named by its time; no two questions are modified in   *)
(* one tick of the marketplace's clock.  What the hub does with a question *)
(* is in modules Conversations (the message) and Outbox (the answer); here *)
(* `known' is the modification it last ingested.                           *)
(***************************************************************************)
EXTENDS Integers, FiniteSets

CONSTANTS
  Questions,           \* numbered in the order in which they are asked
  PageSize, MaxPages,  \* 50 and 20 in the code
  Overlap,             \* CURSOR_OVERLAP_MS
  Window,              \* INITIAL_WINDOW_MS
  Skew,                \* how far the hub's clock may be from the marketplace's
  MaxTime, MaxChanges, MaxFailures,
  None

ASSUME PageAssumption == PageSize \in Nat \ {0} /\ MaxPages \in Nat \ {0}
ASSUME ClockAssumption == {Overlap, Window, Skew, MaxTime, MaxChanges, MaxFailures} \subseteq Nat
\* What the overlap is for: the clocks differ by less than it.
ASSUME OverlapAssumption == Skew <= Overlap
\* No more questions change within the overlap than a poll may read.
ASSUME LimitAssumption == MaxPages * PageSize > Overlap + 1
ASSUME QuestionsAssumption == Questions \subseteq Nat /\ IsFiniteSet(Questions)
ASSUME AbsentAssumption == None \notin Int

VARIABLES
  time,       \* of the marketplace
  modified,   \* lastModifiedDate of a question, 0 before it is asked
  cursor,     \* sync_cursors, None before the first poll ends
  known,      \* the modification the hub has ingested, 0 if none
  poll,       \* syncMessages suspended in listQuestions, or None
  lost,       \* modifications a poll left out and its cursor passed (history)
  changes, failures

provider == <<time, modified, changes>>
vars == <<time, modified, cursor, known, poll, lost, changes, failures>>

Init ==
  /\ time = 1
  /\ modified = [q \in Questions |-> 0]
  /\ known = [q \in Questions |-> 0]
  /\ cursor = None /\ poll = None /\ lost = {}
  /\ changes = 0 /\ failures = 0

-----------------------------------------------------------------------------
(* What the marketplace answers.                                           *)

InWindow(q) == modified[q] # 0 /\ poll.start <= modified[q] /\ modified[q] <= poll.end
Listed      == {q \in Questions : InWindow(q)}
Before(q)   == {r \in Listed : modified[r] < modified[q]}
Rank(q)     == Cardinality(Before(q))
Offset      == poll.page * PageSize
Page        == {q \in Listed : Offset <= Rank(q) /\ Rank(q) < Offset + PageSize}
LastPage    == Cardinality(Listed) <= Offset + PageSize

Marks(S) == {<<q, modified[q]>> : q \in S}

\* The first question of the next page, which moves onto a page that was read
\* when a question before it is modified.
Slips(q) ==
  IF poll = None \/ ~InWindow(q) \/ Rank(q) >= Offset THEN {}
  ELSE {r \in Listed : Rank(r) = Offset}

Tick ==
  /\ time < MaxTime
  /\ time' = time + 1
  /\ UNCHANGED <<modified, cursor, known, poll, lost, changes, failures>>

\* A question is asked, answered, reported or rejected.  The last ticks of an
\* instance bring none, so that every modification gets into some poll's window.
Modify(q) ==
  /\ time <= MaxTime - Skew /\ changes < MaxChanges
  /\ \A r \in Questions : modified[r] < time /\ (r < q => modified[r] # 0)
  /\ modified' = [modified EXCEPT ![q] = time]
  /\ poll' = IF poll = None THEN None
             ELSE [poll EXCEPT !.slipped = @ \cup Marks(Slips(q))]
  /\ changes' = changes + 1
  /\ UNCHANGED <<time, cursor, known, lost, failures>>

-----------------------------------------------------------------------------
(* The poll.                                                               *)

MutStartNegative(end) == IF cursor = None THEN end - Window ELSE cursor - Overlap
StartDate(end) ==
  IF cursor = None THEN end - Window
  ELSE IF cursor < Overlap THEN 0 ELSE cursor - Overlap

\* The hub's clock is anywhere near the marketplace's.
StartPoll ==
  /\ poll = None
  /\ \E end \in (time - Skew)..(time + Skew) :
       /\ end \in Nat
       /\ poll' = [start |-> StartDate(end), end |-> end, page |-> 0,
                   newest |-> StartDate(end), slipped |-> {}]
  /\ UNCHANGED <<provider, cursor, known, lost, failures>>

MutNewestUnmoved(qs) == {poll.newest}
\* newestObserved after the questions of a page: a set of one time.  `modified' stands for
\* the latest of a question's dates, which modifiedAt takes.
Newest(qs) ==
  {m \in {poll.newest} \cup {modified[q] : q \in qs} :
     poll.newest <= m /\ \A q \in qs : modified[q] <= m}

Ingested(qs) == [q \in Questions |-> IF q \in qs THEN modified[q] ELSE known[q]]

\* A page in the middle: its questions are ingested, the next page is asked for.
ReadPage ==
  /\ poll # None /\ ~LastPage /\ poll.page + 1 < MaxPages
  /\ known' = Ingested(Page)
  /\ \E m \in Newest(Page) : poll' = [poll EXCEPT !.page = @ + 1, !.newest = m]
  /\ UNCHANGED <<provider, cursor, lost, failures>>

MutNextCursorEnd(newest) == poll.end
\* endDate, unless the page limit left questions unread.
NextCursor(newest) == IF LastPage THEN poll.end ELSE newest

BeforeFirst == {q \in Questions : cursor = None /\ modified[q] # 0 /\ modified[q] < poll.start}

\* What the poll leaves out and the cursor c puts behind the windows of the polls to come.
Missed(c) ==
  {s \in Marks(BeforeFirst) \cup poll.slipped : s[2] < c - Overlap /\ known[s[1]] # s[2]}

\* The last page, or the last one allowed: ingest it and store the cursor.
FinishPoll ==
  /\ poll # None
  /\ LastPage \/ poll.page + 1 = MaxPages
  /\ known' = Ingested(Page)
  /\ \E m \in Newest(Page) : cursor' = NextCursor(m)
  /\ lost' = lost \cup Missed(cursor')
  /\ poll' = None
  /\ UNCHANGED <<provider, failures>>

\* A request fails, or a question of the page throws after those before it
\* were ingested (a stop of the process does the same): the cursor stays.
FailPoll ==
  /\ poll # None /\ failures < MaxFailures
  /\ \E before \in 1..(time + 1) : known' = Ingested({q \in Page : modified[q] < before})
  /\ failures' = failures + 1
  /\ poll' = None
  /\ UNCHANGED <<provider, cursor, lost>>

Next ==
  \/ Tick
  \/ \E q \in Questions : Modify(q)
  \/ StartPoll
  \/ ReadPage
  \/ FinishPoll
  \/ FailPoll

Spec == Init /\ [][Next]_vars

\* The scheduler polls an active account for ever, a request ends with an
\* answer or its timeout, and time passes.
Fairness == WF_vars(Tick) /\ WF_vars(StartPoll \/ ReadPage \/ FinishPoll \/ FailPoll)

FairSpec == Spec /\ Fairness

-----------------------------------------------------------------------------
(* Properties.                                                             *)

Polls == [start : Int, end : Nat, page : Nat, newest : Int,
          slipped : SUBSET (Questions \X Nat)]

\* Types.  Once there is a cursor a poll never asks for times before 0, and no
\* page past the limit is asked for.
TypeOK ==
  /\ time \in Nat /\ changes \in Nat /\ failures \in Nat
  /\ modified \in [Questions -> Nat] /\ known \in [Questions -> Nat]
  /\ cursor \in Int \cup {None}
  /\ poll \in Polls \cup {None}
  /\ poll # None => poll.page < MaxPages /\ (cursor # None => poll.start >= 0)
  /\ lost \subseteq Questions \X Nat

\* A question no later poll will ask for (its last modification is before the
\* cursor's window) is in the inbox as it is now.  What is not was older than
\* the first poll's window, or slipped behind the reader when a question on an
\* earlier page was modified between two pages of one poll.
CursorSafe ==
  \A q \in Questions :
    cursor # None /\ modified[q] # 0 /\ modified[q] < cursor - Overlap
      => known[q] = modified[q] \/ <<q, modified[q]>> \in lost

\* When customers and agents pause, every question reaches the inbox as it is,
\* or is lost in that way, however the page limit cuts polls and whichever fail: one that
\* slipped but is still within the overlap of the new cursor is not lost, and must arrive.
QuestionsArrive ==
  <>[](\A q \in Questions :
         modified[q] # 0 => known[q] = modified[q] \/ <<q, modified[q]>> \in lost)
=============================================================================
