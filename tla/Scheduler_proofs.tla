--------------------------- MODULE Scheduler_proofs ---------------------------
(***************************************************************************)
(* For every set of accounts and of timer firings: the flag keeps ticks    *)
(* apart, and the failure count written after an await is right although   *)
(* it is computed from a row read before.                                  *)
(***************************************************************************)
EXTENDS Scheduler, TLAPS

Underway == {t \in Ticks : loop[t] # None}
\* What the tick has still to write for: the account it awaits and those after it.
Pending(t) == loop[t].todo \cup {loop[t].at}

OneTick == \A t, u \in Underway : t = u

\* The counts a tick has read are those of the rows, and nobody else degrades its accounts.
SnapshotHolds ==
  \A t \in Underway :
    /\ loop[t].at \notin loop[t].todo
    /\ \A a \in Pending(t) : loop[t].seen[a] = count[a] /\ status[a] # "DEGRADED"

IInv == TypeOK /\ OneTick /\ SnapshotHolds /\ FailuresCounted

-----------------------------------------------------------------------------
\* A tick under way has a record.
LEMMA LoopType ==
  ASSUME TypeOK, NEW t \in Underway
  PROVE  loop[t] \in Loops /\ t \in Ticks
  BY DEF TypeOK, Underway

\* Init: nothing is under way, no count has begun.
LEMMA InitInv == Init => IInv
<1> SUFFICES ASSUME Init PROVE IInv
  OBVIOUS
<1>1. Underway = {}
  BY DEF Init, Underway
<1>2. TypeOK
  <2>1. running = \E t \in Ticks : loop[t] # None
    BY DEF Init
  <2>2. 0 \in 0..MaxUpdates /\ 0 \in 0..MaxCrashes
    BY BoundsAssumption
  <2> QED
    BY <2>1, <2>2 DEF Init, TypeOK
<1>3. FailuresCounted
  BY NoneAssumption, BoundsAssumption DEF Init, FailuresCounted, Statuses
<1> QED
  BY <1>1, <1>2, <1>3 DEF IInv, OneTick, SnapshotHolds

\* Where a tick goes on, the accounts given to it are pending with the counts given to it.
LEMMA GoingOn ==
  ASSUME TypeOK, NEW t \in Ticks, Underway \subseteq {t},
         NEW todo \in SUBSET Accounts, NEW seen \in [Accounts -> Nat], GoesOn(t, todo, seen)
  PROVE  /\ loop' \in [Ticks -> Loops \cup {None}]
         /\ running' = \E u \in Ticks : loop'[u] # None
         /\ \A u \in Underway' : /\ u = t
                                 /\ loop'[u].at \notin loop'[u].todo
                                 /\ Pending(u)' = todo
                                 /\ loop'[u].seen = seen
<1>1. \A u \in Ticks \ {t} : loop[u] = None
  BY DEF Underway
<1>2. CASE todo = {}
  <2>1. loop' = [loop EXCEPT ![t] = None] /\ running' = FALSE
    BY <1>2 DEF GoesOn
  <2>2. \A u \in Ticks : loop'[u] = None
    BY <1>1, <2>1 DEF TypeOK
  <2>3. Underway' = {}
    BY <2>2 DEF Underway
  <2>4. loop' \in [Ticks -> Loops \cup {None}]
    BY <2>1 DEF TypeOK
  <2> QED
    BY <2>1, <2>2, <2>3, <2>4
<1>3. CASE todo # {}
  <2>1. PICK a \in todo : loop' = [loop EXCEPT ![t] = [todo |-> todo \ {a}, seen |-> seen, at |-> a]]
    BY <1>3 DEF GoesOn
  <2> DEFINE r == [todo |-> todo \ {a}, seen |-> seen, at |-> a]
  <2>2. r \in Loops /\ r # None
    <3>1. r \in Loops
      BY DEF Loops
    <3> QED
      BY <3>1, NoneAssumption
  <2>3. loop'[t] = r /\ \A u \in Ticks \ {t} : loop'[u] = None
    BY <1>1, <2>1 DEF TypeOK
  <2>4. loop' \in [Ticks -> Loops \cup {None}]
    BY <2>1, <2>2 DEF TypeOK
  <2>5. Underway' = {t}
    BY <2>2, <2>3 DEF Underway
  <2>6. running' = TRUE
    BY <1>3 DEF GoesOn
  <2>7. Pending(t)' = todo /\ loop'[t].at \notin loop'[t].todo /\ loop'[t].seen = seen
    BY <2>3 DEF Pending
  <2> QED
    BY <2>2, <2>3, <2>4, <2>5, <2>6, <2>7
<1> QED
  BY <1>2, <1>3

-----------------------------------------------------------------------------
\* A new tick: the flag says nobody is under way; it reads active accounts and their counts.
LEMMA TickInv == ASSUME IInv, NEW t \in Ticks, Tick(t) PROVE IInv'
<1>1. TypeOK /\ FailuresCounted
  BY DEF IInv
<1>2. Underway \subseteq {t}
  BY <1>1 DEF Tick, Free, TypeOK, Underway
<1>3. Due \in SUBSET Accounts /\ \A a \in Due : status[a] = "ACTIVE"
  BY DEF Due, Active
<1>4. count \in [Accounts -> Nat] /\ GoesOn(t, Due, count)
  BY <1>1 DEF TypeOK, Tick
<1>5. /\ loop' \in [Ticks -> Loops \cup {None}]
      /\ running' = \E u \in Ticks : loop'[u] # None
      /\ \A u \in Underway' : /\ u = t
                              /\ loop'[u].at \notin loop'[u].todo
                              /\ Pending(u)' = Due
                              /\ loop'[u].seen = count
  BY <1>1, <1>2, <1>3, <1>4, GoingOn
<1>6. UNCHANGED <<status, count, backoff, rested, streak, saved, updates, crashes>>
  BY DEF Tick, account
<1>7. TypeOK'
  BY <1>1, <1>5, <1>6 DEF TypeOK
<1>8. OneTick'
  BY <1>5 DEF OneTick
<1>9. SnapshotHolds'
  BY <1>3, <1>5, <1>6 DEF SnapshotHolds
<1>10. FailuresCounted'
  BY <1>1, <1>6 DEF FailuresCounted
<1> QED
  BY <1>7, <1>8, <1>9, <1>10 DEF IInv

\* What both outcomes of a poll have in common.
LEMMA PollContext ==
  ASSUME IInv, NEW t \in Ticks, loop[t] # None
  PROVE  /\ Underway \subseteq {t} /\ t \in Underway
         /\ loop[t].at \in Accounts /\ loop[t].todo \in SUBSET Accounts
         /\ loop[t].seen \in [Accounts -> Nat]
         /\ loop[t].at \notin loop[t].todo
         /\ \A a \in loop[t].todo \cup {loop[t].at} :
              loop[t].seen[a] = count[a] /\ status[a] # "DEGRADED"
<1>1. t \in Underway
  BY DEF Underway
<1>2. loop[t] \in Loops
  BY <1>1, LoopType DEF IInv
<1>3. Underway \subseteq {t}
  BY <1>1 DEF IInv, OneTick
<1>4. /\ loop[t].at \notin loop[t].todo
      /\ \A a \in loop[t].todo \cup {loop[t].at} :
           loop[t].seen[a] = count[a] /\ status[a] # "DEGRADED"
  BY <1>1 DEF IInv, SnapshotHolds, Pending
<1> QED
  BY <1>1, <1>2, <1>3, <1>4 DEF Loops

\* A success resets count and streak; the account was not degraded.
LEMMA SuccessInv == ASSUME IInv, NEW t \in Ticks, PollSucceeds(t) PROVE IInv'
<1> DEFINE a == loop[t].at
<1>1. TypeOK /\ FailuresCounted /\ loop[t] # None
  BY DEF IInv, PollSucceeds
<1>2. /\ Underway \subseteq {t}
      /\ loop[t].at \in Accounts /\ loop[t].todo \in SUBSET Accounts
      /\ loop[t].seen \in [Accounts -> Nat]
      /\ loop[t].at \notin loop[t].todo
      /\ \A b \in loop[t].todo \cup {loop[t].at} :
           loop[t].seen[b] = count[b] /\ status[b] # "DEGRADED"
  BY <1>1, PollContext
<1>3. /\ count'   = [count EXCEPT ![a] = 0]
      /\ streak'  = [streak EXCEPT ![a] = 0] /\ saved' = saved \ {a}
      /\ backoff' = backoff \ {a} /\ rested' = rested \cup {a}
      /\ UNCHANGED <<status, updates, crashes>>
      /\ GoesOn(t, loop[t].todo, loop[t].seen)
  BY DEF PollSucceeds
<1>4. /\ loop' \in [Ticks -> Loops \cup {None}]
      /\ running' = \E u \in Ticks : loop'[u] # None
      /\ \A u \in Underway' : /\ u = t
                              /\ loop'[u].at \notin loop'[u].todo
                              /\ Pending(u)' = loop[t].todo
                              /\ loop'[u].seen = loop[t].seen
  BY <1>1, <1>2, <1>3, GoingOn
<1>5. TypeOK'
  BY <1>1, <1>2, <1>3, <1>4 DEF TypeOK
<1>6. OneTick'
  BY <1>4 DEF OneTick
<1>7. \A b \in loop[t].todo : count'[b] = count[b]
  BY <1>1, <1>2, <1>3 DEF TypeOK
<1>8. SnapshotHolds'
  BY <1>2, <1>3, <1>4, <1>7 DEF SnapshotHolds
<1>9. FailuresCounted'
  BY <1>1, <1>2, <1>3, BoundsAssumption DEF FailuresCounted, TypeOK
<1> QED
  BY <1>5, <1>6, <1>8, <1>9 DEF IInv

\* A failure writes the count it has read, plus one: the streak, plus one.
LEMMA FailureInv == ASSUME IInv, NEW t \in Ticks, PollFails(t) PROVE IInv'
<1> DEFINE a == loop[t].at
           n == loop[t].seen[a] + 1
<1>1. TypeOK /\ FailuresCounted /\ loop[t] # None
  BY DEF IInv, PollFails
<1>2. /\ Underway \subseteq {t}
      /\ loop[t].at \in Accounts /\ loop[t].todo \in SUBSET Accounts
      /\ loop[t].seen \in [Accounts -> Nat]
      /\ loop[t].at \notin loop[t].todo
      /\ \A b \in loop[t].todo \cup {loop[t].at} :
           loop[t].seen[b] = count[b] /\ status[b] # "DEGRADED"
  BY <1>1, PollContext
<1>3. /\ status'  = [status EXCEPT ![a] = IF n >= DegradedAfter THEN "DEGRADED" ELSE @]
      /\ count'   = [count EXCEPT ![a] = n]
      /\ streak'  = [streak EXCEPT ![a] = @ + 1] /\ saved' = saved \ {a}
      /\ backoff' = backoff \cup {a}
      /\ UNCHANGED <<rested, updates, crashes>>
      /\ GoesOn(t, loop[t].todo, loop[t].seen)
  BY DEF PollFails, Degrades
<1>4. /\ loop' \in [Ticks -> Loops \cup {None}]
      /\ running' = \E u \in Ticks : loop'[u] # None
      /\ \A u \in Underway' : /\ u = t
                              /\ loop'[u].at \notin loop'[u].todo
                              /\ Pending(u)' = loop[t].todo
                              /\ loop'[u].seen = loop[t].seen
  BY <1>1, <1>2, <1>3, GoingOn
<1>5. n \in Nat /\ n = streak[a] + 1 /\ n = streak'[a] /\ n = count'[a]
  BY <1>1, <1>2, <1>3 DEF TypeOK, FailuresCounted
<1>6. TypeOK'
  <2>1. status' \in [Accounts -> Statuses \cup {None}]
    BY <1>1, <1>2, <1>3 DEF TypeOK, Statuses
  <2>2. count' \in [Accounts -> Nat] /\ streak' \in [Accounts -> Nat]
    BY <1>1, <1>2, <1>3, <1>5 DEF TypeOK
  <2> QED
    BY <1>1, <1>2, <1>3, <1>4, <2>1, <2>2 DEF TypeOK
<1>7. OneTick'
  BY <1>4 DEF OneTick
<1>8. \A b \in loop[t].todo : count'[b] = count[b] /\ status'[b] = status[b]
  BY <1>1, <1>2, <1>3 DEF TypeOK
<1>9. SnapshotHolds'
  BY <1>2, <1>4, <1>8 DEF SnapshotHolds
<1>10. FailuresCounted'
  <2> SUFFICES ASSUME NEW b \in Accounts
               PROVE  /\ count'[b] = streak'[b]
                      /\ status'[b] = "DEGRADED" => streak'[b] >= DegradedAfter
                      /\ streak'[b] >= DegradedAfter => status'[b] = "DEGRADED" \/ b \in saved'
    BY DEF FailuresCounted
  <2>1. CASE b = a
    BY <1>1, <1>2, <1>3, <1>5, <2>1 DEF TypeOK
  <2>2. CASE b # a
    BY <1>1, <1>2, <1>3, <2>2 DEF TypeOK, FailuresCounted
  <2> QED
    BY <2>1, <2>2
<1> QED
  BY <1>6, <1>7, <1>9, <1>10 DEF IInv

\* Time, administrators and crashes: nobody writes a count, nobody degrades by hand.
LEMMA OtherInv ==
  ASSUME IInv,
         \/ \E a \in Accounts : RetryDue(a) \/ IntervalElapses(a)
         \/ \E a \in Accounts, valid \in BOOLEAN : Configure(a, valid)
         \/ Crash
         \/ UNCHANGED vars
  PROVE  IInv'
<1>1. TypeOK /\ OneTick /\ SnapshotHolds /\ FailuresCounted
  BY DEF IInv
<1>2. CASE \E a \in Accounts : RetryDue(a) \/ IntervalElapses(a)
  <2>1. UNCHANGED <<status, count, running, loop, streak, saved, updates, crashes>>
    BY <1>2 DEF RetryDue, IntervalElapses
  <2>2. TypeOK'
    BY <1>1, <1>2, <2>1 DEF TypeOK, RetryDue, IntervalElapses
  <2> QED
    BY <1>1, <2>1, <2>2 DEF IInv, OneTick, SnapshotHolds, FailuresCounted, Underway, Pending
<1>3. CASE \E a \in Accounts, valid \in BOOLEAN : Configure(a, valid)
  <2>1. PICK a \in Accounts, valid \in BOOLEAN : Configure(a, valid)
    BY <1>3
  <2>2. /\ UNCHANGED <<count, backoff, rested, running, loop, streak, crashes>>
        /\ status' = [status EXCEPT ![a] = IF valid THEN "ACTIVE" ELSE "NOT_CONFIGURED"]
        /\ saved' = saved \cup {a}
        /\ updates < MaxUpdates /\ updates' = updates + 1
    BY <2>1 DEF Configure
  <2>3. TypeOK'
    <3>1. status' \in [Accounts -> Statuses \cup {None}]
      BY <1>1, <2>2 DEF TypeOK, Statuses
    <3>2. updates' \in 0..MaxUpdates
      BY <1>1, <2>2, BoundsAssumption DEF TypeOK
    <3> QED
      BY <1>1, <2>2, <3>1, <3>2 DEF TypeOK
  <2>4. \A b \in Accounts : status'[b] = "DEGRADED" => status[b] = "DEGRADED"
    BY <1>1, <2>2 DEF TypeOK
  <2>5. FailuresCounted'
    BY <1>1, <2>2, <2>4 DEF FailuresCounted, TypeOK
  <2>6. \A t \in Underway : Pending(t) \subseteq Accounts
    BY <1>1, LoopType DEF Pending, Loops
  <2>7. SnapshotHolds'
    BY <1>1, <2>2, <2>4, <2>6 DEF SnapshotHolds, Underway, Pending
  <2> QED
    BY <1>1, <2>2, <2>3, <2>5, <2>7 DEF IInv, OneTick, Underway
<1>4. CASE Crash
  <2>1. /\ UNCHANGED <<status, count, backoff, rested, streak, saved, updates>>
        /\ running' = FALSE /\ loop' = [t \in Ticks |-> None]
        /\ crashes < MaxCrashes /\ crashes' = crashes + 1
    BY <1>4 DEF Crash, account
  <2>2. Underway' = {}
    BY <2>1 DEF Underway
  <2>3. TypeOK'
    <3>1. loop' \in [Ticks -> Loops \cup {None}] /\ running' = \E t \in Ticks : loop'[t] # None
      BY <2>1
    <3>2. crashes' \in 0..MaxCrashes
      BY <1>1, <2>1, BoundsAssumption DEF TypeOK
    <3> QED
      BY <1>1, <2>1, <3>1, <3>2 DEF TypeOK
  <2> QED
    BY <1>1, <2>1, <2>2, <2>3 DEF IInv, OneTick, SnapshotHolds, FailuresCounted
<1>5. CASE UNCHANGED vars
  BY <1>1, <1>5 DEF vars, account, IInv, TypeOK, OneTick, SnapshotHolds, FailuresCounted, Underway, Pending
<1> QED
  BY <1>2, <1>3, <1>4, <1>5

-----------------------------------------------------------------------------
\* The invariant holds in every state of the scheduler.
THEOREM Inductive == Spec => []IInv
<1>1. IInv /\ [Next]_vars => IInv'
  <2> SUFFICES ASSUME IInv, [Next]_vars PROVE IInv'
    OBVIOUS
  <2> QED
    BY TickInv, SuccessInv, FailureInv, OtherInv DEF Next, PollEnds
<1> QED
  BY InitInv, <1>1, PTL DEF Spec

\* The values of all variables stay in their types, and the flag says whether a tick runs.
THEOREM TypeCorrect == Spec => []TypeOK
<1>1. IInv => TypeOK
  BY DEF IInv
<1> QED
  BY Inductive, <1>1, PTL

\* The failure count is the streak of failed polls; a full streak degrades, no sooner, no later.
THEOREM CountIsRight == Spec => []FailuresCounted
<1>1. IInv => FailuresCounted
  BY DEF IInv
<1> QED
  BY Inductive, <1>1, PTL
=============================================================================
