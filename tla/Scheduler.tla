------------------------------ MODULE Scheduler ------------------------------
(***************************************************************************)
(* The polling of the channel accounts (server/channels/core/scheduler.ts) *)
(* against the administrators who create and change them                   *)
(* (server/channels/router.ts).  Each firing of the timer reads the due    *)
(* accounts once and then awaits their polls one after the other; what it  *)
(* writes after a poll is computed from what it read before.  A poll is    *)
(* modelled by its outcome; module EmailSync has one in detail.            *)
(***************************************************************************)
EXTENDS Naturals, FiniteSets

CONSTANTS
  Accounts,       \* those with a polling interval and an adapter that polls
  Ticks,          \* firings of the timer that may be under way at a time
  DegradedAfter,  \* 5
  MaxUpdates, MaxCrashes,
  None

ASSUME BoundsAssumption == DegradedAfter \in Nat \ {0} /\ MaxUpdates \in Nat /\ MaxCrashes \in Nat

\* A tick under way: accounts still to do, the counts it has read, the account it awaits.
Loops    == [todo : SUBSET Accounts, seen : [Accounts -> Nat], at : Accounts]
Statuses == {"ACTIVE", "DEGRADED", "NOT_CONFIGURED"}

ASSUME NoneAssumption == None \notin Loops \cup Statuses

VARIABLES
  status,    \* channel_accounts.status, None before the account is created
  count,     \* consecutive_failure_count
  backoff,   \* accounts whose next_retry_at has not come
  rested,    \* accounts polled less than their interval ago
  running,   \* this.running
  loop,      \* of a tick: where it is, or None
  streak,    \* polls of an account that failed since the last that succeeded (history)
  saved,     \* accounts whose settings were saved since their last poll ended (history)
  updates, crashes

account == <<status, count, backoff, rested>>
vars    == <<account, running, loop, streak, saved, updates, crashes>>

-----------------------------------------------------------------------------
Active   == {a \in Accounts : status[a] = "ACTIVE"}
Polled   == {loop[t].at : t \in {u \in Ticks : loop[u] # None}}

Init ==
  /\ status = [a \in Accounts |-> None]
  /\ count  = [a \in Accounts |-> 0]
  /\ backoff = {} /\ rested = {}
  /\ running = FALSE
  /\ loop = [t \in Ticks |-> None]
  /\ streak = [a \in Accounts |-> 0] /\ saved = {}
  /\ updates = 0 /\ crashes = 0

-----------------------------------------------------------------------------
(* A tick.                                                                 *)

MutDueFirstOnly ==
  LET S == Active \ (backoff \cup rested) IN IF S = {} THEN {} ELSE {CHOOSE a \in S : TRUE}
Due == Active \ (backoff \cup rested)

\* The loop goes on with the next account, or ends.
GoesOn(t, todo, seen) ==
  IF todo = {} THEN loop' = [loop EXCEPT ![t] = None] /\ running' = FALSE
  ELSE /\ running' = TRUE
       /\ \E a \in todo :
            loop' = [loop EXCEPT ![t] = [todo |-> todo \ {a}, seen |-> seen, at |-> a]]

MutFreeAlways == TRUE
Free == ~running

Tick(t) ==
  /\ Free /\ loop[t] = None
  /\ Due # {}
  /\ GoesOn(t, Due, count)
  /\ UNCHANGED <<account, streak, saved, updates, crashes>>

PollSucceeds(t) ==
  /\ loop[t] # None
  /\ LET a == loop[t].at IN
     /\ count'   = [count EXCEPT ![a] = 0]
     /\ backoff' = backoff \ {a}
     /\ rested'  = rested \cup {a}
     /\ streak'  = [streak EXCEPT ![a] = 0]
     /\ saved'   = saved \ {a}
  /\ GoesOn(t, loop[t].todo, loop[t].seen)
  /\ UNCHANGED <<status, updates, crashes>>

MutDegradesLate(n) == n > DegradedAfter
Degrades(n) == n >= DegradedAfter

PollFails(t) ==
  /\ loop[t] # None
  /\ LET a == loop[t].at n == loop[t].seen[a] + 1 IN
     /\ status'  = [status EXCEPT ![a] = IF Degrades(n) THEN "DEGRADED" ELSE @]
     /\ count'   = [count EXCEPT ![a] = n]
     /\ backoff' = backoff \cup {a}
     /\ streak'  = [streak EXCEPT ![a] = @ + 1]
     /\ saved'   = saved \ {a}
  /\ GoesOn(t, loop[t].todo, loop[t].seen)
  /\ UNCHANGED <<rested, updates, crashes>>

PollEnds(t) == PollSucceeds(t) \/ PollFails(t)

-----------------------------------------------------------------------------
RetryDue(a) ==
  /\ a \in backoff /\ backoff' = backoff \ {a}
  /\ UNCHANGED <<status, count, rested, running, loop, streak, saved, updates, crashes>>

IntervalElapses(a) ==
  /\ a \in rested /\ rested' = rested \ {a}
  /\ UNCHANGED <<status, count, backoff, running, loop, streak, saved, updates, crashes>>

\* An administrator creates an account or saves its settings, at any time; neither the
\* count nor next_retry_at is reset.
Configure(a, valid) ==
  /\ updates < MaxUpdates /\ updates' = updates + 1
  /\ status' = [status EXCEPT ![a] = IF valid THEN "ACTIVE" ELSE "NOT_CONFIGURED"]
  /\ saved' = saved \cup {a}
  /\ UNCHANGED <<count, backoff, rested, running, loop, streak, crashes>>

Crash ==
  /\ crashes < MaxCrashes /\ crashes' = crashes + 1
  /\ running' = FALSE /\ loop' = [t \in Ticks |-> None]
  /\ UNCHANGED <<account, streak, saved, updates>>

-----------------------------------------------------------------------------
Next ==
  \/ \E t \in Ticks : Tick(t) \/ PollEnds(t)
  \/ \E a \in Accounts : RetryDue(a) \/ IntervalElapses(a)
  \/ \E a \in Accounts, valid \in BOOLEAN : Configure(a, valid)
  \/ Crash

Spec == Init /\ [][Next]_vars

\* The timer fires for ever, every poll ends with its provider's answer or a timeout, and
\* time passes.
Fairness ==
  /\ WF_vars(\E t \in Ticks : Tick(t))
  /\ \A t \in Ticks : WF_vars(PollEnds(t))
  /\ \A a \in Accounts : WF_vars(RetryDue(a)) /\ WF_vars(IntervalElapses(a))
FairSpec == Spec /\ Fairness

-----------------------------------------------------------------------------
TypeOK ==
  /\ status \in [Accounts -> Statuses \cup {None}]
  /\ count \in [Accounts -> Nat] /\ streak \in [Accounts -> Nat]
  /\ backoff \subseteq Accounts /\ rested \subseteq Accounts /\ saved \subseteq Accounts
  /\ running = \E t \in Ticks : loop[t] # None
  /\ loop \in [Ticks -> Loops \cup {None}]
  /\ updates \in 0..MaxUpdates /\ crashes \in 0..MaxCrashes

\* The count written from the row read before the awaits is the number of polls that
\* failed in a row.  A full streak degrades an account, no sooner and no later, unless an
\* administrator has saved it since its last poll: timers that fire during a long tick,
\* settings saved during a poll and crashes do not upset it (tick, catch).
FailuresCounted ==
  \A a \in Accounts :
    /\ count[a] = streak[a]
    /\ status[a] = "DEGRADED" => streak[a] >= DegradedAfter
    /\ streak[a] >= DegradedAfter => status[a] = "DEGRADED" \/ a \in saved

\* An active account is polled again and again, whatever happens to the others
\* (docs/architecture.md: an outage of one channel does not stop the other accounts).
OutageStaysLocal ==
  \A a \in Accounts : status[a] = "ACTIVE" ~> (a \in Polled \/ status[a] # "ACTIVE")
=============================================================================
