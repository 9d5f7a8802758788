\* Three accounts, a timer that fires again during a tick, three failures in a row degrade.
CONSTANTS
  Accounts = {a1, a2, a3}
  Ticks = {t1, t2}
  DegradedAfter = 3
  MaxUpdates = 4
  MaxCrashes = 1
  None = None
SPECIFICATION FairSpec
INVARIANT TypeOK FailuresCounted
PROPERTY OutageStaysLocal
CHECK_DEADLOCK FALSE
