\* A mail without Message-ID and a malformed one; a renumbering, a crash; the second failure degrades.
CONSTANTS
  m1 = m1
  m2 = m2
  m3 = m3
  h1 = h1
  odd = odd
  junk = junk
  Mails = {odd, junk}
  Replies = {}
  InReplyTo <- MCInReplyTo
  KeepsReferences = {}
  Anonymous = {odd}
  Malformed = {junk}
  Attached = {odd}
  FirstSyncMax = 1
  MaxUid = 2
  MaxValidity = 2
  DegradedAfter = 2
  MaxCrashes = 1
  None = None
SPECIFICATION FairSpec
INVARIANT CompleteBehindCursor
PROPERTY MailArrives
CHECK_DEADLOCK FALSE
