\* A thread of three mails and a reply; first polls of one mail; the second failure in a row degrades.
CONSTANTS
  m1 = m1
  m2 = m2
  m3 = m3
  h1 = h1
  odd = odd
  junk = junk
  Mails = {m1, m2, m3}
  Replies = {h1}
  InReplyTo <- MCInReplyTo
  KeepsReferences = {m2, m3}
  Anonymous = {}
  Malformed = {}
  Attached = {m1}
  FirstSyncMax = 1
  MaxUid = 3
  MaxValidity = 1
  DegradedAfter = 2
  MaxCrashes = 0
  None = None
SPECIFICATION Spec
INVARIANT TypeOK ThreadsTogether AnswerJoinsReply
CHECK_DEADLOCK FALSE
