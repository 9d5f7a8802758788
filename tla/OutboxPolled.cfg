\* One Trendyol conversation whose answers are polled; two processes.
CONSTANTS
  Messages = {1, 2}
  Conversations = {ty}
  ClientIds = {k1, k2}
  Texts = {t1, t2}
  Workers = {w1, w2}
  WindowedConvs = {}
  TemplateConvs = {}
  ReceiptConvs = {}
  PolledConvs = {ty}
  MaxAttempts = 3
  MaxCrashes = 1
  None = None
SPECIFICATION Spec
SYMMETRY Symmetry
CHECK_DEADLOCK FALSE
INVARIANT JobMessageAgree OneSender AcceptedIsRecorded DuplicateOnlyAfterLoss RecordedIsGenuine
          OneOrphanPerCrash GivenUpForCause
