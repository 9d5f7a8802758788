\* A polled and a windowed conversation under fairness, one process, a crash.
CONSTANTS
  Messages = {1, 2}
  Conversations = {ty, wa}
  ClientIds = {k1, k2}
  Texts = {t1}
  Workers = {w1}
  WindowedConvs = {wa}
  TemplateConvs = {}
  ReceiptConvs = {wa}
  PolledConvs = {ty}
  MaxAttempts = 2
  MaxCrashes = 1
  None = None
SPECIFICATION FairSpec
CHECK_DEADLOCK FALSE
PROPERTY EverySendSettles ImplementsContract
