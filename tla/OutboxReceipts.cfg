\* One WhatsApp conversation: window, templates, receipts; one process.
CONSTANTS
  Messages = {1, 2}
  Conversations = {wa}
  ClientIds = {k1, k2}
  Texts = {hi}
  Workers = {w1}
  WindowedConvs = {wa}
  TemplateConvs = {wa}
  ReceiptConvs = {wa}
  PolledConvs = {}
  MaxAttempts = 2
  MaxCrashes = 1
  None = None
SPECIFICATION Spec
SYMMETRY Symmetry
CHECK_DEADLOCK FALSE
INVARIANT TypeOK OneMessagePerClientId ReceiptsConverge
