\* Three accounts, two customers, three payloads, one crash; no agent merges.
CONSTANTS
  wa = wa
  page = page
  ig = ig
  u1 = u1
  u2 = u2
  fromWa = fromWa
  fromPage = fromPage
  fromIg = fromIg
  Accounts = {wa, page, ig}
  Users = {u1, u2, page, ig}
  Convs <- MCConvs
  Ids = {"m1", "m2", "m3", "m4", "m5", "m6", "x1", "x2"}
  Outgoing <- MCOutgoing
  Payloads <- MCPayloads
  Items <- PayloadItems
  Events <- MCEvents
  Batches = {fromWa, fromPage, fromIg}
  Agents = {}
  EmailAccounts = {}
  Owner <- MCOwner
  Settable = {}
  MaxCrashes = 1
  None = None
SPECIFICATION FairSpec
INVARIANT PayloadDelivered
PROPERTY BatchAcknowledged
