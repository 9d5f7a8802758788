\* Two accounts, three customers, three batches, two of them overlapping, one crash.
CONSTANTS
  wa = wa
  mail = mail
  c1 = c1
  c2 = c2
  u1 = u1
  u2 = u2
  b1 = b1
  b2 = b2
  poll = poll
  agent = agent
  Accounts = {wa, mail}
  Users = {u1, u2}
  Convs = {c1, c2}
  Ids = {"m1", "m2", "m3", "m4"}
  Outgoing = {"x1"}
  Events = {"e1", "e2", "e3", "e4", "e5", "s1"}
  Batches = {b1, b2, poll}
  Items <- MCItems
  Agents = {agent}
  EmailAccounts = {mail}
  Owner <- MCOwner
  Settable = {"CLOSED"}
  MaxCrashes = 1
  None = None
SPECIFICATION Spec
INVARIANT TypeOK UnreadIsUnseen NoneHidden ConversationFollowsCustomer SnapshotUsable
PROPERTY NeverSplit ReopenedByNews ImplementsInbox
