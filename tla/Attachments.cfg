\* A mail and a reply that bring the same file, one more file each way, a file
\* that is not accepted; one failure, one restore.
CONSTANTS
  Mails = {mail}
  Replies = {reply}
  Contents = {a, b, exe}
  Accepted = {a, b}
  Attached <- MCAttached
  mail = mail
  reply = reply
  a = a
  b = b
  exe = exe
  MaxFiles = 4
  MaxFailures = 1
  MaxRestores = 1
  None = None
SPECIFICATION Spec
INVARIANT RowHasFile ReplyIsWhole FiledOnce
