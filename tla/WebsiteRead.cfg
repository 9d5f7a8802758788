\* One visitor, one post, one reply.
CONSTANTS
  Visitors = {v1}
  Posts = {p1}
  Replies = {h1}
  PageSize = 2
  None = None
SPECIFICATION FairSpec
PROPERTY ShownIsRead
CHECK_DEADLOCK FALSE
