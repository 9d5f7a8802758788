\* Two visitors, two posts, one reply; an answer holds two of three messages.
CONSTANTS
  Visitors = {v1, v2}
  Posts = {p1, p2}
  Replies = {h1}
  PageSize = 2
  None = None
SPECIFICATION Spec
SYMMETRY MCSymmetry
INVARIANT TypeOK Isolation OneOpenConversation ReadWasShown
CHECK_DEADLOCK FALSE
