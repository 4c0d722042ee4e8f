CONSTANTS
  Messages = {m, n}
  NULL = NULL
  MaxMessages = 2
SPECIFICATION Spec
INVARIANT EndFollowsAWholeMessage
