\* A user at the session limit submits an audit before the list of sessions is there.
SPECIFICATION Spec
CONSTANTS
  MaxSessions = 2
  Earlier = {2}
  MaxIds = 2
  MaxAudits = 2
  MaxTokens = 1
  MaxHistory = 1
  Truncation = FALSE
INVARIANTS LoadingMeansAwaiting
CHECK_DEADLOCK FALSE
