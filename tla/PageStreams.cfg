\* Audits, sessions, and a user who moves between them at any time.
SPECIFICATION FairSpec
CONSTANTS
  MaxSessions = 2
  Earlier = {1}
  MaxIds = 2
  MaxAudits = 2
  MaxTokens = 1
  MaxHistory = 1
  Truncation = TRUE
INVARIANTS TypeOK TokensOfThisStream AnswersOfThisSession ErrorOfThisStream ListAccountedFor ActiveSessionListed
CHECK_DEADLOCK FALSE
PROPERTIES LoadingEnds
