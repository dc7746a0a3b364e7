\* Responses of up to two runs on a thread, with retried openings, dead runs and
\* clients that leave.
SPECIFICATION StreamFairSpec
CONSTANTS
  Query = {q1, q2}
  Article = {a1}
  MaxAttempts = 2
  LLMAttempts = 2
  Pieces = 2
  MaxRuns = 2
  StreamAttempts = 2
  NoQuery = NoQuery
INVARIANTS StreamTypeOK ReportsGrounded AnswersFollowTheirQuestion GivesUpAfterAllAttempts DoneMatchesThread
PROPERTIES EveryRunEnds ImplementsProtocol EveryResponseCloses
CHECK_DEADLOCK FALSE
