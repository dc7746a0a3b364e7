\* The answer of a generate node whose LLM fails.
SPECIFICATION StreamSpec
CONSTANTS
  Query = {q1}
  Article = {a1}
  MaxAttempts = 2
  LLMAttempts = 2
  Pieces = 2
  MaxRuns = 2
  StreamAttempts = 2
  NoQuery = NoQuery
INVARIANTS ClientGetsTheAnswer
CHECK_DEADLOCK FALSE
