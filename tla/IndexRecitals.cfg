\* One run of the pipeline, and a search that finds a recital.
SPECIFICATION Spec
CONSTANTS
  Run = {p1}
  a1 = a1
  a2 = a2
  r1 = r1
  KeyOf <- ArticlesAndRecital
  Recital = {r1}
  EmbedSize = 2
  UpsertSize = 2
  Attempts = 3
  TopK = 3
  Threshold = 1
  MaxScore = 1
  NoText = NoText
INVARIANTS DocsHaveText
CHECK_DEADLOCK FALSE
