\* Two overlapping runs of the pipeline, searched at any time.
SPECIFICATION FairSpec
CONSTANTS
  Run = {p1, p2}
  a1 = a1
  a2 = a2
  r1 = r1
  KeyOf <- ArticlesAndRecital
  Recital = {r1}
  EmbedSize = 2
  UpsertSize = 2
  Attempts = 3
  TopK = 3
  Threshold = 1
  MaxScore = 2
  NoText = NoText
INVARIANTS TypeOK VectorsMatchTexts DoneMeansStored IndexesAccountedFor
PROPERTIES BestOfEachArticle PipelineEnds
CHECK_DEADLOCK FALSE
