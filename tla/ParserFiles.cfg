\* All documents of up to six lines, chunks of three words of which one is shared.
SPECIFICATION Spec
CONSTANTS
  Target = 3
  Overlap = 1
  LineWords = 2
  MaxLines = 6
INVARIANTS TypeOK FiledWhereItStands NothingLost NeighboursOverlap
CHECK_DEADLOCK FALSE
