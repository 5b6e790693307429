SPECIFICATION FairSpec
CONSTANTS
  t = t
  a = a
  b = b
  h = h
  Node = {t, a, b, h}
  NoNode = NoNode
  MaxAttempts = 1
  Processes <- OrchestratorProcesses
INVARIANTS TypeOK SourcesFirst BooksAgree CompletedMeansDone NoOrphans
PROPERTIES LoopEnds
