CONSTANTS
  MaxEvents = 2
  MaxChunks = 2
  QueueCap = 1
  Statuses = {"processing", "typing", "ready", "error"}
  MayRewrite = TRUE
  None = None
SPECIFICATION FairSpec
INVARIANTS FinishedMeansDelivered NoFinishAfterError
PROPERTIES TextAppendOnly EveryRunEnds
