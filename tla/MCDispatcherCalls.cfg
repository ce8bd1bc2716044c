CONSTANTS
  Tools = {t1, t2}
  Ids = {i1, i2}
  Resolvers = {r1, r2}
  Requests <- OneCallsRequests
  None = None
  MaxCalls = 1
  MaxRevision = 1
  InitialRevisions = {0}
  QueueCap = 1
  MaxNotices = 1
  Rejections = {}
  SinkMayFail = TRUE
SPECIFICATION FairSpec
PROPERTIES KeepsPromise EveryReceiptAnswered
