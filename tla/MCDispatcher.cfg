CONSTANTS
  Tools = {t1, t2}
  Ids = {i1, i2}
  Resolvers = {r1, r2}
  Requests <- StateRequests
  None = None
  MaxCalls = 2
  MaxRevision = 2
  InitialRevisions = {0}
  QueueCap = 1
  MaxNotices = 1
  Rejections = {"denied"}
  SinkMayFail = FALSE
SPECIFICATION Spec
SYMMETRY Symmetry
INVARIANTS PublishedBeforeWake AcceptedOnce
PROPERTIES RevisionsInOrder NoCommitAfterEnd BrowserSeesCallsInOrder
