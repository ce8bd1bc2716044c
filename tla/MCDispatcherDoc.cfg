CONSTANTS
  Tools = {t1}
  Ids = {i1}
  Resolvers = {r1}
  Requests <- StateRequests
  None = None
  MaxCalls = 1
  MaxRevision = 2
  InitialRevisions = {0}
  QueueCap = 3
  MaxNotices = 1
  Rejections = {}
  SinkMayFail = FALSE
SPECIFICATION Spec
PROPERTIES FalseMeansNoMutation
