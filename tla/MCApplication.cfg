SPECIFICATION MCSpec
CONSTANTS
  r1 = r1
  r2 = r2
  x1 = x1
  x2 = x2
  None = None
  Runtimes = {r1, r2}
  Callers = {x1, x2}
  Hosts = {1, 2}
  Bootstraps = {"own", "again"}
  Own = "own"
  Agent = "agent"
  Objects <- MCObjects
  Edges = {"leave", "enter", "repeat"}
  Source <- MCSource
  Target <- MCTarget
  Nothing = Nothing
  Roots <- MCRoots
  Requests = {q1, q2}
  MaxLives = 2
INVARIANTS
  NothingLeftBehind
  ConfiguredOnce
  ServedMeansConfigured
  WorkHasItsResources
  NothingIsLeft
PROPERTIES
  CallsReturn
  ShutdownEnds
