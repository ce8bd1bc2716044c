SPECIFICATION MCSpec
CONSTANTS
  None = None
  Tasks = {"t1", "t2", "t3"}
  MaxAttempts = 2
  Payloads <- MCPayloads
  MaxBytes = 10
  Keep = 2
  MaxSources = 2
  Base = 3
  SourceBytes = 2
  u1 = u1
  u2 = u2
  Callers = {c1}
  Users = {u1, u2}
  Orders = {o1}
  Promotions = {p1}
  Variants = {v1, v2, v3}
  Fitting = {v1, v2}
  Cursors = {k1, k2}
  MaxPages = 2
  MaxClock = 2
  Nothing = Nothing
INVARIANTS
  RequestsAreSafe
  AnswersAreHonest
  OnlyMatchIsSelected
PROPERTIES
  EveryLookupReturns
  DisablingEnds
  CallsAreAnswered
