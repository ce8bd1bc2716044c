CONSTANTS
  MaxEvents = 1
  MaxChunks = 1
  QueueCap = 1
  Statuses = {"processing", "error"}
  MayRewrite = FALSE
  None = None
SPECIFICATION Spec
INVARIANTS FinalizersUninterrupted
