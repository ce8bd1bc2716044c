CONSTANTS
  r1 = r1
  r2 = r2
  r3 = r3
  t1 = t1
  t2 = t2
  Runs = {r1, r2}
  Threads = {t1, t2}
  ThreadOf <- TwoThreads
  None = None
SPECIFICATION Spec
INVARIANT CloseAwaitsProcessing
