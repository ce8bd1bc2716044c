CONSTANTS
  Threads = {t1, t2}
  Visitors = {v1, v2, v3}
  Users = {u1, u2}
  None = None
SPECIFICATION Spec
SYMMETRY Symmetry
INVARIANTS OneCustomerPerUser AdmittedOwns Repairable
PROPERTIES MovesOnlyToItsUser EntitledGetIn
