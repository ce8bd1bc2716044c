SPECIFICATION Spec
CONSTANTS
  d1 = d1
  d2 = d2
  k1 = k1
  k2 = k2
  None = None
  Deliveries = {d1, d2}
  Nonces = {"jti"}
  Jti <- MCJti
  Iat <- MCIat
  Exp <- MCExp
  ClockSkew = 1
  MaxTime = 2
  Invocations = {k1, k2}
  Approvals = {"approval"}
  Carries <- MCCarries
SYMMETRY Symmetric
INVARIANTS
  NonceOnce
  ApprovalOnce
PROPERTY
  KeepsTrail
