SPECIFICATION Spec
CONSTANTS
  t1 = t1
  t2 = t2
  k1 = k1
  k2 = k2
  a1 = a1
  a2 = a2
  h1 = h1
  h2 = h2
  i1 = i1
  i2 = i2
  c1 = c1
  c2 = c2
  c3 = c3
  p1 = p1
  p2 = p2
  p3 = p3
  p4 = p4
  None = None
  Tokens = {t1, t2}
  Keys = {k1}
  JA4s = {a1}
  JA4Hs = {h1}
  IPs = {i1}
  ProofJtis = {p1, p2, p3}
  Conns = {c1}
  ConnIP <- OneClientIP
  HelloOf <- OneClientHello
  HeadersOf <- OneClientHeaders
  ProofTemplates <- OneClientProofs
  DpopWindow = 1
  TokenTTL = 1
  ChallengeTTL = 1
  RateMax = 1
  RateWindow = 0
  RiskThreshold = 2
  ChallengeThreshold = 1
  IpWeight = 1
  Ja4hWeight = 2
  AuditMayFail = FALSE
  MaxTime = 2
  MaxNonces = 2
  MaxAttempts = 2
  MaxInFlight = 1
  MaxProxyRestarts = 1
  MaxBackendRestarts = 0
SYMMETRY OneClientSymmetry
INVARIANTS
  NotExecutedTwice
PROPERTIES
  RevocationIsPermanent
  BoundUntilExpiry
  KeepsTokenPromise
