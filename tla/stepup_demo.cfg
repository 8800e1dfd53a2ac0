SPECIFICATION DemoSpec
CHECK_DEADLOCK FALSE
CONSTANTS
  t1 = t1
  t2 = t2
  httpx = httpx
  curl = curl
  plain = plain
  altered = altered
  curls = curls
  None = None
  Runs = {"a1", "a2", "b", "c", "e", "f", "replay", "replay_same_key"}
  Keys = {"a1", "a2", "b", "c", "e", "f", "replay", "replay_same_key"}
  SameKey = {"replay_same_key"}
  Casts <- StepUpCasts
  ScriptOf <- DemoScriptOf
  StackOf <- DemoStackOf
  HeadersSent <- DemoHeadersSent
  OwnKey <- DemoOwnKey
  Tokens = {t1, t2}
  JA4s = {httpx, curl}
  JA4Hs = {plain, altered, curls}
  IPs = {"home", "roamed"}
  Conns <- DemoConns
  ConnIP <- DemoConnIP
  HelloOf <- DemoHelloOf
  HeadersOf <- DemoHeadersOf
  ProofJtis <- DemoProofJtis
  ProofTemplates <- DemoTemplates
  DpopWindow = 0
  TokenTTL = 1
  ChallengeTTL = 0
  RateMax = 1
  RateWindow = 0
  RiskThreshold = 2
  ChallengeThreshold = 1
  IpWeight = 1
  Ja4hWeight = 2
  AuditMayFail = FALSE
  MaxTime = 0
  MaxNonces = 5
  MaxAttempts = 3
  MaxInFlight = 6
  MaxProxyRestarts = 0
  MaxBackendRestarts = 0
  MaxRestarts = 0
PROPERTIES
  StepUpIsShown
