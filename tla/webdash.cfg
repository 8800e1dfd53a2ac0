SPECIFICATION WebSpec
CONSTANTS
  t1 = t1
  k1 = k1
  a1 = a1
  a2 = a2
  h1 = h1
  h2 = h2
  i1 = i1
  i2 = i2
  b1 = b1
  None = None
  Tokens = {t1}
  Keys = {k1}
  JA4s = {a1, a2}
  JA4Hs = {h1, h2}
  IPs = {i1, i2}
  ProofJtis = {}
  RiskThreshold = 2
  ChallengeThreshold = 1
  IpWeight = 1
  Ja4hWeight = 2
  Browsers = {b1}
  Uses <- DemoUses
  MaxRows = 2
  MaxLog = 2
  SliderPositions = {1, 3}
  MaxEvents = 3
  MaxOpens = 2
  MaxDisturbances = 1
CHECK_DEADLOCK FALSE
INVARIANTS
  CaughtUpAgrees
  StoryIsTold
  CellsFollowSlider
PROPERTIES
  BrowserCatchesUp
