SPECIFICATION FrontSpec
CONSTANTS
  None = None
  Tokens = {}
  Keys = {}
  JA4s <- DialledJA4s
  JA4Hs = {}
  IPs = {}
  ProofJtis = {}
  GREASE_VALUES = {90, 91}
  CountCap = 2
  KnownVersions = {11, 12, 13}
  SniExtension = 0
  AlpnExtension = 16
  Hellos <- SomeHellos
  VOLATILE_HEADERS = {"authorization", "dpop", "content-length", "content-type", "host"}
  ClientHeaders <- SomeClients
  Occasions <- SomeOccasions
  Dialled <- DialledHellos
  RegistrySize = 2
  RateMax = 2
  RateWindow = 1
  MaxSteps = 7
  MaxSetbacks = 1
CHECK_DEADLOCK FALSE
INVARIANTS
  FrontTypeOK
  WindowRespected
  CountsEveryAttempt
  StacksAreToldApart
  MismatchIsExplained
  ClientsKeepTheirHeaders
