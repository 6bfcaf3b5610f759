CONSTANTS
  a1 = a1
  r1 = r1
  g1 = g1
  Addrs = {a1}
  Roots = {r1}
  Canon <- MCCanon
  FileAddr <- MCFileAddr
  Fold <- MCFold
  NoSig = NoSig
  None = None
  Agents = {g1}
  Ids = {i1}
  Codes = {k1}
  Asks <- OneAsk
  Missions = {"m1"}
  NoRequest = NoRequest
  NoId = NoId
  Revocable <- Handles
  Window = 1
  PSADocs <- PSAs
  GrantDocs <- Grants
  Issuer = "ps"
  IssuerKeys <- TwoKeys
  MaxBoots = 2
  HalfRange = 32768
  TicksPerSecond = 1
  Hour = 2
  AgentKeys = {"agentKey", "otherKey"}
  Handlers = {h1}
  MaxTime = 1
  MaxLog = 4
  MaxTokens = 1
  Requests = {v1, v2}
  Self = "rs"
  KeyRooted <- Rooted
  SharedRegistry = TRUE
  LongestLife = 1
SPECIFICATION ChainSpec
SYMMETRY AnyRequests
INVARIANT ServedOnItsOwnChain
PROPERTIES ExitIsFinal NoFalseRefusal ExitReachesResource RetiredKeysServeNothing
CHECK_DEADLOCK FALSE
