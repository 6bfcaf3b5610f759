CONSTANTS
  a1 = a1
  a2 = a2
  a3 = a3
  r1 = r1
  r2 = r2
  g1 = g1
  g2 = g2
  m1 = m1
  m2 = m2
  Addrs = {a1, a3}
  Roots = {r1, r2}
  Canon <- MCCanon
  NoSig = NoSig
  Agents = {g1}
  Ids = {}
  Codes = {}
  Asks <- TwoWei
  Missions = {m1, m2}
  NoRequest = NoRequest
  NoId = NoId
  None = None
  Revocable <- AlicePSAHandle
  Window = 1
  PSADocs <- SpelledPSAs
  GrantDocs = {}
  Issuer = "ps"
  IssuerKeys <- OneKey
  MaxBoots = 1
  FileAddr <- MCFileAddr
  HalfRange = 32768
  TicksPerSecond = 1
  Hour = 3
  AgentKeys = {"agentKey"}
  Handlers = {h1}
  MaxTime = 0
  MaxLog = 2
  MaxTokens = 0
SPECIFICATION Spec
PROPERTY RevokedNonceStaysOut
CHECK_DEADLOCK FALSE
