CONSTANTS
  a1 = a1
  a2 = a2
  a3 = a3
  r1 = r1
  r2 = r2
  g1 = g1
  g2 = g2
  m1 = m1
  m2 = m2
  Addrs = {a1}
  Roots = {r1, r2}
  Canon <- MCCanon
  NoSig = NoSig
  Agents = {g1}
  Ids = {i1}
  Codes = {k1}
  Asks <- TwoWei
  Missions = {m1, m2}
  NoRequest = NoRequest
  NoId = NoId
  None = None
  Revocable <- AlicePSAHandle
  Window = 1
  PSADocs <- OnlyAlicePSA
  GrantDocs <- OnlyAliceGrant
  Issuer = "ps"
  IssuerKeys <- OneKey
  MaxBoots = 1
  FileAddr <- MCFileAddr
  HalfRange = 32768
  TicksPerSecond = 1
  Hour = 3
  AgentKeys = {"agentKey"}
  Handlers = {h1, h2}
  MaxTime = 0
  MaxLog = 1
  MaxTokens = 1
SPECIFICATION Spec
SYMMETRY AnyHandlers
PROPERTY RevokedPSAMintsNothing
CHECK_DEADLOCK FALSE
