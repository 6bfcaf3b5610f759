CONSTANTS
  a1 = a1
  a2 = a2
  a3 = a3
  r1 = r1
  r2 = r2
  g1 = g1
  Addrs = {a1, a2, a3}
  Roots = {r1, r2}
  Canon <- MCCanon
  FileAddr <- MCFileAddr
  Fold <- MCFold
  NoSig = NoSig
  None = None
  Agents = {g1}
  PSADocs <- OnlyAlicePSA
  GrantDocs <- OnlyAliceGrant
  Issuer = "ps"
  Requests = {v1, v2}
  Self = "rs"
  KeyRooted <- Rooted
  SharedRegistry = TRUE
  LongestLife = 2
  JWTs <- OnlyHonest
  AgentKeys = {"agentKey"}
  KeySets = {"k1", "k2"}
  Handles <- PSAHandle
  MaxTime = 1
  MaxRsBoots = 1
  MaxAccepted = 2
SPECIFICATION Spec
INVARIANT OnlyAcceptedSpend
CHECK_DEADLOCK FALSE
