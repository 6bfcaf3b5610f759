CONSTANTS
  a1 = a1
  a2 = a2
  a3 = a3
  r1 = r1
  r2 = r2
  g1 = g1
  Addrs = {a1, a2, a3}
  Roots = {r1, r2}
  Canon <- MCCanon
  FileAddr <- MCFileAddr
  Fold <- MCFold
  NoSig = NoSig
  None = None
  Agents = {g1}
  PSADocs <- AllPSAs
  GrantDocs <- AllGrants
  Issuer = "ps"
  Requests = {v1, v2}
  Self = "rs"
  KeyRooted <- RootedThenVanilla
  SharedRegistry = TRUE
  LongestLife = 2
  JWTs <- AllJWTs
  AgentKeys = {"agentKey", "otherKey"}
  KeySets = {"k1", "k2"}
  Handles <- PSAHandle
  MaxTime = 1
  MaxRsBoots = 2
  MaxAccepted = 2
SPECIFICATION FairSpec
INVARIANT TypeOK
PROPERTIES AcceptanceSpec RequestsAnswered
CHECK_DEADLOCK FALSE
