CONSTANTS
  Addrs = {a1}
  Roots = {root1}
  Canon <- MCCanon
  NoSig = NoSig
  Ids = {i1, i2}
  Codes = {k1, k2}
  Agents = {g1}
  Asks = {ask1}
  Missions = {m1}
  NoRequest = NoRequest
  NoId = NoId
  Window = 1
  Callers = {c1, c2}
  MaxTime = 3
SPECIFICATION FairSpec
INVARIANTS TypeOK ElevatedNeedsSignature
PROPERTIES DecisionSpec VerdictSettlesRequest
CHECK_DEADLOCK FALSE
