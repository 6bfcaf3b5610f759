------------------------ MODULE PersonServer_proofs -------------------------
(***************************************************************************)
(* What the person server keeps true however its handlers interleave, for  *)
(* any number of persons, agents, documents, requests and handlers, and    *)
(* across restarts.                                                        *)
(*                                                                         *)
(* A handler holds what it read in an earlier critical section.  So the    *)
(* inductive invariant says of each local state what stays true of the     *)
(* stores while the handler is away (Holds), and every step of another     *)
(* handler changes the stores only in ways that leave it true (Grow).      *)
(***************************************************************************)
EXTENDS PersonServer, SequenceTheorems, TLAPS

\* Documents the server let in.
PSAGood(p) == /\ p.issuer = Issuer /\ IssuerKey \in p.keys
              /\ HashableScope(p.scope)
              /\ VerifyRootSig(p.root, PSADigest(p), p.sig)
GrantGood(g, root, agent) ==
  /\ g.root = root /\ g.agent = agent
  /\ VerifyRootSig(g.root, AgentGrantDigest(g), g.sig)

Tenancy ==
  /\ \A root \in Addrs : psaOf[root] # None => psaOf[root].root = root /\ PSAGood(psaOf[root])
  /\ \A root \in Addrs, agent \in Agents :
       grantOf[root][agent] # None => GrantGood(grantOf[root][agent], root, agent)
  /\ OnePersonPerAgent
  /\ \A agent \in Agents : byAgent[agent] # None => psaOf[byAgent[agent]] # None

\* sig, where there is one, is the owner's over the request known as id.
SigFor(sig, id) ==
  sig # NoSig => /\ sig.over = ApprovalDigest(id, byID[id])
                 /\ sig.by = Canon[byAgent[byID[id].agent]]

RequestsOwned ==
  /\ \A code \in Codes : byCode[code] # NoId => Known(byCode[code])
  /\ \A id \in Ids : Known(id) =>
       /\ byAgent[byID[id].agent] # None
       /\ byID[id].tier = "elevated" /\ byID[id].state = "approved"
            => byID[id].stepUpSig # NoSig
       /\ SigFor(byID[id].stepUpSig, id)

\* A token on its own: the chain, the envelope, the step-up.
ChainGood(t) ==
  /\ t.psa.issuer = Issuer /\ t.key \in t.psa.keys
  /\ VerifyRootSig(t.psa.root, PSADigest(t.psa), t.psa.sig)
  /\ VerifyRootSig(t.grant.root, AgentGrantDigest(t.grant), t.grant.sig)
  /\ t.grant.root = t.psa.root
  /\ t.grant.agent = t.agent
EnvelopeGood(t) ==
  /\ HashableScope(t.psa.scope)
  /\ CheckPaymentEnvelope(t.psa.scope, t.ask.amount, t.stepUp # NoSig)
  /\ t.stepUp # NoSig =>
       /\ VerifyRootSig(t.psa.root, t.stepUp.digest, t.stepUp.sig)
       /\ t.stepUp.digest.id = t.id
       /\ t.stepUp.digest.agent = t.agent
       /\ t.stepUp.digest.ask = t.ask
Consented(t) ==
  /\ Known(t.id)
  /\ byID[t.id].state = "approved"
  /\ byID[t.id].agent = t.agent
  /\ byID[t.id].ask = t.ask

\* Between the two look-ups of a code: it may move to another request, but only
\* to one made since, which the signature, made before, cannot be over.  So
\* where the code leads to the request that was signed for, the tenant that
\* the first look-up found is that request's.
SignedByNoOther(p) ==
  LET id == p.sig.over.id IN
    /\ id \in Ids /\ Known(id)
    /\ byCode[p.code] = id => byAgent[byID[id].agent] = p.tenant

\* What a handler may count on when it comes back to the stores.
Holds(p) ==
  /\ p.pc = "onboard" => PSAGood(p.psa)
  /\ p.pc = "enroll" => GrantGood(p.grant, p.tenant, p.agent) /\ psaOf[p.tenant] # None
  /\ p.pc = "create" => byAgent[p.agent] = p.tenant
  /\ p.pc = "polled" => /\ Known(p.id)
                        /\ p.state = "approved" => byID[p.id].state = "approved"
                        /\ SigFor(p.sig, p.id)
  /\ p.pc = "mint" => /\ Known(p.id)
                      /\ byID[p.id].state = "approved"
                      /\ byID[p.id].agent = p.agent
                      /\ p.tenant # None /\ p.tenant = byAgent[p.agent]
                      /\ psaOf[p.tenant] # None
                      /\ p.grant # None /\ GrantGood(p.grant, p.tenant, p.agent)
                      /\ SigFor(p.sig, p.id)
  /\ p.pc = "issue" => /\ ChainGood(p.token) /\ EnvelopeGood(p.token)
                       /\ Consented(p.token) /\ p.token.key = IssuerKey
  /\ p.pc = "verify" => SignedByNoOther(p)
  /\ p.pc = "setSig" => /\ Known(p.id) /\ p.sig # NoSig
                        /\ SigFor(p.sig, p.id)
  /\ p.pc = "approve" => /\ Known(p.id)
                         /\ byID[p.id].tier = "elevated" => byID[p.id].stepUpSig # NoSig
HandlersHold == \A h \in Handlers : Holds(proc[h])

TokensGood ==
  \A n \in DOMAIN issued :
    /\ ChainGood(issued[n]) /\ EnvelopeGood(issued[n])
    /\ \E boot \in 1..psBoot : issued[n].key = IssuerKeys[boot]
    /\ issued[n].key = IssuerKey => Consented(issued[n])

IInv == TypeOK /\ Tenancy /\ RequestsOwned /\ HandlersHold /\ TokensGood

-----------------------------------------------------------------------------
\* The stores only ever grow while psd runs: tenants and bindings stay, a
\* request keeps all but its state and signature, an approval is final, and a
\* code moves only to a request that was not known.
RequestKept(id) ==
  /\ Known(id)'
  /\ byID'[id].agent = byID[id].agent /\ byID'[id].ask = byID[id].ask
  /\ byID'[id].mission = byID[id].mission /\ byID'[id].tier = byID[id].tier
  /\ byID'[id].expiresAt = byID[id].expiresAt
  /\ byID[id].state = "approved" => byID'[id].state = "approved"
  /\ byID[id].stepUpSig # NoSig => byID'[id].stepUpSig # NoSig
Grow ==
  /\ psBoot' = psBoot
  /\ \A root \in Addrs : psaOf[root] # None => psaOf'[root] # None
  /\ \A agent \in Agents : byAgent[agent] # None => byAgent'[agent] = byAgent[agent]
  /\ \A id \in Ids : Known(id) => RequestKept(id)
  /\ \A code \in Codes : \/ byCode'[code] = byCode[code]
                         \/ byCode'[code] \in Ids /\ ~ Known(byCode'[code])

LEMMA LocalFields ==
  ASSUME NEW p \in LocalStates
  PROVE  /\ p.pc = "onboard" => p.psa \in PSADocs
         /\ p.pc = "enroll" => p.agent \in Agents /\ p.tenant \in Addrs /\ p.grant \in GrantDocs
         /\ p.pc = "logEnroll" => p.agent \in Agents /\ p.tenant \in Addrs
         /\ p.pc = "create" => /\ p.agent \in Agents /\ p.tenant \in Addrs
                               /\ p.ask \in Asks /\ p.mission \in Missions
         /\ p.pc = "logRequest" => p.agent \in Agents /\ p.tenant \in Addrs /\ p.id \in Ids
         /\ p.pc = "polled" => p.id \in Ids /\ p.state \in States /\ p.sig \in Sig
         /\ p.pc = "mint" => /\ p.id \in Ids /\ p.agent \in Agents /\ p.sig \in Sig
                             /\ p.tenant \in Addrs \cup {None}
                             /\ p.grant \in GrantDocs \cup {None}
         /\ p.pc = "issue" => p.tenant \in Addrs /\ p.token \in AuthToken
         /\ p.pc = "click" => p.code \in Codes
         /\ p.pc = "verify" => p.code \in Codes /\ p.sig \in Sig /\ p.tenant \in Addrs
         /\ p.pc = "setSig" => p.id \in Ids /\ p.sig \in Sig
         /\ p.pc = "approve" => p.id \in Ids
  BY DEF LocalStates

LEMMA RequestTyped ==
  ASSUME TypeOK, NEW id \in Ids, Known(id)
  PROVE  /\ byID[id] \in Request
         /\ byID[id].agent \in Agents /\ byID[id].ask \in Asks
         /\ byID[id].state \in States /\ byID[id].stepUpSig \in Sig
         /\ ApprovalDigest(id, byID[id]) \in Digest
  BY DEF TypeOK, StoreTypeOK, Known, Request, ApprovalDigest, Digest

\* The owner's signature on a request stays his while the stores grow.
LEMMA SigKept ==
  ASSUME TypeOK, RequestsOwned, Grow, NEW id \in Ids, Known(id), NEW sig, SigFor(sig, id)
  PROVE  /\ byID'[id].agent = byID[id].agent
         /\ byAgent'[byID[id].agent] = byAgent[byID[id].agent]
         /\ ApprovalDigest(id, byID[id])' = ApprovalDigest(id, byID[id])
         /\ sig # NoSig => /\ sig.over = ApprovalDigest(id, byID[id])'
                           /\ sig.by = Canon[byAgent'[byID'[id].agent]]
<1>1. RequestKept(id)
  BY DEF Grow
<1>2. byID[id].agent \in Agents
  BY RequestTyped
<1>3. byAgent'[byID[id].agent] = byAgent[byID[id].agent]
  BY <1>2 DEF Grow, RequestsOwned
<1> QED
  BY <1>1, <1>3 DEF RequestKept, ApprovalDigest, SigFor

\* What a handler counts on survives every step but its own.
LEMMA HoldsKept ==
  ASSUME IInv, Grow, NEW h \in Handlers, proc'[h] = proc[h]
  PROVE  Holds(proc[h])'
<1> DEFINE p == proc[h]
<1>0. p \in LocalStates /\ Holds(p) /\ TypeOK /\ RequestsOwned /\ Tenancy
  BY DEF IInv, TypeOK, HandlersHold
<1> IssuerKey' = IssuerKey
  BY DEF Grow, IssuerKey
<1>1. p.pc = "onboard" => PSAGood(p.psa)'
  BY <1>0 DEF Holds, PSAGood
<1>2. p.pc = "enroll" => (GrantGood(p.grant, p.tenant, p.agent) /\ psaOf[p.tenant] # None)'
  BY <1>0, LocalFields DEF Holds, GrantGood, Grow
<1>3. p.pc = "create" => (byAgent[p.agent] = p.tenant)'
  BY <1>0, LocalFields, DocumentsAssumption DEF Holds, Grow
<1>4. ASSUME p.pc \in {"polled", "mint", "setSig", "approve"}
      PROVE  /\ p.id \in Ids /\ Known(p.id) /\ RequestKept(p.id)
             /\ p.pc # "approve" => SigFor(p.sig, p.id)'
  <2>1. p.id \in Ids /\ Known(p.id)
    BY <1>0, <1>4, LocalFields DEF Holds
  <2>2. p.pc # "approve" => SigFor(p.sig, p.id)
    BY <1>0, <1>4 DEF Holds
  <2>3. ASSUME SigFor(p.sig, p.id) PROVE SigFor(p.sig, p.id)'
    BY <2>1, <2>3, <1>0, SigKept DEF SigFor
  <2> QED
    BY <2>1, <2>2, <2>3 DEF Grow
<1>5. p.pc = "polled" => /\ Known(p.id)'
                         /\ p.state = "approved" => byID'[p.id].state = "approved"
                         /\ SigFor(p.sig, p.id)'
  BY <1>0, <1>4 DEF Holds, RequestKept
<1>6. p.pc = "mint" => (/\ Known(p.id)
                        /\ byID[p.id].state = "approved"
                        /\ byID[p.id].agent = p.agent
                        /\ p.tenant # None /\ p.tenant = byAgent[p.agent]
                        /\ psaOf[p.tenant] # None
                        /\ p.grant # None /\ GrantGood(p.grant, p.tenant, p.agent)
                        /\ SigFor(p.sig, p.id))'
  BY <1>0, <1>4, LocalFields DEF Holds, RequestKept, Grow, GrantGood
<1>7. p.pc = "issue" => (/\ ChainGood(p.token) /\ EnvelopeGood(p.token)
                         /\ Consented(p.token) /\ p.token.key = IssuerKey)'
  <2>1. p.pc = "issue" => p.token.id \in Ids
    BY <1>0, LocalFields DEF AuthToken
  <2> QED
    BY <2>1, <1>0 DEF Holds, Consented, RequestKept, Grow, ChainGood, EnvelopeGood
<1>8. p.pc = "verify" => SignedByNoOther(p)'
  <2> SUFFICES ASSUME p.pc = "verify" PROVE SignedByNoOther(p)'
    OBVIOUS
  <2>1. PICK id : id = p.sig.over.id
    OBVIOUS
  <2>2. /\ p.code \in Codes /\ p.tenant \in Addrs /\ id \in Ids /\ Known(id)
        /\ byCode[p.code] = id => byAgent[byID[id].agent] = p.tenant
    BY <1>0, <2>1, LocalFields DEF Holds, SignedByNoOther
  <2>3. RequestKept(id) /\ byID[id].agent \in Agents
    BY <1>0, <2>2, RequestTyped DEF Grow
  <2>4. byCode'[p.code] = id => byCode[p.code] = id
    BY <2>2 DEF Grow
  <2>5. byAgent[byID[id].agent] = p.tenant => byAgent'[byID[id].agent] = p.tenant
    BY <2>2, <2>3, DocumentsAssumption DEF Grow
  <2> QED
    BY <2>1, <2>2, <2>3, <2>4, <2>5 DEF SignedByNoOther, RequestKept
<1>9. p.pc = "setSig" => /\ Known(p.id)' /\ p.sig # NoSig
                         /\ SigFor(p.sig, p.id)'
  BY <1>0, <1>4 DEF Holds, RequestKept
<1>10. p.pc = "approve" =>
         /\ Known(p.id)'
         /\ byID'[p.id].tier = "elevated" => byID'[p.id].stepUpSig # NoSig
  BY <1>0, <1>4 DEF Holds, RequestKept
<1> QED
  BY <1>1, <1>2, <1>3, <1>5, <1>6, <1>7, <1>8, <1>9, <1>10 DEF Holds

-----------------------------------------------------------------------------
\* Putting a step together from what it does to each part.

LEMMA FreeTyped == Free \in LocalStates /\ Holds(Free)
  BY DEF Free, LocalStates, Holds

LEMMA InitGood == Init => IInv
<1> SUFFICES ASSUME Init PROVE IInv
  OBVIOUS
<1> USE DEF Init
<1>1. \A id \in Ids : ~ Known(id)
  BY DEF StoreInit, Known
<1>2. TypeOK
  <2>1. StoreTypeOK
    BY DEF StoreInit, StoreTypeOK
  <2>2. TenantsTypeOK
    BY DEF TenantsInit, TenantsTypeOK
  <2>3. log \in [Addrs -> [Agents -> Seq(Entries)]]
    BY DEF NoLog
  <2>4. proc \in [Handlers -> LocalStates]
    BY FreeTyped
  <2>5. psBoot \in 1..MaxBoots /\ issued \in Seq(AuthToken)
    BY ServerAssumption
  <2> QED
    BY <2>1, <2>2, <2>3, <2>4, <2>5 DEF TypeOK
<1>3. Tenancy
  BY DocumentsAssumption DEF TenantsInit, Tenancy, OnePersonPerAgent
<1>4. RequestsOwned
  BY <1>1 DEF RequestsOwned, StoreInit
<1>5. HandlersHold
  BY FreeTyped DEF HandlersHold
<1>6. TokensGood
  BY DEF TokensGood
<1> QED
  BY <1>2, <1>3, <1>4, <1>5, <1>6 DEF IInv

\* A handler's move to another local state is well typed.
LEMMA GotoTyped ==
  ASSUME TypeOK, NEW h \in Handlers, NEW next \in LocalStates, Goto(h, next)
  PROVE  /\ proc' \in [Handlers -> LocalStates]
         /\ proc'[h] = next
         /\ \A other \in Handlers : other # h => proc'[other] = proc[other]
  BY DEF TypeOK, Goto

\* Tokens handed out stay good while the stores grow.
LEMMA TokensKept ==
  ASSUME IInv, Grow, UNCHANGED issued
  PROVE  TokensGood'
<1> SUFFICES ASSUME NEW n \in DOMAIN issued
             PROVE  (/\ ChainGood(issued[n]) /\ EnvelopeGood(issued[n])
                     /\ \E boot \in 1..psBoot : issued[n].key = IssuerKeys[boot]
                     /\ issued[n].key = IssuerKey => Consented(issued[n]))'
  BY DEF TokensGood
<1>1. ChainGood(issued[n]) /\ EnvelopeGood(issued[n])
  BY DEF IInv, TokensGood
<1>2. (ChainGood(issued[n]) /\ EnvelopeGood(issued[n]))'
  BY <1>1 DEF ChainGood, EnvelopeGood
<1>3. issued[n].id \in Ids
  <2>1. issued[n] \in AuthToken
    BY DEF IInv, TypeOK
  <2> QED
    BY <2>1 DEF AuthToken
<1>4. IssuerKey' = IssuerKey /\ psBoot' = psBoot
  BY DEF Grow, IssuerKey
<1>5. issued[n].key = IssuerKey => Consented(issued[n])
  BY DEF IInv, TokensGood
<1>6. (issued[n].key = IssuerKey => Consented(issued[n]))'
  BY <1>3, <1>4, <1>5 DEF Consented, Grow, RequestKept
<1>7. (\E boot \in 1..psBoot : issued[n].key = IssuerKeys[boot])'
  BY <1>4 DEF IInv, TokensGood
<1> QED
  BY <1>2, <1>6, <1>7

\* A step that issues nothing keeps the invariant if the stores only grow,
\* the tenants and the requests come out right, and the handler that moves
\* may count on what it now holds.
LEMMA Assemble ==
  ASSUME IInv, TypeOK', Grow, Tenancy', RequestsOwned', UNCHANGED issued,
         \A h \in Handlers : proc'[h] # proc[h] => Holds(proc[h])'
  PROVE  IInv'
<1>1. HandlersHold'
  <2> SUFFICES ASSUME NEW h \in Handlers PROVE Holds(proc[h])'
    BY DEF HandlersHold
  <2> QED
    BY HoldsKept
<1> QED
  BY <1>1, TokensKept DEF IInv

LEMMA StandStill ==
  ASSUME IInv, UNCHANGED <<byID, byCode, tenantVars, psBoot>>
  PROVE  Grow /\ Tenancy' /\ RequestsOwned'
<1> USE DEF tenantVars
<1>1. Grow
  BY DEF Grow, RequestKept, Known
<1>2. Tenancy'
  <2>1. IssuerKey' = IssuerKey
    BY DEF IssuerKey
  <2> QED
    BY <2>1 DEF IInv, Tenancy, PSAGood, GrantGood, OnePersonPerAgent
<1>3. RequestsOwned'
  BY DEF IInv, RequestsOwned, Known, SigFor, ApprovalDigest
<1> QED
  BY <1>1, <1>2, <1>3

\* A step that only moves one handler.
LEMMA LocalStep ==
  ASSUME IInv, NEW h \in Handlers, NEW next \in LocalStates, Goto(h, next),
         Holds(next), UNCHANGED <<stores, psBoot>>
  PROVE  IInv'
<1> USE DEF stores, storeVars, tenantVars
<1>1. TypeOK
  BY DEF IInv
<1>2. TypeOK'
  BY <1>1, GotoTyped DEF TypeOK, StoreTypeOK, TenantsTypeOK
<1>3. Grow /\ Tenancy' /\ RequestsOwned'
  BY StandStill
<1>4. Holds(proc[h])'
  <2>1. proc'[h] = next
    BY <1>1, GotoTyped
  <2>2. IssuerKey' = IssuerKey
    BY DEF IssuerKey
  <2> QED
    BY <2>1, <2>2 DEF Holds, SignedByNoOther, PSAGood, GrantGood, Known, SigFor, ApprovalDigest,
                      ChainGood, EnvelopeGood, Consented
<1> QED
  BY <1>1, <1>2, <1>3, <1>4, GotoTyped, Assemble

-----------------------------------------------------------------------------
\* The steps that move one handler and leave the stores alone.

LEMMA OnboardStep ==
  ASSUME IInv, NEW h \in Handlers, NEW p \in PSADocs, Onboard(h, p), UNCHANGED psBoot
  PROVE  IInv'
<1> DEFINE next == [pc |-> "onboard", psa |-> p]
<1>1. next \in LocalStates
  BY DEF LocalStates
<1>2. Holds(next)
  BY DEF Onboard, VerifyPSA, Holds, PSAGood
<1>3. Goto(h, next) /\ UNCHANGED <<stores, psBoot>>
  BY DEF Onboard, stores
<1> HIDE DEF next
<1> QED
  BY <1>1, <1>2, <1>3, LocalStep

LEMMA EnrollStep ==
  ASSUME IInv, NEW h \in Handlers, NEW agent \in Agents, NEW key, NEW g \in GrantDocs,
         Enroll(h, agent, key, g), UNCHANGED psBoot
  PROVE  IInv'
<1> DEFINE next == [pc |-> "enroll", agent |-> agent, tenant |-> g.root, grant |-> g]
<1>1. next \in LocalStates
  BY DocumentsAssumption DEF LocalStates
<1>2. Holds(next)
  BY DEF Enroll, VerifyAgentGrant, Holds, GrantGood
<1>3. Goto(h, next) /\ UNCHANGED <<stores, psBoot>>
  BY DEF Enroll, stores
<1> HIDE DEF next
<1> QED
  BY <1>1, <1>2, <1>3, LocalStep

LEMMA TokenStep ==
  ASSUME IInv, NEW h \in Handlers, NEW agent \in Agents, NEW key, NEW ask \in Asks,
         Token(h, agent, key, ask), UNCHANGED psBoot
  PROVE  IInv'
<1> DEFINE root == byAgent[agent]
           next == [pc |-> "create", agent |-> agent, tenant |-> root, ask |-> ask,
                    mission |-> grantOf[root][agent].mission]
<1>1. root \in Addrs
  BY DEF IInv, TypeOK, TenantsTypeOK, Token
<1>2. next \in LocalStates
  BY <1>1 DEF LocalStates, Token
<1>3. Holds(next)
  BY DEF Holds
<1>4. Goto(h, next) /\ UNCHANGED <<stores, psBoot>>
  BY DEF Token, stores
<1> HIDE DEF next
<1> QED
  BY <1>2, <1>3, <1>4, LocalStep

LEMMA ReadStateStep ==
  ASSUME IInv, NEW h \in Handlers, ReadState(h), UNCHANGED psBoot
  PROVE  IInv'
<1> DEFINE p == proc[h]
           agent == byID[p.id].agent
           root == byAgent[agent]
           next == [pc |-> "mint", id |-> p.id, agent |-> agent, tenant |-> root,
                    grant |-> grantOf[root][agent], sig |-> p.sig]
<1>0. TypeOK /\ Tenancy /\ RequestsOwned
  BY DEF IInv
<1>1. p \in LocalStates /\ Holds(p) /\ p.pc = "polled"
  BY DEF IInv, TypeOK, HandlersHold, ReadState, At
<1>2. /\ p.id \in Ids /\ p.sig \in Sig /\ p.state \in States /\ Known(p.id)
      /\ p.state = "approved" => byID[p.id].state = "approved"
      /\ SigFor(p.sig, p.id)
  BY <1>1, LocalFields DEF Holds
<1>3. UNCHANGED <<stores, psBoot>>
  BY DEF ReadState, stores
<1>4. CASE Goto(h, Free)
  BY <1>3, <1>4, FreeTyped, LocalStep
<1>5. CASE Goto(h, next) /\ "approved" \in RacyState(p.state, byID[p.id].state)
  <2>1. byID[p.id].state = "approved"
    BY <1>2, <1>5 DEF RacyState
  <2>2. agent \in Agents
    BY <1>0, <1>2, RequestTyped
  <2>3. root # None
    BY <1>0, <1>2 DEF RequestsOwned
  <2>4. root \in Addrs
    BY <1>0, <2>2, <2>3 DEF TypeOK, TenantsTypeOK
  <2>5. psaOf[root] # None
    BY <1>0, <2>2, <2>3 DEF Tenancy
  <2>6. grantOf[root][agent] # None
    BY <1>0, <2>2, <2>4 DEF Tenancy, OnePersonPerAgent
  <2>7. GrantGood(grantOf[root][agent], root, agent)
    BY <1>0, <2>2, <2>4, <2>6 DEF Tenancy
  <2>8. grantOf[root][agent] \in GrantDocs
    BY <1>0, <2>2, <2>4, <2>6 DEF TypeOK, TenantsTypeOK
  <2>9. next \in LocalStates
    BY <1>2, <2>2, <2>4, <2>8 DEF LocalStates
  <2>10. Holds(next)
    BY <1>2, <2>1, <2>3, <2>5, <2>6, <2>7 DEF Holds
  <2> HIDE DEF next
  <2> QED
    BY <1>3, <1>5, <2>9, <2>10, LocalStep
<1> QED
  BY <1>4, <1>5 DEF ReadState

\* What finish puts into a token: the PSA of this moment, the grant the poll
\* saw, and either the signature it saw or the one stored now.
LEMMA MintStep ==
  ASSUME IInv, NEW h \in Handlers, Mint(h), UNCHANGED psBoot
  PROVE  IInv'
<1> DEFINE p == proc[h]
           psa == psaOf[p.tenant]
<1>0. TypeOK /\ Tenancy /\ RequestsOwned
  BY DEF IInv
<1>1. p \in LocalStates /\ Holds(p) /\ p.pc = "mint"
  BY DEF IInv, TypeOK, HandlersHold, Mint, At
<1>2. /\ p.id \in Ids /\ p.agent \in Agents /\ p.sig \in Sig
      /\ p.tenant \in Addrs /\ p.grant \in GrantDocs
  BY <1>1, LocalFields DEF Holds
<1>3. /\ Known(p.id) /\ byID[p.id].state = "approved" /\ byID[p.id].agent = p.agent
      /\ p.tenant = byAgent[p.agent] /\ psa # None
      /\ GrantGood(p.grant, p.tenant, p.agent)
  BY <1>1 DEF Holds
<1>4. psa.root = p.tenant /\ PSAGood(psa) /\ psa \in PSADocs
  BY <1>0, <1>2, <1>3 DEF Tenancy, TypeOK, TenantsTypeOK
<1>5. UNCHANGED <<stores, psBoot>>
  BY DEF Mint, stores
<1>6. ASSUME NEW sig \in {p.sig, byID[p.id].stepUpSig},
             IssuerKey \in psa.keys,
             CheckPaymentEnvelope(psa.scope, byID[p.id].ask.amount, sig # NoSig)
      PROVE  LET next == [pc |-> "issue", tenant |-> p.tenant,
                          token |-> MintedToken(p, psa, sig)]
             IN next \in LocalStates /\ Holds(next)
  <2> DEFINE t == MintedToken(p, psa, sig)
             next == [pc |-> "issue", tenant |-> p.tenant, token |-> t]
  <2>1. sig \in Sig /\ byID[p.id].ask \in Asks /\ ApprovalDigest(p.id, byID[p.id]) \in Digest
    BY <1>0, <1>2, <1>3, <1>6, RequestTyped
  <2>2. SigFor(sig, p.id)
    BY <1>0, <1>1, <1>2, <1>3, <1>6 DEF Holds, RequestsOwned
  <2>3. StepUp(p.id, sig) \in [digest : Digest, sig : Sig] \cup {NoSig}
    BY <2>1 DEF StepUp
  <2>4. StepUp(p.id, sig) # NoSig <=> sig # NoSig
    BY <2>1, ServerAssumption DEF StepUp
  <2>5. IssuerKey \in {IssuerKeys[n] : n \in 1..MaxBoots} /\ now \in Nat
    BY <1>0 DEF IssuerKey, TypeOK, StoreTypeOK
  <2>6. t \in AuthToken
    BY <1>2, <1>4, <2>1, <2>3, <2>5 DEF MintedToken, AuthToken
  <2>7. ChainGood(t)
    BY <1>3, <1>4 DEF ChainGood, MintedToken, PSAGood, GrantGood
  <2>8. /\ t.stepUp = StepUp(p.id, sig) /\ t.ask = byID[p.id].ask /\ t.psa = psa
        /\ t.id = p.id /\ t.agent = p.agent /\ t.key = IssuerKey
    BY DEF MintedToken
  <2>9. EnvelopeGood(t)
    <3>1. CheckPaymentEnvelope(t.psa.scope, t.ask.amount, t.stepUp # NoSig)
      BY <1>6, <2>4, <2>8 DEF CheckPaymentEnvelope
    <3>2. ASSUME sig # NoSig
          PROVE  /\ VerifyRootSig(psa.root, t.stepUp.digest, t.stepUp.sig)
                 /\ t.stepUp.digest.id = t.id
                 /\ t.stepUp.digest.agent = t.agent
                 /\ t.stepUp.digest.ask = t.ask
      BY <1>3, <1>4, <2>2, <2>8, <3>2 DEF StepUp, SigFor, VerifyRootSig, ApprovalDigest
    <3>3. HashableScope(t.psa.scope)
      BY <1>4, <2>8 DEF PSAGood
    <3> HIDE DEF t
    <3> QED
      BY <2>4, <2>8, <3>1, <3>2, <3>3 DEF EnvelopeGood
  <2>10. Consented(t)
    BY <1>3, <2>8 DEF Consented
  <2>11. next \in LocalStates
    BY <1>2, <2>6 DEF LocalStates
  <2>12. next.pc = "issue" /\ next.token = t
    OBVIOUS
  <2> HIDE DEF t, next
  <2>13. Holds(next)
    BY <2>7, <2>8, <2>9, <2>10, <2>12 DEF Holds
  <2> QED
    BY <2>11, <2>13 DEF next, t
<1>7. PICK sig \in {p.sig, byID[p.id].stepUpSig} :
        IF IssuerKey \in psa.keys
           /\ CheckPaymentEnvelope(psa.scope, byID[p.id].ask.amount, sig # NoSig)
          THEN Goto(h, [pc |-> "issue", tenant |-> p.tenant, token |-> MintedToken(p, psa, sig)])
          ELSE Goto(h, Free)
  BY DEF Mint
<1>8. CASE Goto(h, Free)
  BY <1>5, <1>8, FreeTyped, LocalStep
<1>9. CASE /\ IssuerKey \in psa.keys
           /\ CheckPaymentEnvelope(psa.scope, byID[p.id].ask.amount, sig # NoSig)
           /\ Goto(h, [pc |-> "issue", tenant |-> p.tenant, token |-> MintedToken(p, psa, sig)])
  BY <1>5, <1>6, <1>9, LocalStep
<1> QED
  BY <1>7, <1>8, <1>9

LEMMA ApprovePageStep ==
  ASSUME IInv, NEW h \in Handlers, NEW code \in Codes, ApprovePage(h, code), UNCHANGED psBoot
  PROVE  IInv'
<1> DEFINE next == [pc |-> "click", code |-> code]
<1>1. next \in LocalStates /\ Holds(next)
  BY DEF LocalStates, Holds
<1>2. Goto(h, next) /\ UNCHANGED <<stores, psBoot>>
  BY DEF ApprovePage, stores
<1> HIDE DEF next
<1> QED
  BY <1>1, <1>2, LocalStep

\* A code that leads somewhere leads to a request.
LEMMA LookupKnown ==
  ASSUME IInv, NEW code \in Codes, NEW id \in Ids, Lookup(code, id)
  PROVE  /\ Known(id) /\ byCode[code] = id /\ byCode[code] # NoId
         /\ byID[id].agent \in Agents /\ byAgent[byID[id].agent] \in Addrs
         /\ ApprovalDigest(id, byID[id]) \in Digest
<1>1. Known(id) /\ byCode[code] = id /\ byCode[code] # NoId
  BY DEF Lookup, IInv, RequestsOwned
<1>2. byID[id].agent \in Agents /\ ApprovalDigest(id, byID[id]) \in Digest
  BY <1>1, RequestTyped DEF IInv
<1>3. byAgent[byID[id].agent] # None
  BY <1>1 DEF IInv, RequestsOwned
<1> QED
  BY <1>1, <1>2, <1>3 DEF IInv, TypeOK, TenantsTypeOK

LEMMA ClickLookupStep ==
  ASSUME IInv, NEW h \in Handlers, ClickLookup(h), UNCHANGED psBoot
  PROVE  IInv'
<1>1. proc[h].code \in Codes
  BY LocalFields DEF IInv, TypeOK, ClickLookup, At
<1>2. PICK id \in Ids : /\ Lookup(proc[h].code, id)
                        /\ IF byID[id].tier = "routine"
                             THEN Goto(h, [pc |-> "approve", id |-> id])
                             ELSE Goto(h, Free)
  BY DEF ClickLookup
<1> DEFINE next == [pc |-> "approve", id |-> id]
<1>3. UNCHANGED <<stores, psBoot>>
  BY DEF ClickLookup, stores
<1>4. CASE Goto(h, Free)
  BY <1>3, <1>4, FreeTyped, LocalStep
<1>5. CASE byID[id].tier = "routine" /\ Goto(h, next)
  <2>1. next \in LocalStates
    BY DEF LocalStates
  <2>2. Holds(next)
    BY <1>1, <1>2, <1>5, LookupKnown DEF Holds
  <2> HIDE DEF next
  <2> QED
    BY <1>3, <1>5, <2>1, <2>2, LocalStep
<1> QED
  BY <1>2, <1>4, <1>5

LEMMA ApproveElevatedStep ==
  ASSUME IInv, NEW h \in Handlers, NEW code \in Codes, NEW sig \in SomeSignature,
         ApproveElevated(h, code, sig), UNCHANGED psBoot
  PROVE  IInv'
<1>1. PICK id \in Ids :
        /\ Lookup(code, id)
        /\ Goto(h, [pc |-> "verify", code |-> code, sig |-> sig,
                    tenant |-> byAgent[byID[id].agent]])
  BY DEF ApproveElevated
<1> DEFINE next == [pc |-> "verify", code |-> code, sig |-> sig,
                    tenant |-> byAgent[byID[id].agent]]
<1>2. sig \in Sig
  <2>1. PICK r \in Roots, i \in Ids :
          Known(i) /\ sig = [by |-> r, over |-> ApprovalDigest(i, byID[i])]
    BY DEF SomeSignature, SignApproval, Announced
  <2>2. ApprovalDigest(i, byID[i]) \in Digest
    BY <2>1, RequestTyped DEF IInv
  <2> QED
    BY <2>1, <2>2 DEF Sig
<1>3. next \in LocalStates
  BY <1>1, <1>2, LookupKnown DEF LocalStates
<1>4. Holds(next)
  <2>1. PICK r \in Roots, i \in Ids :
          Known(i) /\ sig = [by |-> r, over |-> ApprovalDigest(i, byID[i])]
    BY DEF SomeSignature, SignApproval, Announced
  <2>2. sig.over.id = i /\ byCode[code] = id
    BY <1>1, <2>1, LookupKnown DEF ApprovalDigest
  <2>3. SignedByNoOther(next)
    BY <2>1, <2>2 DEF SignedByNoOther
  <2>. QED BY <2>3 DEF Holds
<1>5. Goto(h, next) /\ UNCHANGED <<stores, psBoot>>
  BY <1>1 DEF ApproveElevated, stores
<1> HIDE DEF next
<1> QED
  BY <1>3, <1>4, <1>5, LocalStep

LEMMA VerifyLookupStep ==
  ASSUME IInv, NEW h \in Handlers, VerifyLookup(h), UNCHANGED psBoot
  PROVE  IInv'
<1> DEFINE p == proc[h]
<1>1. p \in LocalStates /\ Holds(p) /\ p.pc = "verify" /\ p.code \in Codes /\ p.sig \in Sig
  BY LocalFields DEF IInv, TypeOK, HandlersHold, VerifyLookup, At
<1>2. PICK id \in Ids :
        /\ Lookup(p.code, id)
        /\ IF /\ byID[id].tier = "elevated"
              /\ VerifyRootSig(p.tenant, ApprovalDigest(id, byID[id]), p.sig)
             THEN Goto(h, [pc |-> "setSig", id |-> id, sig |-> p.sig])
             ELSE Goto(h, Free)
  BY DEF VerifyLookup
<1> DEFINE next == [pc |-> "setSig", id |-> id, sig |-> p.sig]
<1>3. UNCHANGED <<stores, psBoot>>
  BY DEF VerifyLookup, stores
<1>4. CASE Goto(h, Free)
  BY <1>3, <1>4, FreeTyped, LocalStep
<1>5. CASE /\ VerifyRootSig(p.tenant, ApprovalDigest(id, byID[id]), p.sig)
           /\ Goto(h, next)
  <2>1. next \in LocalStates
    BY <1>1 DEF LocalStates
  <2>2. Known(id) /\ byCode[p.code] = id
    BY <1>1, <1>2, LookupKnown
  <2>3. byAgent[byID[id].agent] = p.tenant
    <3>1. p.sig.over.id = id
      BY <1>5 DEF VerifyRootSig, ApprovalDigest
    <3>. QED BY <3>1, <1>1, <2>2 DEF Holds, SignedByNoOther
  <2>4. p.sig # NoSig /\ SigFor(p.sig, id)
    BY <1>5, <2>3 DEF VerifyRootSig, SigFor
  <2>5. Holds(next)
    BY <2>2, <2>4 DEF Holds
  <2> HIDE DEF next
  <2> QED
    BY <1>3, <1>5, <2>1, <2>5, LocalStep
<1> QED
  BY <1>2, <1>4, <1>5

-----------------------------------------------------------------------------
\* The steps that change a store.

\* One known request changes its state or its signature.
LEMMA OneRequest ==
  ASSUME IInv, NEW id \in Ids, Known(id), NEW r \in Request,
         byID' = [byID EXCEPT ![id] = r],
         UNCHANGED <<byCode, tenantVars, psBoot>>,
         r = [byID[id] EXCEPT !.state = r.state, !.stepUpSig = r.stepUpSig],
         byID[id].state = "approved" => r.state = "approved",
         byID[id].stepUpSig # NoSig => r.stepUpSig # NoSig,
         r.tier = "elevated" /\ r.state = "approved" => r.stepUpSig # NoSig,
         SigFor(r.stepUpSig, id)
  PROVE  Grow /\ Tenancy' /\ RequestsOwned' /\ (StoreTypeOK /\ now' = now => StoreTypeOK')
<1> USE DEF tenantVars
<1>0. TypeOK /\ Tenancy /\ RequestsOwned /\ r # NoRequest
  BY ConsentAssumption DEF IInv
<1>1. /\ \A i \in Ids : byID'[i] = IF i = id THEN r ELSE byID[i]
      /\ byID[id] \in Request
  BY <1>0, RequestTyped DEF TypeOK, StoreTypeOK
<1>2. /\ r.agent = byID[id].agent /\ r.ask = byID[id].ask /\ r.mission = byID[id].mission
      /\ r.tier = byID[id].tier /\ r.expiresAt = byID[id].expiresAt
  BY <1>1 DEF Request
<1>3. \A i \in Ids : Known(i)' <=> Known(i)
  BY <1>0, <1>1 DEF Known
<1>4. \A i \in Ids : Known(i) => RequestKept(i)
  BY <1>1, <1>2, <1>3 DEF RequestKept
<1>5. Grow
  BY <1>4 DEF Grow
<1>6. Tenancy'
  <2>1. IssuerKey' = IssuerKey
    BY DEF IssuerKey
  <2> QED
    BY <2>1, <1>0 DEF Tenancy, PSAGood, GrantGood, OnePersonPerAgent
<1>7. RequestsOwned'
  <2>1. \A code \in Codes : byCode[code] # NoId => Known(byCode[code])'
    BY <1>0, <1>3 DEF RequestsOwned, TypeOK, StoreTypeOK
  <2>2. ASSUME NEW i \in Ids, Known(i)
        PROVE  /\ byAgent[byID'[i].agent] # None
               /\ byID'[i].tier = "elevated" /\ byID'[i].state = "approved"
                    => byID'[i].stepUpSig # NoSig
               /\ SigFor(byID[i].stepUpSig, i)'
    <3>1. CASE i = id
      <4>1. SigFor(byID[i].stepUpSig, i)'
        BY <3>1, <1>1, <1>2 DEF SigFor, ApprovalDigest
      <4> QED
        BY <4>1, <3>1, <1>0, <1>1, <1>2, <2>2 DEF RequestsOwned
    <3>2. CASE i # id
      <4>1. byID'[i] = byID[i]
        BY <3>2, <1>1
      <4>2. SigFor(byID[i].stepUpSig, i)'
        BY <4>1, <1>0, <2>2 DEF RequestsOwned, SigFor, ApprovalDigest
      <4> QED
        BY <4>1, <4>2, <1>0, <2>2 DEF RequestsOwned
    <3> QED
      BY <3>1, <3>2
  <2> QED
    BY <2>1, <2>2, <1>3 DEF RequestsOwned
<1>8. byID' \in [Ids -> Request \cup {NoRequest}]
  BY <1>0 DEF TypeOK, StoreTypeOK
<1> QED
  BY <1>5, <1>6, <1>7, <1>8 DEF StoreTypeOK

LEMMA OnboardCommitStep ==
  ASSUME IInv, NEW h \in Handlers, OnboardCommit(h), UNCHANGED psBoot
  PROVE  IInv'
<1> DEFINE p == proc[h].psa
<1>0. TypeOK /\ Tenancy /\ RequestsOwned
  BY DEF IInv
<1>1. p \in PSADocs /\ PSAGood(p) /\ p.root \in Addrs /\ p # None
  BY LocalFields, DocumentsAssumption
     DEF IInv, TypeOK, HandlersHold, Holds, OnboardCommit, At
<1>2. /\ psaOf' = [psaOf EXCEPT ![p.root] = p]
      /\ UNCHANGED <<grantOf, byAgent, byGrantS256, revoked, now, byID, byCode, log, issued>>
      /\ Goto(h, Free)
  BY DEF OnboardCommit, OnboardTenant, storeVars
<1>3. \A root \in Addrs : psaOf'[root] = IF root = p.root THEN p ELSE psaOf[root]
  BY <1>0, <1>2 DEF TypeOK, TenantsTypeOK
<1>4. TypeOK'
  BY <1>0, <1>1, <1>2, GotoTyped, FreeTyped DEF TypeOK, StoreTypeOK, TenantsTypeOK
<1>5. Grow
  BY <1>1, <1>2, <1>3 DEF Grow, RequestKept, Known
<1>6. Tenancy'
  <2>1. IssuerKey' = IssuerKey
    BY DEF IssuerKey
  <2>2. (\A root \in Addrs : psaOf[root] # None => psaOf[root].root = root /\ PSAGood(psaOf[root]))'
    BY <2>1, <1>0, <1>1, <1>3 DEF Tenancy, PSAGood
  <2>3. (\A agent \in Agents : byAgent[agent] # None => psaOf[byAgent[agent]] # None)'
    BY <1>0, <1>1, <1>2, <1>3 DEF Tenancy, TypeOK, TenantsTypeOK
  <2> QED
    BY <2>2, <2>3, <1>0, <1>2 DEF Tenancy, GrantGood, OnePersonPerAgent
<1>7. RequestsOwned'
  BY <1>0, <1>2 DEF RequestsOwned, Known, SigFor, ApprovalDigest
<1>8. \A other \in Handlers : proc'[other] # proc[other] => Holds(proc[other])'
  BY <1>0, <1>2, GotoTyped, FreeTyped DEF Holds, Free
<1> QED
  BY <1>2, <1>4, <1>5, <1>6, <1>7, <1>8, Assemble

LEMMA EnrollCommitStep ==
  ASSUME IInv, NEW h \in Handlers, EnrollCommit(h), UNCHANGED psBoot
  PROVE  IInv'
<1> DEFINE p == proc[h]
           next == [pc |-> "logEnroll", agent |-> p.agent, tenant |-> p.tenant]
<1>0. TypeOK /\ Tenancy /\ RequestsOwned
  BY DEF IInv
<1>1. /\ p.agent \in Agents /\ p.tenant \in Addrs /\ p.grant \in GrantDocs
      /\ GrantGood(p.grant, p.tenant, p.agent) /\ psaOf[p.tenant] # None
      /\ p.grant # None /\ p.tenant # None
  BY LocalFields, DocumentsAssumption
     DEF IInv, TypeOK, HandlersHold, Holds, EnrollCommit, At
<1>2. CASE BoundElsewhere(p.agent, p.tenant) /\ Goto(h, Free) /\ UNCHANGED tenantVars
  <2>1. UNCHANGED <<stores, psBoot>>
    BY <1>2 DEF EnrollCommit, stores
  <2> QED
    BY <1>2, <2>1, FreeTyped, LocalStep
<1>3. CASE EnrollAgent(p.agent, p.tenant, p.grant) /\ Goto(h, next)
  <2>1. /\ byAgent[p.agent] \in {None, p.tenant}
        /\ byAgent' = [byAgent EXCEPT ![p.agent] = p.tenant]
        /\ grantOf' = [grantOf EXCEPT ![p.tenant][p.agent] = p.grant]
        /\ byGrantS256' = byGrantS256 \cup {p.grant}
        /\ UNCHANGED <<psaOf, revoked, now, byID, byCode, log, issued>>
    BY <1>3 DEF EnrollCommit, EnrollAgent, BoundElsewhere, storeVars
  <2>2. next \in LocalStates
    BY <1>1 DEF LocalStates
  <2>3. /\ byAgent' \in [Agents -> Addrs \cup {None}]
        /\ grantOf' \in [Addrs -> [Agents -> GrantDocs \cup {None}]]
        /\ byGrantS256' \subseteq GrantDocs
        /\ \A a \in Agents : byAgent'[a] = IF a = p.agent THEN p.tenant ELSE byAgent[a]
        /\ \A root \in Addrs, a \in Agents :
             grantOf'[root][a] = IF root = p.tenant /\ a = p.agent
                                   THEN p.grant ELSE grantOf[root][a]
    BY <1>0, <1>1, <2>1 DEF TypeOK, TenantsTypeOK
  <2>4. TypeOK'
    <3>1. proc' \in [Handlers -> LocalStates]
      BY <1>0, <1>3, <2>2, GotoTyped
    <3> QED
      BY <3>1, <1>0, <2>1, <2>3 DEF TypeOK, StoreTypeOK, TenantsTypeOK
  <2>5. Grow
    BY <1>1, <2>1, <2>3 DEF Grow, RequestKept, Known
  <2>6. Tenancy'
    <3>1. IssuerKey' = IssuerKey
      BY DEF IssuerKey
    <3>2. (\A root \in Addrs : psaOf[root] # None =>
             psaOf[root].root = root /\ PSAGood(psaOf[root]))'
      BY <3>1, <1>0, <2>1 DEF Tenancy, PSAGood
    <3>3. (\A root \in Addrs, agent \in Agents :
             grantOf[root][agent] # None => GrantGood(grantOf[root][agent], root, agent))'
      BY <1>0, <1>1, <2>3 DEF Tenancy, GrantGood
    <3>4. OnePersonPerAgent'
      <4>1. (\A agent \in Agents, root \in Addrs :
               grantOf[root][agent] # None <=> byAgent[agent] = root)'
        BY <1>0, <1>1, <2>1, <2>3, DocumentsAssumption DEF Tenancy, OnePersonPerAgent
      <4>. QED BY <3>3, <4>1 DEF OnePersonPerAgent, GrantGood
    <3>5. (\A agent \in Agents : byAgent[agent] # None => psaOf[byAgent[agent]] # None)'
      BY <1>0, <1>1, <2>1, <2>3 DEF Tenancy
    <3> QED
      BY <3>2, <3>3, <3>4, <3>5 DEF Tenancy
  <2>7. RequestsOwned'
    <3>1. \A id \in Ids : Known(id) => /\ byID[id].agent \in Agents
                                       /\ byAgent'[byID[id].agent] = byAgent[byID[id].agent]
      BY <1>0, <2>1, <2>3, RequestTyped DEF RequestsOwned
    <3> QED
      BY <3>1, <1>0, <2>1 DEF RequestsOwned, Known, SigFor, ApprovalDigest
  <2>8. \A other \in Handlers : proc'[other] # proc[other] => Holds(proc[other])'
    BY <1>0, <1>3, <2>2, GotoTyped DEF Holds
  <2> QED
    BY <2>1, <2>4, <2>5, <2>6, <2>7, <2>8, Assemble
<1> QED
  BY <1>2, <1>3 DEF EnrollCommit

\* EnrollLog and TokenLog.
LEMMA LogStep ==
  ASSUME IInv, NEW h \in Handlers, EnrollLog(h) \/ TokenLog(h), UNCHANGED psBoot
  PROVE  IInv'
<1> DEFINE p == proc[h]
           entry == IF EnrollLog(h) THEN Entry("agent_enrolled", NoId)
                                    ELSE Entry("token_request", p.id)
<1>0. TypeOK /\ Tenancy /\ RequestsOwned
  BY DEF IInv
<1>1. /\ p.tenant \in Addrs /\ p.agent \in Agents
      /\ TokenLog(h) => p.id \in Ids
  BY LocalFields DEF IInv, TypeOK, EnrollLog, TokenLog, At
<1>2. /\ Append1(p.tenant, p.agent, entry) /\ Goto(h, Free)
      /\ UNCHANGED <<now, byID, byCode, tenantVars, issued>>
  BY DEF EnrollLog, TokenLog, storeVars
<1>3. entry \in Entries
  BY <1>1 DEF Entry, Entries
<1> HIDE DEF entry
<1>4. log' \in [Addrs -> [Agents -> Seq(Entries)]]
  <2>1. log[p.tenant] \in [Agents -> Seq(Entries)] /\ log[p.tenant][p.agent] \in Seq(Entries)
    BY <1>0, <1>1 DEF TypeOK
  <2>2. Append(log[p.tenant][p.agent], entry) \in Seq(Entries)
    BY <2>1, <1>3, AppendProperties
  <2> QED
    BY <1>0, <1>2, <2>1, <2>2 DEF Append1, TypeOK
<1>5. TypeOK'
  BY <1>0, <1>2, <1>4, GotoTyped, FreeTyped DEF TypeOK, StoreTypeOK, TenantsTypeOK, tenantVars
<1>6. Grow /\ Tenancy' /\ RequestsOwned'
  BY <1>2, StandStill
<1>7. \A other \in Handlers : proc'[other] # proc[other] => Holds(proc[other])'
  BY <1>0, <1>2, GotoTyped, FreeTyped DEF Holds, Free
<1> QED
  BY <1>2, <1>5, <1>6, <1>7, Assemble

LEMMA TokenCreateStep ==
  ASSUME IInv, NEW h \in Handlers, NEW id \in Ids, NEW code \in Codes,
         TokenCreate(h, id, code), UNCHANGED psBoot
  PROVE  IInv'
<1> DEFINE p == proc[h]
           r == NewRequest(code, p.agent, p.ask, p.mission,
                           TierFor(psaOf[p.tenant].scope, p.ask.amount))
           next == [pc |-> "logRequest", agent |-> p.agent, tenant |-> p.tenant, id |-> id]
<1> USE DEF tenantVars
<1>0. TypeOK /\ Tenancy /\ RequestsOwned
  BY DEF IInv
<1>1. /\ p.agent \in Agents /\ p.tenant \in Addrs /\ p.ask \in Asks /\ p.mission \in Missions
      /\ byAgent[p.agent] = p.tenant /\ p.tenant # None
  BY LocalFields, DocumentsAssumption
     DEF IInv, TypeOK, HandlersHold, Holds, TokenCreate, At
<1>2. r \in Request /\ r # NoRequest
  <2>1. now + Window \in Nat
    BY <1>0, ConsentAssumption DEF TypeOK, StoreTypeOK
  <2> QED
    BY <2>1, <1>1, ConsentAssumption DEF NewRequest, Request, TierFor, Tiers, States, Sig
<1>3. /\ r.code = code /\ r.agent = p.agent /\ r.state = "pending" /\ r.stepUpSig = NoSig
  BY DEF NewRequest
<1>4. /\ ~ Known(id) /\ byID' = [byID EXCEPT ![id] = r] /\ byCode' = [byCode EXCEPT ![code] = id]
      /\ Goto(h, next) /\ UNCHANGED <<now, tenantVars, log, issued>>
  BY <1>3 DEF TokenCreate, StoreCreate
<1>5. next \in LocalStates
  BY <1>1 DEF LocalStates
<1> HIDE DEF r, next
<1>6. /\ \A i \in Ids : byID'[i] = IF i = id THEN r ELSE byID[i]
      /\ byID' \in [Ids -> Request \cup {NoRequest}]
      /\ \A c \in Codes : byCode'[c] = IF c = code THEN id ELSE byCode[c]
      /\ byCode' \in [Codes -> Ids \cup {NoId}]
  BY <1>0, <1>2, <1>4 DEF TypeOK, StoreTypeOK
<1>7. TypeOK'
  <2>1. proc' \in [Handlers -> LocalStates]
    BY <1>0, <1>4, <1>5, GotoTyped
  <2> QED
    BY <2>1, <1>0, <1>4, <1>6 DEF TypeOK, StoreTypeOK, TenantsTypeOK
<1>8. \A i \in Ids : Known(i) => i # id /\ byID'[i] = byID[i] /\ Known(i)'
  BY <1>4, <1>6 DEF Known
<1>9. Grow
  BY <1>4, <1>6, <1>8 DEF Grow, RequestKept
<1>10. Tenancy'
  <2>1. IssuerKey' = IssuerKey
    BY DEF IssuerKey
  <2> QED
    BY <2>1, <1>0, <1>4 DEF Tenancy, PSAGood, GrantGood, OnePersonPerAgent
<1>11. RequestsOwned'
  <2>1. Known(id)'
    BY <1>2, <1>6 DEF Known
  <2>2. (\A c \in Codes : byCode[c] # NoId => Known(byCode[c]))'
    BY <2>1, <1>0, <1>6, <1>8 DEF RequestsOwned, TypeOK, StoreTypeOK
  <2>3. ASSUME NEW i \in Ids, Known(i)'
        PROVE  (/\ byAgent[byID[i].agent] # None
                /\ byID[i].tier = "elevated" /\ byID[i].state = "approved"
                     => byID[i].stepUpSig # NoSig
                /\ SigFor(byID[i].stepUpSig, i))'
    <3>1. CASE i = id
      BY <3>1, <1>1, <1>3, <1>4, <1>6 DEF SigFor
    <3>2. CASE i # id
      <4>1. Known(i) /\ byID'[i] = byID[i]
        BY <3>2, <2>3, <1>6 DEF Known
      <4> QED
        BY <4>1, <1>0, <1>4 DEF RequestsOwned, SigFor, ApprovalDigest
    <3> QED
      BY <3>1, <3>2
  <2> QED
    BY <2>2, <2>3 DEF RequestsOwned
<1>12. \A other \in Handlers : proc'[other] # proc[other] => Holds(proc[other])'
  <2>1. proc'[h].pc = "logRequest"
    BY <1>0, <1>4, <1>5, GotoTyped DEF next
  <2> QED
    BY <2>1, <1>0, <1>4, <1>5, GotoTyped DEF Holds
<1> QED
  BY <1>4, <1>7, <1>9, <1>10, <1>11, <1>12, Assemble

\* One known request and at most one handler change.
LEMMA RequestStep ==
  ASSUME IInv, NEW id \in Ids, Known(id), NEW r \in Request,
         byID' = [byID EXCEPT ![id] = r],
         UNCHANGED <<now, byCode, tenantVars, log, issued, psBoot>>,
         r = [byID[id] EXCEPT !.state = r.state, !.stepUpSig = r.stepUpSig],
         byID[id].state = "approved" => r.state = "approved",
         byID[id].stepUpSig # NoSig => r.stepUpSig # NoSig,
         r.tier = "elevated" /\ r.state = "approved" => r.stepUpSig # NoSig,
         SigFor(r.stepUpSig, id),
         NEW h \in Handlers, NEW next \in LocalStates,
         (Goto(h, next) /\ Holds(next)') \/ UNCHANGED proc
  PROVE  IInv'
<1>0. TypeOK
  BY DEF IInv
<1>1. Grow /\ Tenancy' /\ RequestsOwned' /\ StoreTypeOK'
  BY <1>0, OneRequest DEF TypeOK
<1>2. proc' \in [Handlers -> LocalStates]
  BY <1>0, GotoTyped DEF TypeOK
<1>3. TypeOK'
  BY <1>0, <1>1, <1>2 DEF TypeOK, TenantsTypeOK, tenantVars
<1>4. \A other \in Handlers : proc'[other] # proc[other] => Holds(proc[other])'
  <2> SUFFICES ASSUME NEW other \in Handlers, proc'[other] # proc[other]
               PROVE  Holds(proc[other])'
    OBVIOUS
  <2>1. Goto(h, next) /\ Holds(next)'
    OBVIOUS
  <2>2. other = h /\ proc'[other] = next
    BY <2>1, <1>0, GotoTyped
  <2> QED
    BY <2>1, <2>2 DEF Holds
<1> QED
  BY <1>1, <1>3, <1>4, Assemble

\* A request whose state alone changes.
LEMMA NewState ==
  ASSUME IInv, NEW id \in Ids, Known(id), NEW to \in States
  PROVE  LET r == [byID[id] EXCEPT !.state = to] IN
           /\ r \in Request /\ r.state = to /\ r.stepUpSig = byID[id].stepUpSig
           /\ r.tier = byID[id].tier
           /\ r = [byID[id] EXCEPT !.state = r.state, !.stepUpSig = r.stepUpSig]
           /\ SigFor(r.stepUpSig, id)
<1> DEFINE r == [byID[id] EXCEPT !.state = to]
<1>1. byID[id] \in Request
  BY RequestTyped DEF IInv
<1>2. r \in Request /\ r.state = to /\ r.stepUpSig = byID[id].stepUpSig /\ r.tier = byID[id].tier
  BY <1>1 DEF Request
<1>3. r = [byID[id] EXCEPT !.state = r.state, !.stepUpSig = r.stepUpSig]
  BY <1>1 DEF Request
<1>4. SigFor(r.stepUpSig, id)
  BY <1>2 DEF IInv, RequestsOwned
<1> QED
  BY <1>2, <1>3, <1>4

LEMMA PollStep ==
  ASSUME IInv, NEW h \in Handlers, NEW agent \in Agents, NEW id \in Ids,
         Poll(h, agent, id), UNCHANGED psBoot
  PROVE  IInv'
<1> DEFINE to == IF Pending(id) /\ Overdue(id) THEN "expired" ELSE byID[id].state
<1>0. TypeOK /\ RequestsOwned
  BY DEF IInv
<1>1. Known(id) /\ StorePoll(id) /\ UNCHANGED <<now, byCode, tenantVars, log, issued>>
  BY DEF Poll, Announced
<1>2. byID[id] \in Request /\ byID[id].state \in States /\ byID[id].stepUpSig \in Sig
  BY <1>0, <1>1, RequestTyped
<1>3. to \in States /\ (byID[id].state = "approved" <=> to = "approved")
  BY <1>2 DEF States, Pending
<1>4. PICK r : r = [byID[id] EXCEPT !.state = to]
  OBVIOUS
<1>5. /\ r \in Request /\ r.state = to /\ r.stepUpSig = byID[id].stepUpSig
      /\ r.tier = byID[id].tier
      /\ r = [byID[id] EXCEPT !.state = r.state, !.stepUpSig = r.stepUpSig]
      /\ SigFor(r.stepUpSig, id)
  <2> HIDE DEF to
  <2> QED
    BY <1>1, <1>3, <1>4, NewState
<1>6. byID' = [byID EXCEPT ![id] = r]
  <2>1. byID[id].state = to => r = byID[id]
    BY <1>2, <1>4 DEF Request
  <2>2. byID \in [Ids -> Request \cup {NoRequest}]
    BY <1>0 DEF TypeOK, StoreTypeOK
  <2> QED
    BY <1>1, <1>4, <2>1, <2>2 DEF StorePoll
<1> HIDE DEF to
<1>7. byID'[id] = r /\ r # NoRequest
  BY <1>0, <1>5, <1>6, ConsentAssumption DEF TypeOK, StoreTypeOK
<1>8. r.tier = "elevated" /\ r.state = "approved" => r.stepUpSig # NoSig
  BY <1>0, <1>1, <1>3, <1>5 DEF RequestsOwned
<1>9. PICK next : next = [pc |-> "polled", id |-> id, state |-> r.state, sig |-> r.stepUpSig]
  OBVIOUS
<1>10. Goto(h, next) \/ UNCHANGED proc
  BY <1>5, <1>7, <1>9 DEF Poll
<1>11. next \in LocalStates
  BY <1>2, <1>3, <1>5, <1>9 DEF LocalStates
<1>12. Holds(next)'
  <2>1. /\ r.agent = byID[id].agent /\ r.ask = byID[id].ask /\ r.mission = byID[id].mission
        /\ r.expiresAt = byID[id].expiresAt
    BY <1>2, <1>4 DEF Request
  <2>2. SigFor(r.stepUpSig, id)'
    BY <2>1, <1>1, <1>5, <1>7 DEF SigFor, ApprovalDigest, tenantVars
  <2>3. /\ next.pc = "polled" /\ next.id = id /\ next.state = r.state
        /\ next.sig = r.stepUpSig
    BY <1>9
  <2>4. SigFor(next.sig, next.id)'
    BY <2>2, <2>3 DEF SigFor
  <2> QED
    BY <2>3, <2>4, <1>7 DEF Holds, Known
<1> QED
  BY <1>1, <1>3, <1>5, <1>6, <1>8, <1>10, <1>11, <1>12, RequestStep

LEMMA ApproveStep ==
  ASSUME IInv, NEW h \in Handlers, Approve(h), UNCHANGED psBoot
  PROVE  IInv'
<1> DEFINE id == proc[h].id
           to == IF ~ Pending(id) THEN byID[id].state
                 ELSE IF Overdue(id) THEN "expired" ELSE "approved"
           r == [byID[id] EXCEPT !.state = to]
<1>0. TypeOK /\ RequestsOwned
  BY DEF IInv
<1>1. /\ id \in Ids /\ Known(id)
      /\ byID[id].tier = "elevated" => byID[id].stepUpSig # NoSig
  BY LocalFields DEF IInv, TypeOK, HandlersHold, Holds, Approve, At
<1>2. byID[id] \in Request /\ byID[id].state \in States
  BY <1>0, <1>1, RequestTyped
<1>3. to \in States /\ (byID[id].state = "approved" => to = "approved")
  BY <1>2 DEF States, Pending
<1>4. byID' = [byID EXCEPT ![id] = r]
  <2>1. byID[id].state = to => r = byID[id]
    BY <1>2 DEF Request
  <2>2. byID \in [Ids -> Request \cup {NoRequest}]
    BY <1>0 DEF TypeOK, StoreTypeOK
  <2> QED
    BY <1>1, <2>1, <2>2 DEF Approve, Transition
<1>5. r.tier = "elevated" /\ r.state = "approved" => r.stepUpSig # NoSig
  BY <1>1, <1>3, NewState
<1>6. /\ UNCHANGED <<now, byCode, tenantVars, log, issued>>
      /\ Goto(h, Free) /\ Free \in LocalStates /\ Holds(Free)'
  BY FreeTyped DEF Approve, Holds, Free
<1> HIDE DEF to, r, id
<1>7. r.state = to /\ r.stepUpSig = byID[id].stepUpSig
  BY <1>1, <1>3, NewState DEF r
<1> QED
  <2>1. /\ r \in Request /\ SigFor(r.stepUpSig, id)
        /\ r = [byID[id] EXCEPT !.state = r.state, !.stepUpSig = r.stepUpSig]
    BY <1>1, <1>3, NewState DEF r
  <2>. QED BY <1>1, <1>3, <1>4, <1>5, <1>6, <1>7, <2>1, RequestStep

LEMMA SetSigStep ==
  ASSUME IInv, NEW h \in Handlers, SetSig(h), UNCHANGED psBoot
  PROVE  IInv'
<1>0. TypeOK /\ RequestsOwned
  BY DEF IInv
<1>1. PICK id, sig : id = proc[h].id /\ sig = proc[h].sig
  OBVIOUS
<1>2. /\ id \in Ids /\ sig \in Sig /\ Known(id) /\ sig # NoSig
      /\ SigFor(sig, id)
  BY <1>1, LocalFields DEF IInv, TypeOK, HandlersHold, Holds, SetSig, At
<1>3. byID[id] \in Request
  BY <1>0, <1>2, RequestTyped
<1>4. PICK r : r = [byID[id] EXCEPT !.stepUpSig = sig]
  OBVIOUS
<1>5. /\ r \in Request /\ r.stepUpSig = sig /\ r.state = byID[id].state /\ r # NoRequest
      /\ r = [byID[id] EXCEPT !.state = r.state, !.stepUpSig = r.stepUpSig]
  BY <1>2, <1>3, <1>4, ConsentAssumption DEF Request
<1>6. byID' = [byID EXCEPT ![id] = r]
  BY <1>1, <1>4 DEF SetSig, StoreStepUpSig
<1>7. PICK next : next = [pc |-> "approve", id |-> id]
  OBVIOUS
<1>8. UNCHANGED <<now, byCode, tenantVars, log, issued>> /\ Goto(h, next)
  BY <1>1, <1>7 DEF SetSig
<1>9. next \in LocalStates
  BY <1>2, <1>7 DEF LocalStates
<1>10. Holds(next)'
  <2>1. byID'[id] = r
    BY <1>0, <1>2, <1>6 DEF TypeOK, StoreTypeOK
  <2>2. next.pc = "approve" /\ next.id = id
    BY <1>7
  <2> QED
    BY <2>1, <2>2, <1>2, <1>5 DEF Holds, Known
<1> QED
  BY <1>2, <1>5, <1>6, <1>8, <1>9, <1>10, RequestStep

LEMMA IssueStep ==
  ASSUME IInv, NEW h \in Handlers, Issue(h), UNCHANGED psBoot
  PROVE  IInv'
<1> DEFINE p == proc[h]
           t == p.token
           entry == Entry("token_issued", t.id)
<1>0. TypeOK /\ Tenancy /\ RequestsOwned /\ TokensGood
  BY DEF IInv
<1>1. /\ p.tenant \in Addrs /\ t \in AuthToken
      /\ ChainGood(t) /\ EnvelopeGood(t) /\ Consented(t) /\ t.key = IssuerKey
  BY LocalFields DEF IInv, TypeOK, HandlersHold, Holds, Issue, At
<1>2. t.agent \in Agents /\ t.id \in Ids
  BY <1>1 DEF AuthToken
<1>3. /\ Append1(p.tenant, t.agent, entry) /\ Goto(h, Free) /\ issued' = Append(issued, t)
      /\ UNCHANGED <<now, byID, byCode, tenantVars>>
  BY DEF Issue, storeVars
<1>4. entry \in Entries
  BY <1>2 DEF Entry, Entries
<1> HIDE DEF t, entry
<1>5. log' \in [Addrs -> [Agents -> Seq(Entries)]]
  <2>1. log[p.tenant] \in [Agents -> Seq(Entries)] /\ log[p.tenant][t.agent] \in Seq(Entries)
    BY <1>0, <1>1, <1>2 DEF TypeOK
  <2>2. Append(log[p.tenant][t.agent], entry) \in Seq(Entries)
    BY <2>1, <1>4, AppendProperties
  <2> QED
    BY <1>0, <1>3, <2>1, <2>2 DEF Append1, TypeOK
<1>6. /\ issued' \in Seq(AuthToken)
      /\ \A n \in DOMAIN issued' : issued'[n] = t \/ (n \in DOMAIN issued /\ issued'[n] = issued[n])
  <2>1. issued \in Seq(AuthToken)
    BY <1>0 DEF TypeOK
  <2>2. /\ issued' \in Seq(AuthToken) /\ Len(issued') = Len(issued) + 1
        /\ \A n \in 1..Len(issued) : issued'[n] = issued[n]
        /\ issued'[Len(issued) + 1] = t
    BY <1>1, <1>3, <2>1, AppendProperties
  <2>3. DOMAIN issued = 1..Len(issued) /\ Len(issued) \in Nat
    BY <2>1, LenProperties
  <2>4. DOMAIN issued' = 1..(Len(issued) + 1)
    BY <2>2, LenProperties
  <2>5. \A n \in 1..(Len(issued) + 1) : n \in 1..Len(issued) \/ n = Len(issued) + 1
    BY <2>3
  <2>6. \A n \in 1..(Len(issued) + 1) :
          issued'[n] = t \/ (n \in 1..Len(issued) /\ issued'[n] = issued[n])
    BY <2>2, <2>3, <2>5
  <2> QED
    BY <2>2, <2>3, <2>4, <2>6, Zenon
<1>7. TypeOK'
  BY <1>0, <1>3, <1>5, <1>6, GotoTyped, FreeTyped
     DEF TypeOK, StoreTypeOK, TenantsTypeOK, tenantVars
<1>8. Grow /\ Tenancy' /\ RequestsOwned'
  BY <1>3, StandStill
<1>9. HandlersHold'
  <2> SUFFICES ASSUME NEW other \in Handlers PROVE Holds(proc[other])'
    BY DEF HandlersHold
  <2>1. CASE other = h
    BY <2>1, <1>0, <1>3, GotoTyped, FreeTyped DEF Holds, Free
  <2>2. CASE other # h
    BY <2>2, <1>0, <1>3, <1>8, GotoTyped, FreeTyped, HoldsKept
  <2> QED
    BY <2>1, <2>2
<1>10. TokensGood'
  <2> SUFFICES ASSUME NEW n \in DOMAIN issued'
               PROVE  (/\ ChainGood(issued[n]) /\ EnvelopeGood(issued[n])
                       /\ \E boot \in 1..psBoot : issued[n].key = IssuerKeys[boot]
                       /\ issued[n].key = IssuerKey => Consented(issued[n]))'
    BY DEF TokensGood
  <2>1. PICK x \in {t} \cup {issued[m] : m \in DOMAIN issued} : issued'[n] = x
    BY <1>6
  <2>2. /\ ChainGood(x) /\ EnvelopeGood(x)
        /\ \E boot \in 1..psBoot : x.key = IssuerKeys[boot]
        /\ x.key = IssuerKey => Consented(x)
    <3>1. \E boot \in 1..psBoot : IssuerKey = IssuerKeys[boot]
      BY <1>0 DEF IssuerKey, TypeOK
    <3> QED
      BY <3>1, <1>0, <1>1, <2>1 DEF TokensGood
  <2>3. IssuerKey' = IssuerKey
    BY DEF IssuerKey
  <2>4. (ChainGood(issued[n]) /\ EnvelopeGood(issued[n]))'
    BY <2>1, <2>2 DEF ChainGood, EnvelopeGood
  <2>5. (issued[n].key = IssuerKey => Consented(issued[n]))'
    BY <2>1, <2>2, <2>3, <1>3 DEF Consented, Known
  <2> QED
    BY <2>1, <2>2, <2>4, <2>5
<1> QED
  BY <1>7, <1>8, <1>9, <1>10 DEF IInv

\* The registry and the clock disturb nothing the invariant speaks of.
LEMMA OutsideStep ==
  ASSUME IInv, Tick \/ \E handle \in Revocable : Revoke(handle), UNCHANGED psBoot
  PROVE  IInv'
<1> USE DEF tenantVars, storeVars
<1>0. TypeOK /\ Tenancy /\ RequestsOwned
  BY DEF IInv
<1>1. /\ UNCHANGED <<byID, byCode, psaOf, grantOf, byAgent, byGrantS256, log, proc, issued>>
      /\ now' \in Nat /\ revoked' \subseteq Revocable
  <2>1. CASE Tick
    BY <2>1, <1>0 DEF Tick, TypeOK, StoreTypeOK, TenantsTypeOK
  <2>2. ASSUME NEW handle \in Revocable, Revoke(handle)
        PROVE  /\ UNCHANGED <<byID, byCode, psaOf, grantOf, byAgent, byGrantS256, log, proc, issued, now>>
               /\ revoked' = revoked \cup {<<handle[1], handle[2]>>}
    BY <2>2 DEF Revoke, RevokeHandle
  <2> QED
    BY <2>1, <2>2, <1>0, RevocableAssumption DEF TypeOK, StoreTypeOK, TenantsTypeOK
<1>2. TypeOK'
  BY <1>0, <1>1 DEF TypeOK, StoreTypeOK, TenantsTypeOK
<1>3. Grow
  BY <1>1 DEF Grow, RequestKept, Known
<1>4. Tenancy'
  <2>1. IssuerKey' = IssuerKey
    BY DEF IssuerKey
  <2> QED
    BY <2>1, <1>0, <1>1 DEF Tenancy, PSAGood, GrantGood, OnePersonPerAgent
<1>5. RequestsOwned'
  BY <1>0, <1>1 DEF RequestsOwned, Known, SigFor, ApprovalDigest
<1> QED
  BY <1>1, <1>2, <1>3, <1>4, <1>5, Assemble

\* A restart empties the stores; the tokens of earlier boots carry keys that
\* are not the new one.
LEMMA RestartStep == ASSUME IInv, Restart PROVE IInv'
<1>0. TypeOK /\ TokensGood
  BY DEF IInv
<1>1. /\ psBoot' = psBoot + 1 /\ psBoot' \in 1..MaxBoots
      /\ byID' = [id \in Ids |-> NoRequest] /\ byCode' = [code \in Codes |-> NoId]
      /\ log' = NoLog /\ proc' = [h \in Handlers |-> Free]
      /\ UNCHANGED <<now, issued>>
  BY <1>0, ServerAssumption DEF Restart, TypeOK
<1>2. /\ psaOf' = [root \in Addrs |-> None]
      /\ grantOf' = [root \in Addrs |-> [agent \in Agents |-> None]]
      /\ byAgent' = [agent \in Agents |-> None]
      /\ byGrantS256' = {} /\ revoked' = {}
  BY DEF Restart, TenantsLost
<1>3. \A id \in Ids : ~ Known(id)'
  BY <1>1 DEF Known
<1>4. TypeOK'
  <2>1. proc' \in [Handlers -> LocalStates]
    BY <1>1, FreeTyped
  <2>2. StoreTypeOK'
    BY <1>0, <1>1 DEF TypeOK, StoreTypeOK
  <2>3. TenantsTypeOK'
    BY <1>2 DEF TenantsTypeOK
  <2>4. log' \in [Addrs -> [Agents -> Seq(Entries)]]
    BY <1>1 DEF NoLog
  <2> QED
    BY <2>1, <2>2, <2>3, <2>4, <1>0, <1>1 DEF TypeOK
<1>5. Tenancy'
  BY <1>2, DocumentsAssumption DEF Tenancy, OnePersonPerAgent
<1>6. RequestsOwned'
  BY <1>1, <1>3 DEF RequestsOwned
<1>7. HandlersHold'
  BY <1>1, FreeTyped DEF HandlersHold, Holds, Free
<1>8. TokensGood'
  <2> SUFFICES ASSUME NEW n \in DOMAIN issued
               PROVE  (/\ ChainGood(issued[n]) /\ EnvelopeGood(issued[n])
                       /\ \E boot \in 1..psBoot : issued[n].key = IssuerKeys[boot]
                       /\ issued[n].key = IssuerKey => Consented(issued[n]))'
    BY <1>1 DEF TokensGood
  <2>1. PICK boot \in 1..psBoot : issued[n].key = IssuerKeys[boot]
    BY <1>0 DEF TokensGood
  <2>2. boot \in 1..MaxBoots /\ boot \in 1..psBoot' /\ boot # psBoot'
    BY <1>0, <1>1, ServerAssumption DEF TypeOK
  <2>3. issued'[n].key # IssuerKey'
    BY <1>1, <2>1, <2>2, ServerAssumption DEF IssuerKey
  <2>4. (ChainGood(issued[n]) /\ EnvelopeGood(issued[n]))'
    BY <1>0, <1>1 DEF TokensGood, ChainGood, EnvelopeGood
  <2> QED
    BY <2>1, <2>2, <2>3, <2>4, <1>1
<1> QED
  BY <1>4, <1>5, <1>6, <1>7, <1>8 DEF IInv

LEMMA StutterStep == ASSUME IInv, UNCHANGED vars PROVE IInv'
<1> USE DEF vars, stores, storeVars, tenantVars
<1>1. TypeOK'
  BY DEF IInv, TypeOK, StoreTypeOK, TenantsTypeOK
<1>2. Grow /\ Tenancy' /\ RequestsOwned'
  BY StandStill
<1> QED
  BY <1>1, <1>2, Assemble

LEMMA ServeKeeps == ASSUME IInv, Serve, UNCHANGED psBoot PROVE IInv'
BY OnboardStep, EnrollStep, TokenStep, TokenCreateStep, PollStep, ApprovePageStep,
   ApproveElevatedStep, OnboardCommitStep, EnrollCommitStep, LogStep, ReadStateStep,
   MintStep, IssueStep, ClickLookupStep, VerifyLookupStep, SetSigStep, ApproveStep,
   OutsideStep DEF Serve

THEOREM Invariance == Spec => []IInv
<1>1. IInv /\ [Next]_vars => IInv'
  BY ServeKeeps, RestartStep, StutterStep DEF Next
<1> QED
  BY InitGood, <1>1, PTL DEF Spec

-----------------------------------------------------------------------------
\* The handlers keep every store, every local variable and every token well
\* typed, across interleavings and restarts (server.go:92-245).
THEOREM PersonServerTypeCorrect == Spec => []TypeOK
<1>1. IInv => TypeOK
  BY DEF IInv
<1> QED
  BY Invariance, <1>1, PTL

\* However enrolments race, an agent acts for one person only, who has signed
\* the grant it is held under (tenants.go:108-124; server.go:247-275).
THEOREM OnlyOnePersonPerAgent == Spec => []OnePersonPerAgent
<1>1. IInv => OnePersonPerAgent
  BY DEF IInv, Tenancy
<1> QED
  BY Invariance, <1>1, PTL

\* I1: every token hangs from one person's key (server.go:92-107, 247-275).
THEOREM EveryTokenChainsToRoot == Spec => []TokenChainsToRoot
<1>1. IInv => TokenChainsToRoot
  BY DEF IInv, TokensGood, ChainGood, TokenChainsToRoot, Tokens, AddrEq
<1> QED
  BY Invariance, <1>1, PTL

\* poll never dereferences a missing tenant or grant (server.go:185-188).
THEOREM EveryMintHasTenantAndGrant == Spec => []MintHasTenantAndGrant
<1>1. IInv => MintHasTenantAndGrant
  BY DEF IInv, HandlersHold, Holds, MintHasTenantAndGrant, At
<1> QED
  BY Invariance, <1>1, PTL

\* No token without the person's decision on that very request
\* (server.go:170-194).
THEOREM EveryTokenFollowsConsent == Spec => []TokenFollowsConsent
<1>1. IInv => TokenFollowsConsent
  BY DEF IInv, TokensGood, Consented, TokenFollowsConsent, Tokens
<1> QED
  BY Invariance, <1>1, PTL

\* I1 and I3: every token is within the cap that the root of its PSA signed,
\* and above the threshold that root signed, where it is written in decimal,
\* carries that root's signature over the token's own request, whatever the
\* codes (server.go:145, 196-216).
THEOREM EveryTokenWithinEnvelope == Spec => []TokenWithinEnvelope
<1>1. IInv => TokenWithinEnvelope
  <2> SUFFICES ASSUME IInv, NEW t \in Tokens, t.ask.amount.kind # "absent"
               PROVE  /\ t.ask.amount.kind = "wei"
                      /\ t.ask.amount.wei <= t.psa.scope.cap.wei
                      /\ (/\ t.psa.scope.stepUpAbove.wei > 0
                          /\ t.ask.amount.wei > t.psa.scope.stepUpAbove.wei
                          /\ t.psa.scope.stepUpAbove.kind # "hex") =>
                           /\ t.stepUp # NoSig
                           /\ VerifyRootSig(t.psa.root, t.stepUp.digest, t.stepUp.sig)
                           /\ t.stepUp.digest.id = t.id
                           /\ t.stepUp.digest.agent = t.agent
                           /\ t.stepUp.digest.ask = t.ask
    BY DEF TokenWithinEnvelope, HashedScope, Hashed
  <2>1. EnvelopeGood(t)
    BY DEF IInv, TokensGood, Tokens
  <2>2. t.psa.scope \in Scope
    <3>1. t \in AuthToken
      BY DEF IInv, TypeOK, Tokens
    <3>. QED BY <3>1, DocumentsAssumption DEF AuthToken
  <2>3. t.ask.amount.kind = "wei" /\ t.ask.amount.wei <= t.psa.scope.cap.wei
    BY <2>1 DEF EnvelopeGood, CheckPaymentEnvelope, BigOrZero
  <2>4. ASSUME t.psa.scope.stepUpAbove.wei > 0, t.psa.scope.stepUpAbove.kind # "hex"
        PROVE  BigOrZero(t.psa.scope.stepUpAbove) = t.psa.scope.stepUpAbove.wei
    BY <2>2, <2>4 DEF BigOrZero, Scope, Amount
  <2>5. ASSUME t.psa.scope.stepUpAbove.wei > 0, t.psa.scope.stepUpAbove.kind # "hex",
               t.ask.amount.wei > t.psa.scope.stepUpAbove.wei
        PROVE  t.stepUp # NoSig
    BY <2>1, <2>4, <2>5 DEF EnvelopeGood, CheckPaymentEnvelope
  <2>6. t.stepUp # NoSig => /\ VerifyRootSig(t.psa.root, t.stepUp.digest, t.stepUp.sig)
                            /\ t.stepUp.digest.id = t.id
                            /\ t.stepUp.digest.agent = t.agent
                            /\ t.stepUp.digest.ask = t.ask
    BY <2>1 DEF EnvelopeGood
  <2> QED
    BY <2>3, <2>5, <2>6
<1> QED
  BY Invariance, <1>1, PTL

\* I3: an elevated approval carries the signature of the person the agent acts
\* for over that request, also where the code has moved to another person's
\* request between the two look-ups (server.go:218-245).
THEOREM EveryStepUpByOwner == Spec => []StepUpByOwner
<1>1. IInv => StepUpByOwner
  <2> SUFFICES ASSUME IInv, NEW id \in Ids, Known(id), byID[id].tier = "elevated",
                      byID[id].state = "approved"
               PROVE  /\ Binds(byID[id].stepUpSig, id)
                      /\ byID[id].stepUpSig.by = Canon[byAgent[byID[id].agent]]
    BY DEF StepUpByOwner
  <2>1. byID[id].stepUpSig # NoSig /\ SigFor(byID[id].stepUpSig, id)
    BY DEF IInv, RequestsOwned
  <2> QED
    BY <2>1 DEF SigFor, Binds, ApprovalDigest
<1> QED
  BY Invariance, <1>1, PTL

-----------------------------------------------------------------------------
\* What the wallet writes and what the servers make of it.
PSAFields == {"root", "issuer", "keys", "scope", "nbf", "naf", "nonce", "sig"}
GrantFields == {"root", "agent", "thumb", "pubKey", "mission", "nbf", "naf", "nonce", "sig"}

\* sign-psa: a PSA that a root can sign passes VerifyPSA while it is in its window
\* and not revoked, unless its file names somebody else's address; filling in
\* the root changes none of the fields that were signed, in whatever spelling
\* (devtool/main.go:122-138; psa.go:208-239).
THEOREM SignedPSAVerifies ==
  ASSUME NEW r \in Roots, NEW p, DOMAIN p = PSAFields, SignPSA(r, p) \in PSADocs,
         HashableScope(p.scope),
         NEW key \in p.keys, NEW time, InWindow(p, time), NEW revs
  PROVE  VerifyPSA(SignPSA(r, p), p.issuer, key, time, revs)
           <=> /\ p.root = None \/ Canon[p.root] = r
               /\ Live(SignPSA(r, p), revs)
<1> DEFINE root == IF p.root = None THEN FileAddr[r] ELSE p.root
<1>1. PICK d : d = SignPSA(r, p)
  OBVIOUS
<1>2. /\ d.root = root /\ d.issuer = p.issuer /\ d.keys = p.keys /\ d.scope = p.scope
      /\ d.nbf = p.nbf /\ d.naf = p.naf /\ d.nonce = p.nonce
      /\ d.sig = [by |-> r, over |-> PSADigest(FillRoot(r, p))]
  BY <1>1 DEF SignPSA, FillRoot, PSAFields
<1>3. PSADigest(FillRoot(r, p)) = PSADigest(d)
  BY <1>2 DEF PSADigest, FillRoot, PSAFields
<1>4. d.sig # NoSig /\ root \in Addrs
  BY <1>1, <1>2, <1>3, SignatureAssumption, DocumentsAssumption
<1>5. d.sig.over = PSADigest(d) /\ d.sig.by = r
  BY <1>2, <1>3
<1>6. Canon[root] = r <=> p.root = None \/ Canon[p.root] = r
  BY <1>4, FileAddrAssumption
<1>7. VerifyRootSig(d.root, PSADigest(d), d.sig) <=> Canon[root] = r
  BY <1>2, <1>4, <1>5 DEF VerifyRootSig
<1>8. InWindow(d, time)
  BY <1>2 DEF InWindow
<1>. QED BY <1>1, <1>2, <1>6, <1>7, <1>8 DEF VerifyPSA

\* sign-grant --agent: the grant that a root signs for an agent's file passes
\* VerifyAgentGrant for that agent's key under the address it spells, unless
\* the file names somebody else's (devtool/main.go:140-164; psa.go:241-273).
THEOREM SignedGrantVerifies ==
  ASSUME NEW r \in Roots, NEW g, DOMAIN g = GrantFields, NEW file, file # None,
         SignGrant(r, g, file) \in GrantDocs,
         NEW time, InWindow(g, time), NEW revs
  PROVE  LET d == SignGrant(r, g, file) IN
           VerifyAgentGrant(d, d.root, file.id, file.thumb, time, revs)
             <=> /\ g.root = None \/ Canon[g.root] = r
                 /\ Live(d, revs)
<1> DEFINE root == IF g.root = None THEN FileAddr[r] ELSE g.root
           rooted == FillRoot(r, g)
           filled == [rooted EXCEPT !.agent = file.id, !.thumb = file.thumb, !.pubKey = file.x]
<1>1. PICK d : d = SignGrant(r, g, file)
  OBVIOUS
<1>2. d = [filled EXCEPT !.sig = [by |-> r, over |-> AgentGrantDigest(filled)]]
  BY <1>1 DEF SignGrant
<1>3. /\ DOMAIN rooted = GrantFields /\ rooted.root = root /\ rooted.mission = g.mission
      /\ rooted.nbf = g.nbf /\ rooted.naf = g.naf /\ rooted.nonce = g.nonce
  BY DEF FillRoot, GrantFields
<1> HIDE DEF rooted
<1>4. /\ DOMAIN filled = GrantFields /\ filled.root = root /\ filled.mission = g.mission
      /\ filled.nbf = g.nbf /\ filled.naf = g.naf /\ filled.nonce = g.nonce
      /\ filled.agent = file.id /\ filled.thumb = file.thumb
  BY <1>3 DEF GrantFields
<1> HIDE DEF filled
<1>5. /\ d.root = root /\ d.agent = file.id /\ d.thumb = file.thumb /\ d.mission = g.mission
      /\ d.nbf = g.nbf /\ d.naf = g.naf /\ d.nonce = g.nonce
      /\ d.sig = [by |-> r, over |-> AgentGrantDigest(filled)]
  BY <1>2, <1>4 DEF GrantFields
<1>6. AgentGrantDigest(filled) = AgentGrantDigest(d)
  BY <1>4, <1>5 DEF AgentGrantDigest
<1>7. d.sig # NoSig /\ root \in Addrs
  BY <1>1, <1>5, <1>6, SignatureAssumption, DocumentsAssumption
<1>8. d.sig.over = AgentGrantDigest(d) /\ d.sig.by = r
  BY <1>5, <1>6
<1>9. Canon[root] = r <=> g.root = None \/ Canon[g.root] = r
  BY <1>7, FileAddrAssumption
<1>10. VerifyRootSig(d.root, AgentGrantDigest(d), d.sig) <=> Canon[root] = r
  BY <1>5, <1>7, <1>8 DEF VerifyRootSig
<1>11. InWindow(d, time)
  BY <1>5 DEF InWindow
<1>. QED BY <1>1, <1>5, <1>9, <1>10, <1>11 DEF VerifyAgentGrant

\* revoke stops what the same root signed exactly where the document spells
\* its root as the root file does: filled in by sign-psa, or written so
\* (devtool/main.go:196-214; registry.go:21-33).
THEOREM RevocationStopsItsSpelling ==
  ASSUME NEW r \in Roots, NEW p, DOMAIN p = PSAFields
  PROVE  Live(SignPSA(r, p), {Revocation(r, p.nonce)}) <=> p.root \notin {None, FileAddr[r]}
<1>1. /\ SignPSA(r, p).root = IF p.root = None THEN FileAddr[r] ELSE p.root
      /\ SignPSA(r, p).nonce = p.nonce
  BY DEF SignPSA, FillRoot, PSAFields
<1>. QED BY <1>1 DEF Live, Revocation
=============================================================================
