----------------------------- MODULE PersonServer ----------------------------
(***************************************************************************)
(* internal/server: the HTTP handlers of the person server, running        *)
(* concurrently over the tenants, the consent store and the mission logs.  *)
(*                                                                         *)
(* proc[h] is what handler goroutine h holds in its local variables        *)
(* between two critical sections; h is free when it is Free.  A handler    *)
(* that answers with an error returns to Free and, having changed nothing, *)
(* is no step where it changes nothing from the start.  Consecutive reads  *)
(* are one step where at most one of them can change under the handler's   *)
(* feet (an agent's binding, a request's tier never do).                   *)
(*                                                                         *)
(* Not locked in the code: Request.State and Request.StepUpSig in poll and *)
(* finish (ReadState, Mint) and Tenant.PSA wherever it is read or          *)
(* replaced.  A racing read of the two-word State returns the old value,   *)
(* the new one, or a mixture that is none of the four.                     *)
(***************************************************************************)
EXTENDS ConsentStore, Tenants, Wallet, Envelope, Sequences, FiniteSets

CONSTANTS Handlers,    \* goroutines serving requests
          IssuerKeys,  \* boot -> thumbprint of the issuer key drawn at that boot
          MaxBoots,    \* bound on the number of boots
          AgentKeys,   \* thumbprints of the keys agents sign requests with
          MaxTime,     \* bound on the clock
          MaxLog,      \* bound on the length of a chain that takes an enrolment
          MaxTokens    \* bound on the tokens issued

ASSUME ServerAssumption == /\ MaxTime \in Nat /\ MaxLog \in Nat /\ MaxTokens \in Nat
                           /\ MaxBoots \in Nat \ {0}
                           /\ \A m, n \in 1..MaxBoots :
                                IssuerKeys[m] = IssuerKeys[n] => m = n
                           /\ NoSig \notin [digest : Digest, sig : Sig]

VARIABLES log,     \* root -> agent -> the mission log's chain
          proc,    \* handler -> its local state
          psBoot,  \* which boot of psd is running
          issued   \* the tokens handed out, in order (jti = position)
stores == <<storeVars, tenantVars, log, issued>>
vars == <<stores, proc, psBoot>>

IssuerKey == IssuerKeys[psBoot]
Tokens == {issued[n] : n \in DOMAIN issued}

Free == [pc |-> "free"]
Entry(kind, id) == [kind |-> kind, id |-> id]

NoLog == [root \in Addrs |-> [agent \in Agents |-> <<>>]]
Init == /\ StoreInit
        /\ TenantsInit
        /\ log = NoLog
        /\ proc = [h \in Handlers |-> Free]
        /\ psBoot = 1
        /\ issued = <<>>

Goto(h, next) == proc' = [proc EXCEPT ![h] = next]
At(h, pc) == proc[h].pc = pc
Append1(root, agent, entry) ==
  log' = [log EXCEPT ![root][agent] = Append(@, entry)]

-----------------------------------------------------------------------------
\* POST /psa.  VerifyAndOnboard judges the PSA, then the store admits it.
Onboard(h, p) ==
  /\ At(h, "free")
  /\ VerifyPSA(p, Issuer, IssuerKey, now, revoked)
  /\ Goto(h, [pc |-> "onboard", psa |-> p])
  /\ UNCHANGED stores

OnboardCommit(h) ==
  /\ At(h, "onboard")
  /\ OnboardTenant(proc[h].psa)
  /\ Goto(h, Free)
  /\ UNCHANGED <<storeVars, log, issued>>

\* POST /agents.  The grant's root must have a tenant: its PSA is not looked
\* at again.
Enroll(h, agent, key, g) ==
  /\ At(h, "free")
  /\ psaOf[g.root] # None
  /\ Len(log[g.root][agent]) < MaxLog
  /\ VerifyAgentGrant(g, g.root, agent, key, now, revoked)
  /\ Goto(h, [pc |-> "enroll", agent |-> agent, tenant |-> g.root, grant |-> g])
  /\ UNCHANGED stores

EnrollCommit(h) ==
  LET p == proc[h] IN
    /\ At(h, "enroll")
    /\ \/ /\ EnrollAgent(p.agent, p.tenant, p.grant)
          /\ Goto(h, [pc |-> "logEnroll", agent |-> p.agent, tenant |-> p.tenant])
       \/ /\ BoundElsewhere(p.agent, p.tenant)
          /\ Goto(h, Free)
          /\ UNCHANGED tenantVars
    /\ UNCHANGED <<storeVars, log, issued>>

EnrollLog(h) ==
  LET p == proc[h] IN
    /\ At(h, "logEnroll")
    /\ Append1(p.tenant, p.agent, Entry("agent_enrolled", NoId))
    /\ Goto(h, Free)
    /\ UNCHANGED <<storeVars, tenantVars, issued>>

\* POST /token: tenancy through the agent, then the agent key against the
\* grant, then the mission.
Token(h, agent, key, ask) ==
  LET root == byAgent[agent] IN
    /\ At(h, "free")
    /\ root # None
    /\ grantOf[root][agent] # None
    /\ grantOf[root][agent].thumb = key
    /\ grantOf[root][agent].mission \in Missions
    /\ Goto(h, [pc |-> "create", agent |-> agent, tenant |-> root, ask |-> ask,
                mission |-> grantOf[root][agent].mission])
    /\ UNCHANGED stores

\* The tier is fixed by the PSA of this moment.  AutoApprovable is FALSE in
\* v0, so the handler always goes on to a 202.  The code may be one that
\* another request has: newCode draws it without a look at the store.
TokenCreate(h, id, code) ==
  LET p == proc[h] IN
    /\ At(h, "create")
    /\ \A t \in Tokens : t.id # id
    /\ StoreCreate(id, NewRequest(code, p.agent, p.ask, p.mission,
                                  TierFor(psaOf[p.tenant].scope, p.ask.amount)))
    /\ Goto(h, [pc |-> "logRequest", agent |-> p.agent, tenant |-> p.tenant,
                id |-> id])
    /\ UNCHANGED <<now, tenantVars, log, issued>>

TokenLog(h) ==
  LET p == proc[h] IN
    /\ At(h, "logRequest")
    /\ Append1(p.tenant, p.agent, Entry("token_request", p.id))
    /\ Goto(h, Free)
    /\ UNCHANGED <<storeVars, tenantVars, issued>>

\* An agent learns a request's id, and a person its code, from the 202.
AnnouncedAtOnce(id) == Known(id)
Announced(id) ==
  Known(id) /\ \A h \in Handlers : ~ (At(h, "logRequest") /\ proc[h].id = id)

-----------------------------------------------------------------------------
\* GET /pending/{id}: Poll marks expiry before the handler knows whether the
\* request is this agent's, and returns a pointer into the store.
Poll(h, agent, id) ==
  /\ At(h, "free")
  /\ Announced(id)
  /\ StorePoll(id)
  /\ IF byID[id].agent = agent
       THEN Goto(h, [pc |-> "polled", id |-> id, state |-> byID'[id].state,
                     sig |-> byID[id].stepUpSig])
       ELSE UNCHANGED proc
  /\ UNCHANGED <<now, byCode, tenantVars, log, issued>>

\* What an unlocked read of State may return once the lock is released.
RacyState(old, new) == {old, new} \cup (IF old = new THEN {} ELSE {"torn"})

\* The switch of poll.  Only an approved request goes on; ByAgent and Grant
\* are asked again, their errors ignored.
ReadStateNotPending(h) ==
  LET p == proc[h]
      agent == byID[p.id].agent
      root == byAgent[agent]
  IN /\ At(h, "polled")
     /\ \E seen \in RacyState(p.state, byID[p.id].state) :
          IF seen # "pending"
            THEN Goto(h, [pc |-> "mint", id |-> p.id, agent |-> agent,
                          tenant |-> root, grant |-> grantOf[root][agent],
                          sig |-> p.sig])
            ELSE Goto(h, Free)
     /\ UNCHANGED stores
ReadState(h) ==
  LET p == proc[h]
      agent == byID[p.id].agent
      root == byAgent[agent]
  IN /\ At(h, "polled")
     /\ \E seen \in RacyState(p.state, byID[p.id].state) :
          IF seen = "approved"
            THEN Goto(h, [pc |-> "mint", id |-> p.id, agent |-> agent,
                          tenant |-> root, grant |-> grantOf[root][agent],
                          sig |-> p.sig])
            ELSE Goto(h, Free)
     /\ UNCHANGED stores

\* finish and tokens.Mint: the tenant's PSA of this moment is the envelope.
\* Neither its window, nor the grant's, nor the registry is consulted.
StepUp(id, sig) ==
  IF sig = NoSig THEN NoSig
  ELSE [digest |-> ApprovalDigest(id, byID[id]), sig |-> sig]

\* The claims, and what no claim carries but the properties speak of: the id
\* of the request and all of its ask beyond the resource.
MintedToken(p, psa, sig) ==
  [id |-> p.id, key |-> IssuerKey, iat |-> now, agent |-> p.agent,
   cnf |-> p.grant.pubKey, psa |-> psa, grant |-> p.grant,
   ask |-> byID[p.id].ask, mission |-> p.grant.mission,
   stepUp |-> StepUp(p.id, sig)]

Mint(h) ==
  LET p == proc[h]
      psa == psaOf[p.tenant]
  IN /\ At(h, "mint")
     /\ \E sig \in {p.sig, byID[p.id].stepUpSig} :
          IF /\ IssuerKey \in psa.keys
             /\ CheckPaymentEnvelope(psa.scope, byID[p.id].ask.amount, sig # NoSig)
            THEN Goto(h, [pc |-> "issue", tenant |-> p.tenant,
                          token |-> MintedToken(p, psa, sig)])
            ELSE Goto(h, Free)
     /\ UNCHANGED stores

Issue(h) ==
  LET p == proc[h] IN
    /\ At(h, "issue")
    /\ Len(issued) < MaxTokens
    /\ Append1(p.tenant, p.token.agent, Entry("token_issued", p.token.id))
    /\ issued' = Append(issued, p.token)
    /\ Goto(h, Free)
    /\ UNCHANGED <<storeVars, tenantVars>>

-----------------------------------------------------------------------------
\* GET /approve/{code}: an elevated request is only described; for a routine
\* one the store looks the code up again and commits in a third step.
ApprovePage(h, code) ==
  /\ At(h, "free")
  /\ \E id \in Ids : Lookup(code, id) /\ Announced(id) /\ byID[id].tier = "routine"
  /\ Goto(h, [pc |-> "click", code |-> code])
  /\ UNCHANGED stores

ClickLookup(h) ==
  /\ At(h, "click")
  /\ \E id \in Ids :
       /\ Lookup(proc[h].code, id)
       /\ IF byID[id].tier = "routine"
            THEN Goto(h, [pc |-> "approve", id |-> id])
            ELSE Goto(h, Free)
  /\ UNCHANGED stores

\* POST /approve/{code}/signature: the root of the requesting agent's tenant,
\* then the store looks the code up again to check the signature.
ApproveElevated(h, code, sig) ==
  /\ At(h, "free")
  /\ \E id \in Ids :
       /\ Lookup(code, id) /\ Announced(id)
       /\ byAgent[byID[id].agent] # None
       /\ Goto(h, [pc |-> "verify", code |-> code, sig |-> sig,
                   tenant |-> byAgent[byID[id].agent]])
  /\ UNCHANGED stores

VerifyAnyDigest(h) ==
  LET p == proc[h] IN
    /\ At(h, "verify")
    /\ \E id \in Ids :
         /\ Lookup(p.code, id)
         /\ IF /\ byID[id].tier = "elevated"
               /\ p.sig.by = Canon[p.tenant]
              THEN Goto(h, [pc |-> "setSig", id |-> id, sig |-> p.sig])
              ELSE Goto(h, Free)
    /\ UNCHANGED stores
VerifyLookup(h) ==
  LET p == proc[h] IN
    /\ At(h, "verify")
    /\ \E id \in Ids :
         /\ Lookup(p.code, id)
         /\ IF /\ byID[id].tier = "elevated"
               /\ VerifyRootSig(p.tenant, ApprovalDigest(id, byID[id]), p.sig)
              THEN Goto(h, [pc |-> "setSig", id |-> id, sig |-> p.sig])
              ELSE Goto(h, Free)
    /\ UNCHANGED stores

SetSig(h) ==
  /\ At(h, "setSig")
  /\ StoreStepUpSig(proc[h].id, proc[h].sig)
  /\ Goto(h, [pc |-> "approve", id |-> proc[h].id])
  /\ UNCHANGED <<now, byCode, tenantVars, log, issued>>

Approve(h) ==
  /\ At(h, "approve")
  /\ Transition(proc[h].id, "approved")
  /\ Goto(h, Free)
  /\ UNCHANGED <<now, byCode, tenantVars, log, issued>>

-----------------------------------------------------------------------------
\* The root revokes one of its documents, in its own time.
Revoke(handle) ==
  /\ handle \notin revoked
  /\ RevokeHandle(handle[1], handle[2])
  /\ UNCHANGED <<storeVars, log, proc, issued>>

Tick ==
  /\ now < MaxTime
  /\ now' = now + 1
  /\ UNCHANGED <<byID, byCode, tenantVars, log, proc, issued>>

\* psd stops and starts again: every store is in memory, the registry
\* included, and the issuer key is drawn anew; its connections break off.
Restart ==
  /\ psBoot < MaxBoots
  /\ psBoot' = psBoot + 1
  /\ byID' = [id \in Ids |-> NoRequest]
  /\ byCode' = [code \in Codes |-> NoId]
  /\ TenantsLost
  /\ log' = NoLog
  /\ proc' = [h \in Handlers |-> Free]
  /\ UNCHANGED <<now, issued>>

\* A root may sign the digest of any announced request, its own or not.  Ids
\* are 128 random bits: nobody has signed for a request yet to be made.
SomeSignature ==
  {SignApproval(r, ApprovalDigest(id, byID[id])) :
     r \in Roots, id \in {i \in Ids : Announced(i)}}

Serve ==
  \/ \E h \in Handlers, p \in PSADocs : Onboard(h, p)
  \/ \E h \in Handlers, agent \in Agents, key \in AgentKeys, g \in GrantDocs :
       Enroll(h, agent, key, g)
  \/ \E h \in Handlers, agent \in Agents, key \in AgentKeys, ask \in Asks :
       Token(h, agent, key, ask)
  \/ \E h \in Handlers, id \in Ids, code \in Codes : TokenCreate(h, id, code)
  \/ \E h \in Handlers, agent \in Agents, id \in Ids : Poll(h, agent, id)
  \/ \E h \in Handlers, code \in Codes : ApprovePage(h, code)
  \/ \E h \in Handlers, code \in Codes, sig \in SomeSignature :
       ApproveElevated(h, code, sig)
  \/ \E h \in Handlers :
       \/ OnboardCommit(h) \/ EnrollCommit(h) \/ EnrollLog(h) \/ TokenLog(h)
       \/ ReadState(h) \/ Mint(h) \/ Issue(h)
       \/ ClickLookup(h) \/ VerifyLookup(h) \/ SetSig(h) \/ Approve(h)
  \/ \E handle \in Revocable : Revoke(handle)
  \/ Tick

Next == \/ Serve /\ UNCHANGED psBoot
        \/ Restart

Spec == Init /\ [][Next]_vars

-----------------------------------------------------------------------------
Entries == [kind : {"agent_enrolled", "token_request", "token_issued"},
            id : Ids \cup {NoId}]
AuthToken ==
  [id : Ids, key : {IssuerKeys[n] : n \in 1..MaxBoots}, iat : Nat, agent : Agents,
   cnf : {g.pubKey : g \in GrantDocs}, psa : PSADocs, grant : GrantDocs,
   ask : Asks, mission : {g.mission : g \in GrantDocs},
   stepUp : [digest : Digest, sig : Sig] \cup {NoSig}]

LocalStates ==
  [pc : {"free"}]
  \cup [pc : {"onboard"}, psa : PSADocs]
  \cup [pc : {"enroll"}, agent : Agents, tenant : Addrs, grant : GrantDocs]
  \cup [pc : {"logEnroll"}, agent : Agents, tenant : Addrs]
  \cup [pc : {"create"}, agent : Agents, tenant : Addrs, ask : Asks, mission : Missions]
  \cup [pc : {"logRequest"}, agent : Agents, tenant : Addrs, id : Ids]
  \cup [pc : {"polled"}, id : Ids, state : States, sig : Sig]
  \cup [pc : {"mint"}, id : Ids, agent : Agents, tenant : Addrs \cup {None},
        grant : GrantDocs \cup {None}, sig : Sig]
  \cup [pc : {"issue"}, tenant : Addrs, token : AuthToken]
  \cup [pc : {"click"}, code : Codes]
  \cup [pc : {"verify"}, code : Codes, sig : Sig, tenant : Addrs]
  \cup [pc : {"setSig"}, id : Ids, sig : Sig]
  \cup [pc : {"approve"}, id : Ids]

TypeOK ==
  /\ StoreTypeOK
  /\ TenantsTypeOK
  /\ log \in [Addrs -> [Agents -> Seq(Entries)]]
  /\ proc \in [Handlers -> LocalStates]
  /\ psBoot \in 1..MaxBoots
  /\ issued \in Seq(AuthToken)

\* I1: every token handed out hangs from one person's key: a PSA for this
\* issuer and a grant for this agent, both signed by the root they both name
\* (server.go:92-107, 247-275; tokens.go:125-171).
TokenChainsToRoot ==
  \A t \in Tokens :
    /\ t.psa.issuer = Issuer /\ t.key \in t.psa.keys
    /\ VerifyRootSig(t.psa.root, PSADigest(t.psa), t.psa.sig)
    /\ VerifyRootSig(t.grant.root, AgentGrantDigest(t.grant), t.grant.sig)
    /\ AddrEq(t.grant.root, t.psa.root)
    /\ t.grant.agent = t.agent

\* I1 and I3 at the mint: whatever PSA a token ends up under, even one that
\* replaced the PSA its request was tiered by, what the request asks is within
\* the cap its root signed; and above the threshold its root signed, where that
\* is written in decimal, the root has signed for that very request: its id,
\* its agent, its ask (server.go:145, 196-216; tokens.go:173-189).  The id and
\* the ask are history here: no claim of the token carries them, so it is the
\* server, and not a verifier, that can tell.
TokenWithinEnvelope ==
  \A t \in Tokens :
    LET signed == HashedScope(t.psa.scope)
        aboveThreshold == /\ signed.stepUpAbove > 0
                          /\ t.ask.amount.wei > signed.stepUpAbove
                          /\ t.psa.scope.stepUpAbove.kind # "hex"
    IN \/ t.ask.amount.kind = "absent"
       \/ /\ t.ask.amount.kind = "wei"
          /\ t.ask.amount.wei <= signed.cap
          /\ aboveThreshold =>
               /\ t.stepUp # NoSig
               /\ VerifyRootSig(t.psa.root, t.stepUp.digest, t.stepUp.sig)
               /\ t.stepUp.digest.id = t.id
               /\ t.stepUp.digest.agent = t.agent
               /\ t.stepUp.digest.ask = t.ask

\* No token without the person's decision on that very request, for the agent
\* that made it, about what it asked, as long as the server that minted it
\* remembers (server.go:170-194).
TokenFollowsConsent ==
  \A t \in Tokens : t.key = IssuerKey =>
    /\ byID[t.id].state = "approved"
    /\ byID[t.id].agent = t.agent
    /\ byID[t.id].ask = t.ask

\* An agent's chain accounts for every token: its request stands in the log
\* before it, on the same tenant's chain (server.go:153-154, 214-215).
LogAccountsForTokens ==
  \A t \in Tokens : t.key = IssuerKey =>
    \E i, j \in DOMAIN log[t.grant.root][t.agent] :
      /\ i < j
      /\ log[t.grant.root][t.agent][i] = Entry("token_request", t.id)
      /\ log[t.grant.root][t.agent][j] = Entry("token_issued", t.id)

\* An agent acts for exactly one person: however enrolments and renewals race,
\* only the tenant it is bound to holds a grant for it, and that grant is for
\* this agent and signed by this tenant's root (tenants.go:108-124;
\* server.go:247-275).
OnePersonPerAgent ==
  \A agent \in Agents, root \in Addrs :
    LET g == grantOf[root][agent] IN
      /\ g # None <=> byAgent[agent] = root
      /\ g # None => /\ g.root = root /\ g.agent = agent
                     /\ VerifyRootSig(root, AgentGrantDigest(g), g.sig)

\* poll ignores the errors of ByAgent and Grant: no request ever reaches the
\* mint without the tenant and the grant that would be dereferenced there
\* (server.go:185-188).
MintHasTenantAndGrant ==
  \A h \in Handlers : At(h, "mint") =>
    /\ proc[h].tenant # None /\ proc[h].grant # None
    /\ psaOf[proc[h].tenant] # None

\* An elevated approval carries the signature of the person the agent acts
\* for, over that request: neither another tenant's root nor a signature for
\* another request will do, though the code may have moved to another
\* person's request between the two look-ups (server.go:218-245).
StepUpByOwner ==
  \A id \in Ids :
    Known(id) /\ byID[id].tier = "elevated" /\ byID[id].state = "approved"
      => /\ Binds(byID[id].stepUpSig, id)
         /\ byID[id].stepUpSig.by = Canon[byAgent[byID[id].agent]]

\* Exit is final: once a document is revoked, is not the one in force and is
\* not already past its check in some handler, it never comes into force
\* again, however often it is posted, until psd restarts and forgets the
\* revocation (psa.go:227-235, 262-269; psd/main.go:53).
OutPSA(p) == /\ ~ Live(p, revoked)
             /\ psaOf[p.root] # p
             /\ \A h \in Handlers : At(h, "onboard") => proc[h].psa # p
OutGrant(g) == /\ ~ Live(g, revoked)
               /\ grantOf[g.root][g.agent] # g
               /\ \A h \in Handlers : At(h, "enroll") => proc[h].grant # g
ExitIsFinal ==
  [][ psBoot' = psBoot => /\ \A p \in PSADocs : OutPSA(p) => OutPSA(p)'
                          /\ \A g \in GrantDocs : OutGrant(g) => OutGrant(g)' ]_vars

\* The handlers together still implement ConsentDecision, from one start of
\* psd to the next: whatever replaces PSAs, renews grants or polls while a
\* request is open, it is decided once, in its window, and only a restart
\* takes a decision back (consent.go:137-148, 197-209; server.go:170-245).
DecisionBetweenRestarts ==
  /\ Decision!Init
  /\ [][ psBoot' = psBoot => [Decision!Next]_(Decision!vars) ]_vars

-----------------------------------------------------------------------------
\* What documents and tests say and the code does not do.

\* TESTING.md:161-162 (Demo C): once a tenant's PSA is revoked, the next mint under
\* it fails ("psa: revoked").  finish and Mint never ask the registry.
RevokedPSAMintsNothing ==
  [][ \A h \in Handlers :
        At(h, "mint") /\ ~ Live(psaOf[proc[h].tenant], revoked)
          => ~ At(h, "issue")' ]_vars

\* consent_test.go:337-338: no single consent is spent twice.  Every poll of
\* an approved request mints another token for it.
ConsentSpentOnce ==
  \A m, n \in DOMAIN issued : issued[m].id = issued[n].id => m = n

\* consent_test.go:209-226: an approval is good for the one mission it names.
\* Mint takes the mission from the grant in force at the poll, which may have
\* been renewed since the person signed.
StepUpCoversMission ==
  \A t \in Tokens : t.stepUp # NoSig => t.stepUp.digest.mission = t.mission

\* consent.go:246-247: a PSA may name its root in any casing and still
\* onboard.  Its revocation is kept under one spelling only: the same person's
\* PSA of the same nonce is admitted under another.
RevokedNonceStaysOut ==
  [][ \A h \in Handlers : ~ At(h, "onboard") /\ At(h, "onboard")' =>
        \A handle \in revoked :
          ~ /\ AddrEq(handle[1], proc'[h].psa.root)
            /\ handle[2] = proc'[h].psa.nonce ]_vars
=============================================================================
