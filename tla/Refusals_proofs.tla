--------------------------- MODULE Refusals_proofs ---------------------------
(***************************************************************************)
(* What an honest person server issues is refused for a named cause only.  *)
(*                                                                         *)
(* Three things must hold for that: the grant of a token can be found as   *)
(* long as psd runs (Found), a request verifies a token that psd issued    *)
(* (Honest), and the key it learnt for the PSA's check is the one that     *)
(* signed the token, unless psd has restarted since (SameKey).             *)
(***************************************************************************)
EXTENDS Chain_proofs

\* Every grant that is in force, or on its way into a token of this boot, is
\* served by its content hash.
Found ==
  /\ \A root \in Addrs, agent \in Agents :
       grantOf[root][agent] # None => grantOf[root][agent] \in byGrantS256
  /\ \A h \in Handlers :
       /\ At(h, "mint") => proc[h].grant \in byGrantS256
       /\ At(h, "issue") => proc[h].token.grant \in byGrantS256
  /\ \A n \in DOMAIN issued :
       issued[n].key = IssuerKey => issued[n].grant \in byGrantS256

LEMMA HashesStay == ASSUME Serve PROVE byGrantS256 \subseteq byGrantS256'
BY DEF Serve, stores, storeVars, tenantVars, Onboard, OnboardCommit, OnboardTenant, Enroll,
       EnrollCommit, EnrollAgent, EnrollLog, Token, TokenCreate, TokenLog, Poll, ReadState,
       Mint, Issue, ApprovePage, ClickLookup, ApproveElevated, VerifyLookup, SetSig, Approve,
       Revoke, RevokeHandle, Tick

LEMMA GrantsFoundStep ==
  ASSUME TypeOK, Found, Serve, NEW root \in Addrs, NEW agent \in Agents,
         grantOf'[root][agent] # None
  PROVE  grantOf'[root][agent] \in byGrantS256'
<1>0. byGrantS256 \subseteq byGrantS256' /\ grantOf \in [Addrs -> [Agents -> GrantDocs \cup {None}]]
  BY HashesStay DEF TypeOK, TenantsTypeOK
<1>1. CASE UNCHANGED grantOf
  BY <1>0, <1>1 DEF Found
<1>2. ASSUME NEW h \in Handlers, EnrollCommit(h) PROVE grantOf'[root][agent] \in byGrantS256'
  <2>1. CASE UNCHANGED tenantVars
    BY <1>0, <2>1 DEF Found, tenantVars
  <2>2. CASE EnrollAgent(proc[h].agent, proc[h].tenant, proc[h].grant)
    <3>1. \/ grantOf'[root][agent] = proc[h].grant
          \/ grantOf'[root][agent] = grantOf[root][agent]
      BY <1>0, <2>2 DEF EnrollAgent
    <3>2. proc[h].grant \in byGrantS256'
      BY <2>2 DEF EnrollAgent
    <3>. QED BY <1>0, <3>1, <3>2 DEF Found
  <2>. QED BY <1>2, <2>1, <2>2 DEF EnrollCommit
<1>. QED BY <1>1, <1>2, GrantInForce

LEMMA HandlersFoundStep ==
  ASSUME IInv, Found, Serve, UNCHANGED psBoot, NEW h \in Handlers
  PROVE  (/\ At(h, "mint") => proc[h].grant \in byGrantS256
          /\ At(h, "issue") => proc[h].token.grant \in byGrantS256)'
<1> DEFINE p == proc[h]
<1>0. /\ TypeOK /\ p \in LocalStates /\ Holds(p)
      /\ byGrantS256 \subseteq byGrantS256'
      /\ proc \in [Handlers -> LocalStates] /\ proc' \in [Handlers -> LocalStates]
  BY HashesStay, ServeKeeps DEF IInv, TypeOK, HandlersHold
<1>1. CASE proc'[h] = p
  BY <1>0, <1>1 DEF Found, At
<1>2. CASE ReadState(h)
  <2>1. PICK id \in Ids : id = p.id
    BY <1>0, <1>2, LocalFields DEF ReadState, At
  <2>2. Known(id)
    BY <2>1, <1>0, <1>2 DEF ReadState, At, Holds
  <2>3. byID[id].agent \in Agents
    BY <2>2, <1>0, RequestTyped DEF TypeOK
  <2>4. PICK agent \in Agents : agent = byID[id].agent
    BY <2>3
  <2>5. PICK root : root = byAgent[agent]
    OBVIOUS
  <2>6. \/ proc'[h] = Free
        \/ /\ proc'[h].pc = "mint"
           /\ proc'[h].tenant = root /\ proc'[h].grant = grantOf[root][agent]
    BY <2>1, <2>4, <2>5, <1>0, <1>2 DEF ReadState, Goto
  <2>7. Holds(proc[h])'
    BY ServeKeeps DEF IInv, HandlersHold
  <2>8. proc'[h].pc = "mint" => proc'[h].tenant # None /\ proc'[h].grant # None
    BY <2>7 DEF Holds
  <2>9. root \in Addrs \cup {None}
    BY <2>5, <1>0 DEF TypeOK, TenantsTypeOK
  <2>. QED BY <2>6, <2>8, <2>9, <1>0 DEF Found, At, Free
<1>3. CASE Mint(h)
  <2>1. \/ proc'[h] = Free
        \/ /\ proc'[h].pc = "issue" /\ proc'[h].token.grant = p.grant
    BY <1>0, <1>3 DEF Mint, Goto, MintedToken
  <2>2. p.grant \in byGrantS256
    BY <1>3 DEF Found, Mint
  <2>. QED BY <2>1, <2>2, <1>0 DEF At, Free
<1>4. CASE TokenLog(h) \/ Issue(h)
  <2>1. proc'[h] = Free
    BY <1>0, <1>4 DEF TokenLog, Issue, Goto
  <2>. QED BY <2>1 DEF At, Free
<1>5. ASSUME NEW id \in Ids, NEW code \in Codes, TokenCreate(h, id, code)
      PROVE  proc'[h].pc = "logRequest"
  BY <1>0, <1>5 DEF TokenCreate, Goto
<1>6. ASSUME NEW agent \in Agents, NEW id \in Ids, Poll(h, agent, id)
      PROVE  proc'[h] = p \/ proc'[h].pc = "polled"
  BY <1>0, <1>6 DEF Poll, Goto
<1>. QED BY <1>0, <1>1, <1>2, <1>3, <1>4, <1>5, <1>6, LogMoves DEF At

LEMMA FoundStep ==
  ASSUME IInv, Found, Serve, UNCHANGED psBoot PROVE Found'
<1>1. \A root \in Addrs, agent \in Agents :
        grantOf'[root][agent] # None => grantOf'[root][agent] \in byGrantS256'
  BY GrantsFoundStep DEF IInv
<1>2. ASSUME NEW n \in DOMAIN issued', issued'[n].key = IssuerKey
      PROVE  issued'[n].grant \in byGrantS256'
  BY <1>2, IssuedGrows, HashesStay DEF Found
<1>3. IssuerKey' = IssuerKey
  BY DEF IssuerKey
<1>4. (\A h \in Handlers : /\ At(h, "mint") => proc[h].grant \in byGrantS256
                           /\ At(h, "issue") => proc[h].token.grant \in byGrantS256)'
  BY HandlersFoundStep
<1>. QED BY <1>1, <1>2, <1>3, <1>4 DEF Found

\* After a restart no token carries the new issuer key.
LEMMA NewKey ==
  ASSUME IInv, Restart
  PROVE  UNCHANGED issued /\ \A n \in DOMAIN issued : issued[n].key # IssuerKey'
<1>1. IInv' /\ UNCHANGED issued
  BY RestartStep DEF Restart
<1>2. \A id \in Ids : ~ Known(id)'
  BY DEF Restart, Known
<1>3. ASSUME NEW n \in DOMAIN issued', issued'[n].key = IssuerKey' PROVE FALSE
  <2>1. issued' \in Seq(AuthToken) /\ TokensGood'
    BY <1>1 DEF IInv, TypeOK
  <2>2. issued'[n].id \in Ids
    <3>1. issued'[n] \in AuthToken
      BY <2>1
    <3>. QED BY <3>1 DEF AuthToken
  <2>3. byID'[issued'[n].id] # NoRequest
    BY <1>3, <2>1 DEF TokensGood, Consented, Known
  <2>. QED BY <2>2, <2>3, <1>2 DEF Known
<1>. QED BY <1>1, <1>3

LEMMA FoundAfterRestart == ASSUME IInv, Restart PROVE Found'
<1>1. /\ proc' = [h \in Handlers |-> Free]
      /\ grantOf' = [root \in Addrs |-> [agent \in Agents |-> None]]
  BY DEF Restart, TenantsLost
<1>. QED BY <1>1, NewKey DEF Found, At, Free

-----------------------------------------------------------------------------
\* The requests at the resource.
SameKey(c) == c.step \in KeySteps => c.key = c.token.key \/ c.token.key # IssuerKey
RequestsSameKey == \A v \in Requests : SameKey(check[v])

LEMMA SameKeySteps ==
  ASSUME R!IInv, RequestsSameKey, PresentIssued \/ \E v \in Requests : Verify(v),
         UNCHANGED vars
  PROVE  RequestsSameKey'
<1>0. IssuerKey' = IssuerKey
  BY DEF vars, stores, IssuerKey
<1>1. ASSUME NEW v \in Requests, NEW c, Moved(v, c), SameKey(c) PROVE RequestsSameKey'
  <2>1. \A w \in Requests : check'[w] = IF w = v THEN c ELSE check[w]
    BY <1>1, RequestsResolved DEF Moved
  <2>2. \A w \in Requests : SameKey(check'[w])
    BY <1>1, <2>1 DEF RequestsSameKey
  <2>. QED BY <1>0, <2>2 DEF RequestsSameKey, SameKey
<1>2. ASSUME NEW v \in Requests, NEW t, NEW thumb, Present(v, t, thumb)
      PROVE  RequestsSameKey'
  <2>1. PICK c : Moved(v, c) /\ c.step = "issuerKey"
    BY <1>2, PresentMoves
  <2>. QED BY <1>1, <2>1 DEF SameKey, KeySteps
<1>3. ASSUME NEW v \in Requests, Verify(v) PROVE RequestsSameKey'
  <2>1. PICK c : Moved(v, c) /\ Continues(check[v], c)
    BY <1>3, VerifyMoves
  <2>2. SameKey(c)
    BY <2>1 DEF RequestsSameKey, SameKey, Continues, KeySteps, Idle
  <2>. QED BY <1>1, <2>1, <2>2
<1>. QED BY <1>2, <1>3 DEF PresentIssued

LEMMA SameKeyKept ==
  ASSUME IInv, RequestsHonest, RequestsSameKey, Next, UNCHANGED verifierVars
  PROVE  RequestsSameKey'
<1> SUFFICES ASSUME NEW v \in Requests PROVE SameKey(check[v])'
  BY DEF RequestsSameKey
<1> DEFINE c == check[v]
<1>0. c' = c /\ Honest(c) /\ SameKey(c)
  BY DEF RequestsHonest, RequestsSameKey, verifierVars
<1>1. CASE Serve /\ UNCHANGED psBoot
  BY <1>0, <1>1 DEF SameKey, IssuerKey
<1>2. CASE Restart
  <2>1. \A n \in DOMAIN issued : issued[n].key # IssuerKey'
    BY <1>2, NewKey
  <2>2. c.step # "idle" => c.token.key # IssuerKey'
    <3> SUFFICES ASSUME c.step # "idle" PROVE c.token.key # IssuerKey'
      OBVIOUS
    <3>1. PICK n \in DOMAIN issued : c.token = ClaimsOf(issued[n], n)
      BY <1>0 DEF Honest
    <3>2. c.token.key = issued[n].key
      BY <3>1 DEF ClaimsOf
    <3>. QED BY <2>1, <3>2
  <2>. QED BY <1>0, <2>2 DEF SameKey, KeySteps
<1>. QED BY <1>1, <1>2 DEF Next

-----------------------------------------------------------------------------
\* A token of the running psd, and what its chain gives.
LEMMA TokenOfThisBoot ==
  ASSUME IInv, Found, RequestsHonest, NEW v \in Requests, check[v].step # "idle",
         check[v].token.key = IssuerKey
  PROVE  LET t == check[v].token IN
           /\ t.psa = [at |-> t.sub, pin |-> t.psa.pin] /\ t.psa # None
           /\ t.psa.pin \in PSADocs /\ t.sub = t.psa.pin.root /\ t.iss = t.psa.pin.issuer
           /\ t.key \in t.psa.pin.keys /\ HashableScope(t.psa.pin.scope)
           /\ VerifyRootSig(t.sub, PSADigest(t.psa.pin), t.psa.pin.sig)
           /\ t.grant \in byGrantS256 /\ t.grant # None
           /\ t.grant.root = t.sub /\ t.grant.agent = t.agent
           /\ VerifyRootSig(t.grant.root, AgentGrantDigest(t.grant), t.grant.sig)
<1>1. PICK n \in DOMAIN issued : check[v].token = ClaimsOf(issued[n], n)
  BY DEF RequestsHonest, Honest
<1>2. PICK t : t = issued[n]
  OBVIOUS
<1>3. t \in AuthToken /\ ChainGood(t) /\ HashableScope(t.psa.scope)
  BY <1>2 DEF IInv, TypeOK, TokensGood, EnvelopeGood
<1>4. PICK c : c = check[v].token
  OBVIOUS
<1>5. /\ c.key = t.key /\ c.sub = t.psa.root /\ c.iss = t.psa.issuer
      /\ c.psa = [at |-> t.psa.root, pin |-> t.psa]
      /\ c.grant = t.grant /\ c.agent = t.agent
  BY <1>1, <1>2, <1>4 DEF ClaimsOf
<1>6. c.psa.pin = t.psa /\ c.psa = [at |-> c.sub, pin |-> c.psa.pin]
  BY <1>5
<1>7. t.psa \in PSADocs /\ t.grant \in GrantDocs /\ t.psa.root \in Addrs /\ t.grant # None
  BY <1>3, DocumentsAssumption DEF AuthToken
<1>8. c.psa # None
  BY <1>5, <1>7, ChainAssumption
<1>9. t.grant \in byGrantS256
  BY <1>2, <1>4, <1>5 DEF Found
<1>. QED BY <1>3, <1>4, <1>5, <1>6, <1>7, <1>8, <1>9 DEF ChainGood

LEMMA RefusedForCause ==
  ASSUME IInv, R!IInv, Found, RequestsHonest, RequestsSameKey,
         NEW v \in Requests, Verify(v), Refused(v)
  PROVE  Cause(v)
<1> DEFINE old == check[v]
           t == old.token
<1> SUFFICES ASSUME ~ Cause(v) PROVE FALSE
  OBVIOUS
<1>0. /\ Resolved(old) /\ SameKey(old) /\ View(revoked) \subseteq revoked
      /\ DOMAIN check = Requests /\ old.step # "idle" /\ check'[v].step = "idle"
      /\ accepted' = accepted
  BY RequestsResolved DEF RequestsSameKey, View, Refused, Doing
<1>1. t.key = IssuerKey
  BY DEF Cause
<1>2. /\ t.psa = [at |-> t.sub, pin |-> t.psa.pin] /\ t.psa # None
      /\ t.psa.pin \in PSADocs /\ t.sub = t.psa.pin.root /\ t.iss = t.psa.pin.issuer
      /\ t.key \in t.psa.pin.keys /\ HashableScope(t.psa.pin.scope)
      /\ VerifyRootSig(t.sub, PSADigest(t.psa.pin), t.psa.pin.sig)
      /\ t.grant \in byGrantS256 /\ t.grant # None
      /\ t.grant.root = t.sub /\ t.grant.agent = t.agent
      /\ VerifyRootSig(t.grant.root, AgentGrantDigest(t.grant), t.grant.sig)
  BY <1>0, <1>1, TokenOfThisBoot
<1>3. t.psa.pin # None /\ IssuerKey # None
  BY <1>2, DocumentsAssumption, ChainAssumption DEF IInv, TypeOK, IssuerKey
<1>4. ASSUME NEW c, Moved(v, c) PROVE c.step = "idle"
  BY <1>0, <1>4 DEF Moved
<1>5. ASSUME NEW c, Proceed(v, c) PROVE c.step = "idle"
  BY <1>4, <1>5 DEF Proceed, Moved
<1>6. ~ FetchIssuerKey(v, JWKS)
  <2>1. [old EXCEPT !.step = "layer1"].step = "layer1"
    BY <1>0 DEF Resolved, Shaped
  <2>. QED BY <1>1, <1>5, <2>1 DEF FetchIssuerKey, JWKS
<1>7. ~ Layer1Refused(v, now)
  BY DEF Layer1Refused, Cause
<1>8. ~ RefuseUnrooted(v, now)
  BY <1>2 DEF RefuseUnrooted
<1>9. ~ StartLayer2(v, now)
  <2>1. [old EXCEPT !.step = "psa"].step = "psa"
    BY <1>0 DEF Resolved, Shaped
  <2>2. StartLayer2(v, now) => Moved(v, [old EXCEPT !.step = "psa"])
    BY DEF StartLayer2, Moved
  <2>. QED BY <1>4, <2>1, <2>2
<1>10. ~ FetchPSA(v, ServePSA(check[v].token.psa.at))
  <2>1. PICK p : p = psaOf[t.sub]
    OBVIOUS
  <2>2. ServePSA(t.psa.at) = p
    BY <1>2, <2>1 DEF ServePSA
  <2>3. [old EXCEPT !.step = "issuerThumb", !.psa = p].step = "issuerThumb"
    BY <1>0 DEF Resolved, Shaped
  <2>4. Doing(v, "psa") => p = t.psa.pin
    BY <2>1 DEF Cause
  <2>. QED BY <1>3, <1>5, <2>2, <2>3, <2>4 DEF FetchPSA
<1>11. ~ FetchIssuerThumb(v, JWKS)
  <2>1. [old EXCEPT !.step = "verifyPSA", !.key = JWKS].step = "verifyPSA"
    BY <1>0 DEF Resolved, Shaped
  <2>. QED BY <1>3, <1>5, <2>1 DEF FetchIssuerThumb, JWKS
<1>12. ~ CheckPSA(v, now, revoked)
  <2> SUFFICES ASSUME Doing(v, "verifyPSA"), CheckPSA(v, now, revoked) PROVE FALSE
    BY DEF CheckPSA
  <2>1. old.psa = t.psa.pin /\ old.key = t.key
    BY <1>0, <1>1 DEF Resolved, SameKey, HoldsPSA, KeySteps, Doing
  <2>2. InWindow(t.psa.pin, now) /\ Live(t.psa.pin, revoked)
    BY DEF Cause
  <2>3. Live(t.psa.pin, View(revoked))
    BY <1>0, <2>2 DEF Live
  <2>4. VerifyPSA(old.psa, t.iss, old.key, now, View(revoked)) /\ CaipEq(old.psa.root, t.sub)
    BY <1>2, <2>1, <2>2, <2>3 DEF VerifyPSA, CaipEq
  <2>5. [old EXCEPT !.step = "grant"].step = "grant"
    BY <1>0 DEF Resolved, Shaped
  <2>. QED BY <1>5, <2>4, <2>5 DEF CheckPSA
<1>13. ~ FetchGrant(v, ServeGrant(check[v].token.grant))
  <2>1. ServeGrant(t.grant) = t.grant
    BY <1>2 DEF ServeGrant
  <2>2. [old EXCEPT !.step = "verifyGrant", !.grant = t.grant].step = "verifyGrant"
    BY <1>0 DEF Resolved, Shaped
  <2>. QED BY <1>2, <1>5, <2>1, <2>2 DEF FetchGrant
<1>14. ~ ServeVanilla(v, now) /\ ~ CheckGrantPassed(v, now, revoked)
  <2> SUFFICES ASSUME accepted' = Append(accepted, Served(old)) PROVE FALSE
    BY DEF ServeVanilla, CheckGrantPassed, Accept
  <2>1. PICK s, e : s = accepted /\ e = Served(old)
    OBVIOUS
  <2>2. s \in Seq(R!Acceptance) /\ s = Append(s, e)
    BY <1>0, <2>1, RequestsResolved
  <2>. QED BY <2>2, OneMore
<1>15. ~ CheckGrantRefused(v, now, revoked)
  <2> SUFFICES ASSUME Doing(v, "verifyGrant"),
                      ~ VerifyAgentGrant(old.grant, old.psa.root, t.agent, t.cnf, now, View(revoked))
               PROVE  FALSE
    BY DEF CheckGrantRefused
  <2>1. old.psa = t.psa.pin /\ old.grant = t.grant
    BY <1>0 DEF Resolved, HoldsPSA, Doing
  <2>2. InWindow(t.grant, now) /\ Live(t.grant, revoked) /\ t.grant.thumb = t.cnf
    BY DEF Cause
  <2>3. Live(t.grant, View(revoked))
    BY <1>0, <2>2 DEF Live
  <2>. QED BY <1>2, <2>1, <2>2, <2>3 DEF VerifyAgentGrant
<1>. QED BY <1>6, <1>7, <1>8, <1>9, <1>10, <1>11, <1>12, <1>13, <1>14, <1>15 DEF Verify

\* Everything the person server hands out resolves and verifies at the
\* resource: a token is refused only because psd has restarted since, the
\* request is not the token's, the PSA was replaced, a document is revoked or
\* out of its window, or the grant names two keys (tokens.go:222-294;
\* server.go:277-296; tenants.go:108-124).
THEOREM OnlyNamedRefusals == ChainSpec => NoFalseRefusal
<1> DEFINE Inv == Found /\ RequestsHonest /\ RequestsSameKey
<1>1. ChainInit => Inv
  <2> SUFFICES ASSUME ChainInit PROVE Found /\ RequestsHonest /\ RequestsSameKey
    OBVIOUS
  <2>1. Found
    BY DEF ChainInit, Init, TenantsInit, Found, At, Free
  <2>2. RequestsHonest /\ RequestsSameKey
    BY DEF ChainInit, VerifierInit, RequestsHonest, Honest, RequestsSameKey, SameKey,
           KeySteps, Idle
  <2>. QED BY <2>1, <2>2
<1>2. IInv /\ R!IInv /\ Inv /\ [ChainNext]_chainVars => Inv'
  <2> SUFFICES ASSUME IInv, R!IInv, Inv, [ChainNext]_chainVars
               PROVE  Found' /\ RequestsSameKey'
    BY HonestStep
  <2>1. ASSUME UNCHANGED vars PROVE Found'
    BY <2>1 DEF vars, stores, tenantVars, Found, At, IssuerKey
  <2>2. CASE Next /\ UNCHANGED verifierVars
    BY <2>2, FoundStep, FoundAfterRestart, SameKeyKept DEF Next
  <2>3. CASE (PresentIssued \/ \E v \in Requests : Verify(v)) /\ UNCHANGED vars
    BY <2>1, <2>3, SameKeySteps
  <2>4. CASE UNCHANGED chainVars
    <3>1. RequestsSameKey'
      BY <2>4 DEF chainVars, vars, stores, verifierVars, RequestsSameKey, SameKey, IssuerKey
    <3>. QED BY <2>1, <2>4, <3>1 DEF chainVars
  <2>. QED BY <2>2, <2>3, <2>4 DEF ChainNext
<1>3. IInv /\ R!IInv /\ Inv /\ [ChainNext]_chainVars
        => [rsBoot' = rsBoot => \A v \in Requests : Refused(v) => Cause(v)]_chainVars
  <2> SUFFICES ASSUME IInv, R!IInv, Inv, ChainNext, NEW v \in Requests, Refused(v)
               PROVE  Cause(v)
    OBVIOUS
  <2>0. check[v].step # "idle" /\ check'[v].step = "idle" /\ DOMAIN check = Requests
    BY RequestsResolved DEF Refused, Doing
  <2>1. CASE UNCHANGED verifierVars
    BY <2>0, <2>1 DEF verifierVars
  <2>2. ASSUME NEW w \in Requests, NEW t, NEW thumb, Present(w, t, thumb) PROVE FALSE
    <3>1. w # v
      BY <2>0, <2>2 DEF Present, Doing
    <3>. QED BY <2>0, <2>2, <3>1 DEF Present, Proceed
  <2>3. ASSUME NEW w \in Requests, Verify(w) PROVE Cause(v)
    <3>1. PICK c : Moved(w, c)
      BY <2>3, VerifyMoves
    <3>2. w = v
      BY <2>0, <3>1 DEF Moved
    <3>. QED BY <2>3, <3>2, RefusedForCause
  <2>. QED BY <2>1, <2>2, <2>3 DEF ChainNext, PresentIssued
<1>. QED BY <1>1, <1>2, <1>3, ChainInvariance, PTL DEF ChainSpec, NoFalseRefusal
=============================================================================
