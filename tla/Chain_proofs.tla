----------------------------- MODULE Chain_proofs ----------------------------
(***************************************************************************)
(* The composition: psd's invariant and the resource's hold together, so   *)
(* what is proved of each carries over, and revocations and restarts of    *)
(* psd reach the resource.                                                 *)
(*                                                                         *)
(* R is the resource as Resource proves it against any world, the world    *)
(* being psd, its clock and its registry, and the tokens those psd issues. *)
(* Its invariant ties what a request holds to what its token pins          *)
(* (Resolved): a request judges a document several fetches after it learnt *)
(* the token, and accepts after yet another judgement.                     *)
(***************************************************************************)
EXTENDS Chain, ServerHistory_proofs

\* The tokens of a person server, and the keys it may sign them with.
Claims == {ClaimsOf(t, n) : t \in AuthToken, n \in Nat}
Keys == {IssuerKeys[n] : n \in 1..MaxBoots}

R == INSTANCE Resource_proofs WITH
       JWTs <- Claims, KeySets <- Keys, Handles <- Revocable,
       MaxRsBoots <- 1, MaxAccepted <- 0

\* What Resource assumes of its world, this world satisfies.
LEMMA WorldAssumption ==
  /\ MaxTime \in Nat /\ 1 \in Nat \ {0} /\ 0 \in Nat
  /\ \A n \in 1..1 : KeyRooted[n] \in BOOLEAN
  /\ \A t \in Claims : t.sub \in Addrs
<1>1. ASSUME NEW t \in AuthToken, NEW n \in Nat PROVE ClaimsOf(t, n).sub \in Addrs
  <2>1. t.psa \in PSADocs
    BY DEF AuthToken
  <2>2. ClaimsOf(t, n).sub = t.psa.root
    BY DEF ClaimsOf
  <2>. QED BY <2>1, <2>2, DocumentsAssumption
<1>. QED BY <1>1, ServerAssumption, ChainAssumption DEF Claims

LEMMA WorldDocuments ==
  /\ \A doc \in PSADocs : doc.root \in Addrs /\ doc.scope \in R!Scope
  /\ \A doc \in GrantDocs : doc.root \in Addrs /\ doc.agent \in Agents
  /\ None \notin PSADocs /\ None \notin GrantDocs /\ None \notin Addrs
<1>1. R!Scope = Scope
  BY DEF R!Scope, Scope, R!Amount, Amount
<1>. QED BY <1>1, DocumentsAssumption

\* A step of the composed verifier is a step of Resource's.
LEMMA VerifyIsProgress ==
  ASSUME IInv, R!IInv, NEW v \in Requests, Verify(v), UNCHANGED <<now, revoked>>
  PROVE  R!Progress(v)
<1> USE DEF R!Progress, R!world
<1>0. /\ JWKS \in R!Answers(Keys)
      /\ \A root \in Addrs : ServePSA(root) \in R!Answers(PSADocs)
      /\ \A g : ServeGrant(g) \in R!Answers(GrantDocs)
  BY DEF IInv, TypeOK, TenantsTypeOK, JWKS, IssuerKey, Keys, ServePSA, ServeGrant, R!Answers
<1>1. CASE FetchIssuerKey(v, JWKS)
  <2>1. R!FetchIssuerKey(v, JWKS)
    BY <1>1 DEF FetchIssuerKey, Doing, Proceed, Refuse, Idle,
                R!FetchIssuerKey, R!Doing, R!Proceed, R!Refuse, R!Idle
  <2>. QED BY <1>0, <2>1
<1>2. CASE Layer1Refused(v, now)
  BY <1>2 DEF Layer1Refused, Doing, ForThisRequest, Refuse, Idle,
              R!Layer1Refused, R!Doing, R!ForThisRequest, R!Refuse, R!Idle
<1>3. CASE ServeVanilla(v, now) \/ RefuseUnrooted(v, now) \/ StartLayer2(v, now)
  BY <1>3 DEF ServeVanilla, RefuseUnrooted, StartLayer2, SpendForThisRequest, Doing,
              ForThisRequest, SeenJTI, Accept, Served, Idle,
              R!ServeVanilla, R!RefuseUnrooted, R!StartLayer2, R!SpendForThisRequest,
              R!Doing, R!ForThisRequest, R!SeenJTI, R!Accept, R!Served, R!Idle
<1>4. CASE FetchPSA(v, ServePSA(check[v].token.psa.at))
  <2>1. check[v].token.psa.at \in Addrs
    <3>1. check[v].token \in Claims
      BY <1>4 DEF R!IInv, R!TypeOK, R!LocalOK, FetchPSA, Doing
    <3>2. PICK t \in AuthToken, n \in Nat : check[v].token = ClaimsOf(t, n)
      BY <3>1 DEF Claims
    <3>3. t.psa \in PSADocs
      BY DEF AuthToken
    <3>4. check[v].token.psa.at = t.psa.root
      BY <3>2 DEF ClaimsOf
    <3>. QED BY <3>3, <3>4, DocumentsAssumption
  <2>2. PICK p : p = ServePSA(check[v].token.psa.at)
    OBVIOUS
  <2>3. R!FetchPSA(v, p)
    BY <1>4, <2>2 DEF FetchPSA, Doing, Proceed, Refuse, Idle,
                      R!FetchPSA, R!Doing, R!Proceed, R!Refuse, R!Idle
  <2>. QED BY <1>0, <2>1, <2>2, <2>3
<1>5. CASE FetchIssuerThumb(v, JWKS)
  <2>1. R!FetchIssuerThumb(v, JWKS)
    BY <1>5 DEF FetchIssuerThumb, Doing, Proceed, Refuse, Idle,
                R!FetchIssuerThumb, R!Doing, R!Proceed, R!Refuse, R!Idle
  <2>. QED BY <1>0, <2>1
<1>6. CASE CheckPSA(v, now, revoked)
  <2>1. \A scope : /\ R!HashableScope(scope) <=> HashableScope(scope)
                   /\ R!HashedScope(scope) = HashedScope(scope)
    BY DEF R!HashableScope, R!Hashable, R!HashedScope, R!Hashed,
           HashableScope, Hashable, HashedScope, Hashed
  <2>. QED BY <1>6, <2>1
       DEF CheckPSA, Doing, VerifyPSA, VerifyRootSig, PSADigest, InWindow, Live, View,
           CaipEq, Proceed, Refuse, Idle,
           R!CheckPSA, R!Doing, R!VerifyPSA, R!VerifyRootSig, R!PSADigest, R!InWindow,
           R!Live, R!View, R!CaipEq, R!Proceed, R!Refuse, R!Idle
<1>7. CASE FetchGrant(v, ServeGrant(check[v].token.grant))
  <2>1. PICK g : g = ServeGrant(check[v].token.grant)
    OBVIOUS
  <2>2. R!FetchGrant(v, g)
    BY <1>7, <2>1 DEF FetchGrant, Doing, Proceed, Refuse, Idle,
                      R!FetchGrant, R!Doing, R!Proceed, R!Refuse, R!Idle
  <2>. QED BY <1>0, <2>1, <2>2
<1>8. CASE CheckGrantPassed(v, now, revoked) \/ CheckGrantRefused(v, now, revoked)
  BY <1>8 DEF CheckGrantPassed, CheckGrantRefused, Doing, VerifyAgentGrant, VerifyRootSig,
              AgentGrantDigest, InWindow, Live, View, Accept, Served, Refuse, Idle,
              R!CheckGrantPassed, R!CheckGrantRefused, R!Doing, R!VerifyAgentGrant,
              R!VerifyRootSig, R!AgentGrantDigest, R!InWindow, R!Live, R!View, R!Accept,
              R!Served, R!Refuse, R!Idle
<1>. QED BY <1>1, <1>2, <1>3, <1>4, <1>5, <1>6, <1>7, <1>8 DEF Verify

\* A token of psd arrives.
LEMMA PresentIsArrival ==
  ASSUME IInv, R!IInv, NEW v \in Requests, NEW n \in DOMAIN issued,
         NEW thumb \in AgentKeys, Present(v, ClaimsOf(issued[n], n), thumb),
         UNCHANGED <<now, revoked>>
  PROVE  R!IInv'
<1>1. PICK t \in AuthToken : t = issued[n]
  BY DEF IInv, TypeOK
<1>2. n \in Nat
  BY DEF IInv, TypeOK
<1>3. PICK c : c = ClaimsOf(t, n)
  OBVIOUS
<1>4. c \in Claims
  BY <1>2, <1>3 DEF Claims
<1>5. R!Present(v, c, thumb)
  BY <1>1, <1>3 DEF Present, Doing, Proceed, Idle, R!Present, R!Doing, R!Proceed, R!Idle
<1>. QED BY <1>4, <1>5, R!ArrivalMoves, WorldAssumption, CanonAssumption,
            WorldDocuments, VerifierAssumption DEF R!world

\* The composition keeps both invariants, in either mode and whether or not
\* the resource sees psd's registry.
LEMMA ChainInvariance == ChainSpec => [](IInv /\ R!IInv)
<1>1. ChainInit => IInv /\ R!IInv
  <2> SUFFICES ASSUME ChainInit PROVE R!IInv
    BY InitGood DEF ChainInit
  <2>1. R!Init
    BY DEF ChainInit, Init, StoreInit, TenantsInit, VerifierInit, Idle,
           R!Init, R!VerifierInit, R!Idle
  <2>. QED BY <2>1, R!InitTypes, R!InitSpending, R!InitEstablished, WorldAssumption,
              CanonAssumption, WorldDocuments, VerifierAssumption DEF R!IInv
<1>2. IInv /\ R!IInv /\ [ChainNext]_chainVars => (IInv /\ R!IInv)'
  <2> SUFFICES ASSUME IInv, R!IInv, [ChainNext]_chainVars PROVE IInv' /\ R!IInv'
    OBVIOUS
  <2>1. IInv'
    BY ServeKeeps, RestartStep, StutterStep DEF ChainNext, Next, chainVars
  <2>2. ASSUME UNCHANGED verifierVars PROVE R!IInv'
    <3>1. now' \in Nat /\ revoked' \subseteq Revocable
      BY <2>1 DEF IInv, TypeOK, StoreTypeOK, TenantsTypeOK
    <3>. QED BY <2>2, <3>1, R!WorldMoves, WorldAssumption, CanonAssumption,
                WorldDocuments, VerifierAssumption DEF verifierVars, R!verifierVars
  <2>3. ASSUME NEW v \in Requests, Verify(v), UNCHANGED vars PROVE R!IInv'
    <3>1. UNCHANGED <<now, revoked>>
      BY <2>3 DEF vars, stores, storeVars, tenantVars
    <3>2. R!Progress(v)
      BY <2>3, <3>1, VerifyIsProgress
    <3>. QED BY <3>2, R!RequestMoves, WorldAssumption, CanonAssumption,
                WorldDocuments, VerifierAssumption
  <2>4. ASSUME PresentIssued, UNCHANGED vars PROVE R!IInv'
    <3>1. UNCHANGED <<now, revoked>>
      BY <2>4 DEF vars, stores, storeVars, tenantVars
    <3>. QED BY <2>4, <3>1, PresentIsArrival DEF PresentIssued
  <2>. QED BY <2>1, <2>2, <2>3, <2>4 DEF ChainNext, chainVars
<1>. QED BY <1>1, <1>2, PTL DEF ChainSpec

-----------------------------------------------------------------------------
\* What the resource's invariant says of a request here.
HoldsPSA == {"issuerThumb", "verifyPSA", "grant", "verifyGrant"}
Shaped(c) == DOMAIN c = {"step", "token", "thumb", "key", "psa", "grant"}
Resolved(c) ==
  /\ Shaped(c)
  /\ c.step # "idle" => c.token.psa.pin # None
  /\ c.step \in HoldsPSA \cup {"psa"} => KeyRooted[1] /\ c.token.cnf = c.thumb
  /\ c.step \in HoldsPSA => c.psa = c.token.psa.pin
  /\ c.step = "verifyGrant" => c.grant = c.token.grant

LEMMA RequestsResolved ==
  ASSUME R!IInv
  PROVE  /\ rsBoot = 1 /\ accepted \in Seq(R!Acceptance)
         /\ DOMAIN check = Requests
         /\ \A v \in Requests : Resolved(check[v])
<1>1. rsBoot = 1 /\ accepted \in Seq(R!Acceptance) /\ check \in [Requests -> R!Local]
  BY DEF R!IInv, R!TypeOK
<1>2. ASSUME NEW v \in Requests PROVE Resolved(check[v])
  <2> DEFINE c == check[v]
  <2>1. c \in R!Local /\ R!LocalOK(c) /\ R!StageOK(c)
    BY <1>1 DEF R!IInv, R!TypeOK, R!Established
  <2>2. c.step # "idle" => c.token.psa.pin # None
    <3> SUFFICES ASSUME c.step # "idle" PROVE c.token.psa.pin # None
      OBVIOUS
    <3>1. c.token \in Claims
      BY <2>1 DEF R!LocalOK
    <3>2. PICK t \in AuthToken, n \in Nat : c.token = ClaimsOf(t, n)
      BY <3>1 DEF Claims
    <3>3. t.psa \in PSADocs
      BY DEF AuthToken
    <3>4. c.token.psa.pin = t.psa
      BY <3>2 DEF ClaimsOf
    <3>. QED BY <3>3, <3>4, DocumentsAssumption
  <2>3. Shaped(c)
    BY <2>1 DEF R!Local, Shaped
  <2>. QED BY <1>1, <2>1, <2>2, <2>3
           DEF Resolved, HoldsPSA, R!LocalOK, R!StageOK, R!Layer2, R!PastPSA, R!PastThumb
<1>. QED BY <1>1, <1>2 DEF R!Local

\* What a step of request v may do: end it, or bring it further under the same
\* token.
Moved(v, c) == check' = [check EXCEPT ![v] = c]
KeySteps == {"verifyPSA", "grant", "verifyGrant"}
Continues(old, c) ==
  \/ c = Idle
  \/ /\ old.step # "idle" /\ c.token = old.token
     /\ c.step \notin BeforeFirstFetch =>
          old.step \notin BeforeFirstFetch \/ old.token.key = IssuerKey
     /\ c.step \in KeySteps =>
          c.key = IssuerKey \/ (old.step \in KeySteps /\ c.key = old.key)
     /\ c.step \in PastPSACheck =>
          old.step \in PastPSACheck \/ Live(old.token.psa.pin, View(revoked))

\* And what stands behind an acceptance.
Accepts(v) ==
  LET old == check[v] IN
    /\ accepted' = Append(accepted, Served(old))
    /\ old.step \notin BeforeFirstFetch
    /\ old.token.cnf = old.thumb
    /\ \A n \in DOMAIN accepted : accepted[n].token.jti # old.token.jti
    /\ KeyRooted[1] =>
         /\ old.step \in PastPSACheck
         /\ old.psa = old.token.psa.pin /\ old.grant = old.token.grant
         /\ old.grant.thumb = old.thumb
         /\ Live(old.grant, View(revoked))

LEMMA VerifyMoves ==
  ASSUME R!IInv, NEW v \in Requests, Verify(v)
  PROVE  /\ rsBoot' = rsBoot
         /\ \E c : Moved(v, c) /\ Continues(check[v], c)
         /\ accepted' = accepted \/ Accepts(v)
<1> DEFINE old == check[v]
           Good(c) == Moved(v, c) /\ Continues(old, c)
           Unserved == rsBoot' = rsBoot /\ accepted' = accepted
<1>0. /\ Resolved(old) /\ rsBoot = 1
      /\ \A n \in DOMAIN accepted : accepted[n].token.jti \in seen
  <2>1. \A n \in DOMAIN accepted : accepted[n].boot = 1
    BY RequestsResolved DEF R!IInv, R!Spending
  <2>. QED BY <2>1, RequestsResolved DEF R!IInv, R!Spending
<1>1. ASSUME Refuse(v) PROVE Unserved /\ Good(Idle)
  BY <1>1 DEF Refuse, Moved, Continues
<1>2. ASSUME FetchIssuerKey(v, JWKS) PROVE Unserved /\ \E c : Good(c)
  <2> DEFINE n == [old EXCEPT !.step = "layer1"]
  <2>1. old.step = "issuerKey" /\ JWKS = old.token.key => Continues(old, n)
    BY <1>0 DEF Resolved, Shaped, Continues, KeySteps, PastPSACheck, JWKS
  <2>. QED BY <2>1, <1>1, <1>2 DEF FetchIssuerKey, Doing, Proceed, Moved
<1>3. ASSUME Layer1Refused(v, now) \/ CheckGrantRefused(v, now, revoked) \/ RefuseUnrooted(v, now)
      PROVE  Unserved /\ Good(Idle)
  BY <1>1, <1>3 DEF Layer1Refused, CheckGrantRefused, RefuseUnrooted, SpendForThisRequest,
                    Moved, Continues
<1>4. ASSUME ServeVanilla(v, now) PROVE rsBoot' = rsBoot /\ Accepts(v) /\ Good(Idle)
  BY <1>0, <1>4 DEF ServeVanilla, SpendForThisRequest, ForThisRequest, Doing, Accept,
                    Accepts, BeforeFirstFetch, Moved, Continues
<1>5. ASSUME StartLayer2(v, now) PROVE Unserved /\ \E c : Good(c)
  <2> DEFINE n == [old EXCEPT !.step = "psa"]
  <2>1. old.step = "layer1" => Continues(old, n)
    BY <1>0 DEF Resolved, Shaped, Continues, KeySteps, PastPSACheck, BeforeFirstFetch
  <2>2. Moved(v, n) /\ old.step = "layer1" /\ Unserved
    BY <1>5 DEF StartLayer2, SpendForThisRequest, Moved, Doing
  <2>. QED BY <2>1, <2>2
<1>6. ASSUME NEW p, FetchPSA(v, p) PROVE Unserved /\ \E c : Good(c)
  <2> DEFINE n == [old EXCEPT !.step = "issuerThumb", !.psa = p]
  <2>1. old.step = "psa" => Continues(old, n)
    BY <1>0 DEF Resolved, Shaped, Continues, KeySteps, PastPSACheck, BeforeFirstFetch
  <2>. QED BY <2>1, <1>1, <1>6 DEF FetchPSA, Doing, Proceed, Moved
<1>7. ASSUME FetchIssuerThumb(v, JWKS) PROVE Unserved /\ \E c : Good(c)
  <2> DEFINE n == [old EXCEPT !.step = "verifyPSA", !.key = JWKS]
  <2>1. old.step = "issuerThumb" => Continues(old, n)
    BY <1>0 DEF Resolved, Shaped, Continues, KeySteps, PastPSACheck, BeforeFirstFetch, JWKS
  <2>. QED BY <2>1, <1>1, <1>7 DEF FetchIssuerThumb, Doing, Proceed, Moved
<1>8. ASSUME CheckPSA(v, now, revoked) PROVE Unserved /\ \E c : Good(c)
  <2> DEFINE n == [old EXCEPT !.step = "grant"]
  <2>1. old.step = "verifyPSA" /\ Live(old.psa, View(revoked)) => Continues(old, n)
    BY <1>0 DEF Resolved, Shaped, HoldsPSA, Continues, KeySteps, PastPSACheck, BeforeFirstFetch
  <2>. QED BY <2>1, <1>1, <1>8 DEF CheckPSA, VerifyPSA, Doing, Proceed, Moved
<1>9. ASSUME NEW g, FetchGrant(v, g) PROVE Unserved /\ \E c : Good(c)
  <2> DEFINE n == [old EXCEPT !.step = "verifyGrant", !.grant = g]
  <2>1. old.step = "grant" => Continues(old, n)
    BY <1>0 DEF Resolved, Shaped, Continues, KeySteps, PastPSACheck, BeforeFirstFetch
  <2>. QED BY <2>1, <1>1, <1>9 DEF FetchGrant, Doing, Proceed, Moved
<1>10. ASSUME CheckGrantPassed(v, now, revoked)
       PROVE  rsBoot' = rsBoot /\ Accepts(v) /\ Good(Idle)
  <2>1. /\ old.step = "verifyGrant" /\ Accept(v) /\ rsBoot' = rsBoot
        /\ VerifyAgentGrant(old.grant, old.psa.root, old.token.agent, old.token.cnf, now,
                            View(revoked))
    BY <1>10 DEF CheckGrantPassed, Doing
  <2>2. /\ old.token.cnf = old.thumb /\ old.psa = old.token.psa.pin
        /\ old.grant = old.token.grant
    BY <1>0, <2>1 DEF Resolved, HoldsPSA
  <2>3. \A n \in DOMAIN accepted : accepted[n].token.jti # old.token.jti
    <3>1. R!InLayer2(v) /\ \A n \in DOMAIN accepted : accepted[n].boot = rsBoot
      BY <1>0, <2>1, RequestsResolved
         DEF R!InLayer2, R!Layer2, R!PastPSA, R!PastThumb, R!IInv, R!Spending
    <3>. QED BY <3>1 DEF R!IInv, R!Spending
  <2>4. old.grant.thumb = old.token.cnf /\ Live(old.grant, View(revoked))
    BY <2>1 DEF VerifyAgentGrant
  <2>. QED BY <2>1, <2>2, <2>3, <2>4
           DEF Accept, Accepts, BeforeFirstFetch, PastPSACheck, Moved, Continues
<1> HIDE DEF Good
<1>11. /\ rsBoot' = rsBoot /\ \E c : Good(c)
       /\ accepted' = accepted \/ Accepts(v)
  BY <1>2, <1>3, <1>4, <1>5, <1>6, <1>7, <1>8, <1>9, <1>10 DEF Verify
<1>. QED BY <1>11 DEF Good

LEMMA PresentMoves ==
  ASSUME NEW v \in Requests, NEW t, NEW thumb, Present(v, t, thumb)
  PROVE  /\ UNCHANGED <<rsBoot, accepted>>
         /\ \E c : Moved(v, c) /\ c.step = "issuerKey" /\ c.token = t
<1> DEFINE c == [Idle EXCEPT !.step = "issuerKey", !.token = t, !.thumb = thumb]
<1>1. c.step = "issuerKey" /\ c.token = t
  BY DEF Idle
<1>. QED BY <1>1 DEF Present, Proceed, Moved

\* One more acceptance is one more element.
Longer(s, t, e) ==
  \E k : /\ DOMAIN t = DOMAIN s \cup {k}
         /\ \A n \in DOMAIN s : n # k /\ t[n] = s[n]
         /\ t[k] = e

LEMMA OneMore ==
  ASSUME NEW S, NEW s \in Seq(S), NEW e, NEW t, t = Append(s, e)
  PROVE  t # s /\ Longer(s, t, e)
<1>1. \A n \in 1..Len(s) : s[n] \in S \cup {e}
  BY LenProperties
<1>2. s \in Seq(S \cup {e})
  BY <1>1, SeqDef
<1>3. /\ t \in Seq(S \cup {e}) /\ Len(t) = Len(s) + 1
      /\ \A n \in 1..Len(s) : t[n] = s[n]
      /\ t[Len(s) + 1] = e
  BY <1>2, AppendProperties
<1>4. /\ Len(s) \in Nat /\ DOMAIN s = 1..Len(s) /\ DOMAIN t = 1..(Len(s) + 1)
  BY <1>2, <1>3, LenProperties
<1>5. DOMAIN t = DOMAIN s \cup {Len(s) + 1} /\ \A n \in DOMAIN s : n # Len(s) + 1
  BY <1>4
<1>. QED BY <1>3, <1>4, <1>5 DEF Longer

LEMMA AcceptedGrows ==
  ASSUME R!IInv, NEW v \in Requests, Accepts(v)
  PROVE  accepted' # accepted /\ Longer(accepted, accepted', Served(check[v]))
<1>1. PICK s, t, e : s = accepted /\ t = accepted' /\ e = Served(check[v])
  OBVIOUS
<1>2. s \in Seq(R!Acceptance) /\ t = Append(s, e)
  BY <1>1, RequestsResolved DEF Accepts
<1>. QED BY <1>1, <1>2, OneMore

LEMMA OnlyIssueIssues == ASSUME Serve PROVE UNCHANGED issued \/ \E h \in Handlers : Issue(h)
BY DEF Serve, stores, Onboard, OnboardCommit, Enroll, EnrollCommit, EnrollLog, Token,
       TokenCreate, TokenLog, Poll, ReadState, Mint, ApprovePage, ClickLookup,
       ApproveElevated, VerifyLookup, SetSig, Approve, Revoke, Tick

\* What is issued is issued for good, one token at a time.
LEMMA IssuedGrows ==
  ASSUME IInv, Serve
  PROVE  /\ DOMAIN issued \subseteq DOMAIN issued'
         /\ \A n \in DOMAIN issued : issued'[n] = issued[n]
         /\ \A n \in DOMAIN issued' :
              \/ n \in DOMAIN issued
              \/ \E h \in Handlers : At(h, "issue") /\ issued'[n] = proc[h].token
<1>0. issued \in Seq(AuthToken) /\ proc \in [Handlers -> LocalStates]
  BY DEF IInv, TypeOK
<1>1. ASSUME NEW h \in Handlers, Issue(h)
      PROVE  /\ DOMAIN issued \subseteq DOMAIN issued'
             /\ \A n \in DOMAIN issued : issued'[n] = issued[n]
             /\ \A n \in DOMAIN issued' : n \in DOMAIN issued \/ issued'[n] = proc[h].token
  <2>1. PICK t : t = proc[h].token
    OBVIOUS
  <2>2. t \in AuthToken /\ issued' = Append(issued, t)
    BY <1>0, <1>1, <2>1, LocalFields DEF Issue, At
  <2>3. /\ issued' \in Seq(AuthToken) /\ Len(issued') = Len(issued) + 1
        /\ \A n \in 1..Len(issued) : issued'[n] = issued[n]
        /\ issued'[Len(issued) + 1] = t
    BY <1>0, <2>2, AppendProperties
  <2>4. /\ DOMAIN issued = 1..Len(issued) /\ Len(issued) \in Nat
        /\ DOMAIN issued' = 1..(Len(issued) + 1)
    BY <1>0, <2>3, LenProperties
  <2>. QED BY <2>1, <2>3, <2>4
<1>. QED BY <1>1, OnlyIssueIssues DEF Issue


-----------------------------------------------------------------------------
\* End to end.  A request verifies a token that psd issued.
Honest(c) == c.step # "idle" => \E n \in DOMAIN issued : c.token = ClaimsOf(issued[n], n)
RequestsHonest == \A v \in Requests : Honest(check[v])

LEMMA IssuedStays ==
  ASSUME IInv, Next
  PROVE  /\ DOMAIN issued \subseteq DOMAIN issued'
         /\ \A n \in DOMAIN issued : issued'[n] = issued[n]
BY IssuedGrows, RestartStep DEF Next, Restart

LEMMA HonestStep ==
  ASSUME IInv, R!IInv, RequestsHonest, [ChainNext]_chainVars
  PROVE  RequestsHonest'
<1>1. ASSUME NEW v \in Requests, NEW c, Moved(v, c), Honest(c), UNCHANGED issued
      PROVE  RequestsHonest'
  <2>1. \A w \in Requests : check'[w] = IF w = v THEN c ELSE check[w]
    BY <1>1, RequestsResolved DEF Moved
  <2>2. \A w \in Requests : Honest(check'[w])
    BY <1>1, <2>1 DEF RequestsHonest
  <2>. QED BY <1>1, <2>2 DEF RequestsHonest, Honest
<1>2. CASE PresentIssued /\ UNCHANGED vars
  <2>1. PICK v \in Requests, n \in DOMAIN issued, thumb \in AgentKeys :
          Present(v, ClaimsOf(issued[n], n), thumb)
    BY <1>2 DEF PresentIssued
  <2>2. PICK c : Moved(v, c) /\ c.token = ClaimsOf(issued[n], n)
    BY <2>1, PresentMoves
  <2>3. Honest(c) /\ UNCHANGED issued
    BY <1>2, <2>2 DEF Honest, vars, stores
  <2>. QED BY <1>1, <2>2, <2>3
<1>3. ASSUME NEW v \in Requests, Verify(v), UNCHANGED vars PROVE RequestsHonest'
  <2>1. PICK c : Moved(v, c) /\ Continues(check[v], c)
    BY <1>3, VerifyMoves
  <2>2. Honest(c) /\ UNCHANGED issued
    BY <1>3, <2>1 DEF Continues, RequestsHonest, Honest, Idle, vars, stores
  <2>. QED BY <1>1, <2>1, <2>2
<1>4. ASSUME UNCHANGED verifierVars, DOMAIN issued \subseteq DOMAIN issued',
             \A n \in DOMAIN issued : issued'[n] = issued[n]
      PROVE  RequestsHonest'
  BY <1>4 DEF RequestsHonest, Honest, ClaimsOf, verifierVars
<1>5. CASE Next /\ UNCHANGED verifierVars
  BY <1>4, <1>5, IssuedStays
<1>6. CASE UNCHANGED chainVars
  BY <1>4, <1>6 DEF chainVars, vars, stores
<1>. QED BY <1>2, <1>3, <1>5, <1>6 DEF ChainNext

\* What holds of an acceptance: the first half of ServedOnItsOwnChain.
OnItsChain(a) ==
  \E m \in DOMAIN issued :
    /\ a.token = ClaimsOf(issued[m], m)
    /\ a.thumb = issued[m].cnf
    /\ KeyRooted[a.boot] =>
         /\ a.psa = issued[m].psa /\ a.grant = issued[m].grant
         /\ a.thumb = a.grant.thumb

LEMMA AcceptanceOnItsChain ==
  ASSUME R!IInv, RequestsHonest, NEW v \in Requests, Accepts(v)
  PROVE  OnItsChain(Served(check[v]))
<1> DEFINE old == check[v]
<1>0. PICK a : a = Served(old)
  OBVIOUS
<1>1. /\ a.token = old.token /\ a.thumb = old.thumb /\ a.psa = old.psa
      /\ a.grant = old.grant /\ a.boot = 1
  BY <1>0, RequestsResolved DEF Served
<1>2. old.step # "idle" /\ old.token.cnf = old.thumb
  BY DEF Accepts, BeforeFirstFetch
<1>3. PICK m \in DOMAIN issued : old.token = ClaimsOf(issued[m], m)
  BY <1>2 DEF RequestsHonest, Honest
<1>4. /\ old.token.cnf = issued[m].cnf /\ old.token.psa.pin = issued[m].psa
      /\ old.token.grant = issued[m].grant
  BY <1>3 DEF ClaimsOf
<1>5. OnItsChain(a)
  BY <1>1, <1>2, <1>3, <1>4 DEF OnItsChain, Accepts
<1>. QED BY <1>0, <1>5

LEMMA ServedStep ==
  ASSUME IInv, R!IInv, RequestsHonest, ServedOnItsOwnChain, [ChainNext]_chainVars
  PROVE  ServedOnItsOwnChain'
<1>0. /\ \A n \in DOMAIN accepted : OnItsChain(accepted[n])
      /\ \A m, n \in DOMAIN accepted :
           accepted[m].token.jti = accepted[n].token.jti => m = n
  BY DEF ServedOnItsOwnChain, OnItsChain
<1>1. ASSUME NEW a, OnItsChain(a), DOMAIN issued \subseteq DOMAIN issued',
             \A n \in DOMAIN issued : issued'[n] = issued[n]
      PROVE  \E m \in DOMAIN issued' :
               /\ a.token = ClaimsOf(issued'[m], m)
               /\ a.thumb = issued'[m].cnf
               /\ KeyRooted[a.boot] =>
                    /\ a.psa = issued'[m].psa /\ a.grant = issued'[m].grant
                    /\ a.thumb = a.grant.thumb
  BY <1>1 DEF OnItsChain, ClaimsOf
<1>2. ASSUME UNCHANGED accepted, DOMAIN issued \subseteq DOMAIN issued',
             \A n \in DOMAIN issued : issued'[n] = issued[n]
      PROVE  ServedOnItsOwnChain'
  BY <1>0, <1>1, <1>2 DEF ServedOnItsOwnChain
<1>3. CASE Next /\ UNCHANGED verifierVars
  BY <1>2, <1>3, IssuedStays DEF verifierVars
<1>4. CASE UNCHANGED chainVars
  BY <1>2, <1>4 DEF chainVars, vars, stores, verifierVars
<1>5. CASE PresentIssued /\ UNCHANGED vars
  BY <1>2, <1>5, PresentMoves DEF PresentIssued, vars, stores
<1>6. ASSUME NEW v \in Requests, Verify(v), UNCHANGED vars PROVE ServedOnItsOwnChain'
  <2>0. UNCHANGED issued
    BY <1>6 DEF vars, stores
  <2>1. CASE accepted' = accepted
    BY <1>2, <2>0, <2>1
  <2>2. CASE Accepts(v)
    <3>1. PICK a : a = Served(check[v])
      OBVIOUS
    <3>2. OnItsChain(a) /\ a.token = check[v].token
      BY <2>2, <3>1, AcceptanceOnItsChain DEF Served
    <3>3. Longer(accepted, accepted', a)
      BY <2>2, <3>1, AcceptedGrows
    <3>4. PICK k : /\ DOMAIN accepted' = DOMAIN accepted \cup {k}
                   /\ \A n \in DOMAIN accepted : n # k /\ accepted'[n] = accepted[n]
                   /\ accepted'[k] = a
      BY <3>3 DEF Longer
    <3>5. \A n \in DOMAIN accepted : accepted[n].token.jti # a.token.jti
      BY <2>2, <3>2 DEF Accepts
    <3>6. \A n \in DOMAIN accepted' : OnItsChain(accepted'[n])
      BY <1>0, <3>2, <3>4
    <3>7. \A m, n \in DOMAIN accepted' :
            accepted'[m].token.jti = accepted'[n].token.jti => m = n
      BY <1>0, <3>4, <3>5
    <3>8. \A n \in DOMAIN accepted' : \E m \in DOMAIN issued' :
            /\ accepted'[n].token = ClaimsOf(issued'[m], m)
            /\ accepted'[n].thumb = issued'[m].cnf
            /\ KeyRooted[accepted'[n].boot] =>
                 /\ accepted'[n].psa = issued'[m].psa /\ accepted'[n].grant = issued'[m].grant
                 /\ accepted'[n].thumb = accepted'[n].grant.thumb
      BY <1>1, <2>0, <3>6
    <3>. QED BY <3>7, <3>8 DEF ServedOnItsOwnChain
  <2>. QED BY <1>6, <2>1, <2>2, VerifyMoves
<1>. QED BY <1>3, <1>4, <1>5, <1>6 DEF ChainNext

\* Whatever tenants, agents and restarts do at psd, the resource serves each of
\* psd's tokens once, to the holder of its key and, key-rooted, along the PSA
\* and the grant it was minted under (tokens.go:125-171, 222-294).
THEOREM EveryAcceptanceOnItsOwnChain == ChainSpec => []ServedOnItsOwnChain
<1>1. ChainInit => RequestsHonest /\ ServedOnItsOwnChain
  BY DEF ChainInit, VerifierInit, RequestsHonest, Honest, Idle, ServedOnItsOwnChain
<1>2. IInv /\ R!IInv /\ RequestsHonest /\ ServedOnItsOwnChain /\ [ChainNext]_chainVars
        => (RequestsHonest /\ ServedOnItsOwnChain)'
  BY HonestStep, ServedStep
<1>. QED BY <1>1, <1>2, ChainInvariance, PTL DEF ChainSpec

-----------------------------------------------------------------------------
\* Facing a resource, psd is the same program: what PersonServer_proofs and
\* ServerHistory_proofs prove of it holds of the composition.
THEOREM CompositionRunsTheServer == ChainSpec => Spec
<1>1. ChainInit => Init
  BY DEF ChainInit
<1>2. [ChainNext]_chainVars => [Next]_vars
  BY DEF ChainNext, chainVars
<1>. QED BY <1>1, <1>2, PTL DEF ChainSpec, Spec

\* Facing psd, the resource keeps the promise that it keeps against any world
\* (tokens.go:222-294; resd/main.go:102-139).
THEOREM ChainImplementsAcceptance == ChainSpec => R!AcceptanceSpec
<1>1. ChainInit => R!Promise!Init
  BY DEF ChainInit, VerifierInit, R!Promise!Init
<1>2. IInv /\ R!IInv /\ [ChainNext]_chainVars
        => [R!Promise!Next]_<<accepted, rsBoot>>
  <2> SUFFICES ASSUME IInv, R!IInv, [ChainNext]_chainVars
               PROVE  R!Promise!Next \/ UNCHANGED <<accepted, rsBoot>>
    OBVIOUS
  <2>1. ASSUME NEW v \in Requests, Verify(v), UNCHANGED vars
        PROVE  R!Promise!Next \/ UNCHANGED <<accepted, rsBoot>>
    <3>1. UNCHANGED <<now, revoked>>
      BY <2>1 DEF vars, stores, storeVars, tenantVars
    <3>2. R!Progress(v)
      BY <2>1, <3>1, VerifyIsProgress
    <3>. QED BY <3>2, R!ProgressKeepsPromise, WorldAssumption, CanonAssumption,
                WorldDocuments, VerifierAssumption
  <2>2. CASE PresentIssued
    BY <2>2, PresentMoves DEF PresentIssued
  <2>. QED BY <2>1, <2>2 DEF ChainNext, chainVars, verifierVars
<1>. QED BY <1>1, <1>2, ChainInvariance, PTL
         DEF ChainSpec, R!AcceptanceSpec, R!Promise!Spec

\* End to end: behind whatever a key-rooted resource serves of psd's tokens
\* stand one person's two signatures, over the PSA, which covers the key that
\* signed the token (whatever key the resource was given the second time), and
\* over the grant of the very agent key that made the request; the amount is
\* within that PSA's cap and, above the threshold that is enforced, signed for
\* by the same person; and as long as psd remembers, the request was approved.
\* Approval codes may repeat (tokens.go:222-294; server.go:170-245).
SignedFor(a, t) ==
  /\ a.token.key = t.key /\ a.psa = t.psa /\ a.grant = t.grant
  /\ t.psa.issuer = Issuer /\ t.key \in t.psa.keys
  /\ VerifyRootSig(t.psa.root, PSADigest(t.psa), t.psa.sig)
  /\ VerifyRootSig(t.psa.root, AgentGrantDigest(t.grant), t.grant.sig)
  /\ t.grant.agent = t.agent /\ t.grant.thumb = a.thumb
  /\ CheckPaymentEnvelope(t.psa.scope, t.ask.amount, t.stepUp # NoSig)
  /\ t.stepUp # NoSig =>
       /\ VerifyRootSig(t.psa.root, t.stepUp.digest, t.stepUp.sig)
       /\ t.stepUp.digest.id = t.id /\ t.stepUp.digest.ask = t.ask
  /\ t.key = IssuerKey => byID[t.id].state = "approved" /\ byID[t.id].ask = t.ask

ServedWasSignedFor ==
  \A n \in DOMAIN accepted : KeyRooted[accepted[n].boot] =>
    \E m \in DOMAIN issued : SignedFor(accepted[n], issued[m])

THEOREM EverythingServedWasSignedFor == ChainSpec => []ServedWasSignedFor
<1>1. IInv /\ ServedOnItsOwnChain => ServedWasSignedFor
  <2> SUFFICES ASSUME IInv, ServedOnItsOwnChain, NEW n \in DOMAIN accepted,
                      KeyRooted[accepted[n].boot]
               PROVE  \E m \in DOMAIN issued : SignedFor(accepted[n], issued[m])
    BY DEF ServedWasSignedFor
  <2>1. PICK a : a = accepted[n]
    OBVIOUS
  <2>2. PICK m \in DOMAIN issued : /\ a.token = ClaimsOf(issued[m], m)
                                   /\ a.psa = issued[m].psa /\ a.grant = issued[m].grant
                                   /\ a.thumb = a.grant.thumb
    BY <2>1 DEF ServedOnItsOwnChain
  <2>3. /\ ChainGood(issued[m]) /\ EnvelopeGood(issued[m])
        /\ issued[m].key = IssuerKey => Consented(issued[m])
    BY DEF IInv, TokensGood
  <2>4. a.token.key = issued[m].key
    BY <2>2 DEF ClaimsOf
  <2>5. SignedFor(a, issued[m])
    BY <2>2, <2>3, <2>4 DEF SignedFor, ChainGood, EnvelopeGood, Consented
  <2>. QED BY <2>1, <2>5
<1>. QED BY <1>1, ChainInvariance, EveryAcceptanceOnItsOwnChain, PTL

-----------------------------------------------------------------------------
\* What the last of a request's steps adds to what has been served.
LEMMA ServesOneMore ==
  ASSUME R!IInv, NEW v \in Requests, Accepts(v)
  PROVE  /\ \A p : check[v].token.psa.pin # p => ServedUnder(p)' = ServedUnder(p)
         /\ \A g : check[v].token.grant # g => ServedBy(g)' = ServedBy(g)
         /\ \A key : check[v].token.key # key => ServedSignedBy(key)' = ServedSignedBy(key)
<1>1. PICK a : a = Served(check[v])
  OBVIOUS
<1>2. a.token = check[v].token
  BY <1>1 DEF Served
<1>3. Longer(accepted, accepted', a)
  BY <1>1, AcceptedGrows
<1>4. PICK k : /\ DOMAIN accepted' = DOMAIN accepted \cup {k}
               /\ \A n \in DOMAIN accepted : n # k /\ accepted'[n] = accepted[n]
               /\ accepted'[k] = a
  BY <1>3 DEF Longer
<1>5. \A p : a.token.psa.pin # p => ServedUnder(p)' = ServedUnder(p)
  BY <1>4 DEF ServedUnder
<1>6. \A g : a.token.grant # g => ServedBy(g)' = ServedBy(g)
  BY <1>4 DEF ServedBy
<1>7. \A key : a.token.key # key => ServedSignedBy(key)' = ServedSignedBy(key)
  BY <1>4 DEF ServedSignedBy
<1>. QED BY <1>2, <1>5, <1>6, <1>7

\* A restart of psd is the end of every token before it, in the resource's
\* either mode, once no request has learnt the old key (psd/main.go:42-51;
\* resd/main.go:155-166).
THEOREM RetiredKeysAreRefused == ChainSpec => RetiredKeysServeNothing
<1> DEFINE StaysRetired(n) ==
      Retired(n)' /\ ServedSignedBy(IssuerKeys[n])' = ServedSignedBy(IssuerKeys[n])
<1>1. ASSUME IInv, NEW n \in 1..MaxBoots, Retired(n), psBoot' >= psBoot, psBoot' \in Nat,
             UNCHANGED verifierVars
      PROVE  StaysRetired(n)
  <2>1. n < psBoot'
    BY <1>1 DEF Retired, IInv, TypeOK
  <2>. QED BY <1>1, <2>1 DEF Retired, ServedSignedBy, verifierVars
<1>2. ASSUME IInv, R!IInv, UNCHANGED vars, NEW n \in 1..MaxBoots, Retired(n),
             NEW v \in Requests, NEW c, Moved(v, c),
             c.step \in BeforeFirstFetch \/ c.token.key # IssuerKeys[n]
      PROVE  Retired(n)'
  <2>1. \A w \in Requests : check'[w] = IF w = v THEN c ELSE check[w]
    BY <1>2, RequestsResolved DEF Moved
  <2>. QED BY <1>2, <2>1 DEF Retired, vars
<1>3. ASSUME IInv, R!IInv, UNCHANGED vars, NEW n \in 1..MaxBoots, Retired(n), PresentIssued
      PROVE  StaysRetired(n)
  <2>1. PICK v \in Requests, m \in DOMAIN issued, thumb \in AgentKeys :
          Present(v, ClaimsOf(issued[m], m), thumb)
    BY <1>3 DEF PresentIssued
  <2>2. PICK c : Moved(v, c) /\ c.step = "issuerKey"
    BY <2>1, PresentMoves
  <2>3. Retired(n)'
    BY <1>2, <1>3, <2>2 DEF BeforeFirstFetch
  <2>4. UNCHANGED accepted
    BY <2>1, PresentMoves
  <2>. QED BY <2>3, <2>4 DEF ServedSignedBy
<1>4. ASSUME IInv, R!IInv, UNCHANGED vars, NEW n \in 1..MaxBoots, Retired(n),
             NEW v \in Requests, Verify(v)
      PROVE  StaysRetired(n)
  <2>1. IssuerKeys[n] # IssuerKey
    <3>1. n < psBoot /\ psBoot \in 1..MaxBoots
      BY <1>4 DEF Retired, IInv, TypeOK
    <3>. QED BY <3>1, ServerAssumption DEF IssuerKey
  <2>2. check[v].step \in BeforeFirstFetch \/ check[v].token.key # IssuerKeys[n]
    BY <1>4 DEF Retired
  <2>3. PICK c : Moved(v, c) /\ Continues(check[v], c)
    BY <1>4, VerifyMoves
  <2>4. c.step \in BeforeFirstFetch \/ c.token.key # IssuerKeys[n]
    BY <2>1, <2>2, <2>3 DEF Continues, Idle, BeforeFirstFetch
  <2>5. Retired(n)'
    BY <1>2, <1>4, <2>3, <2>4
  <2>6. CASE accepted' = accepted
    BY <2>5, <2>6 DEF ServedSignedBy
  <2>7. CASE Accepts(v)
    <3>1. check[v].token.key # IssuerKeys[n]
      BY <2>2, <2>7 DEF Accepts
    <3>. QED BY <1>4, <2>5, <2>7, <3>1, ServesOneMore
  <2>. QED BY <1>4, <2>6, <2>7, VerifyMoves
<1>5. ASSUME IInv, R!IInv, ChainNext, NEW n \in 1..MaxBoots, Retired(n)
      PROVE  StaysRetired(n)
  <2>1. CASE Next /\ UNCHANGED verifierVars
    <3>1. psBoot' >= psBoot /\ psBoot' \in Nat
      BY <1>5, <2>1 DEF Next, Restart, IInv, TypeOK
    <3>. QED BY <1>1, <1>5, <2>1, <3>1
  <2>2. CASE (PresentIssued \/ \E v \in Requests : Verify(v)) /\ UNCHANGED vars
    BY <1>3, <1>4, <1>5, <2>2
  <2>. QED BY <1>5, <2>1, <2>2 DEF ChainNext
<1>6. IInv /\ R!IInv /\ [ChainNext]_chainVars
        => [\A n \in 1..MaxBoots : Retired(n) =>
              /\ Retired(n)'
              /\ ServedSignedBy(IssuerKeys[n])' = ServedSignedBy(IssuerKeys[n])]_chainVars
  BY <1>5
<1>. QED BY <1>6, ChainInvariance, PTL DEF ChainSpec, RetiredKeysServeNothing

\* Exit reaches the resource: a revocation stops every request that is not
\* past its check, for as long as psd keeps its registry (tokens.go:240-252;
\* psa.go:227-235, 262-269).  Both premises are needed: a resource with a
\* registry of its own never hears of it, and one that is not
\* key-rooted reads no document.
THEOREM ExitReachesTheResource ==
  ASSUME SharedRegistry, KeyRooted[1] PROVE ChainSpec => ExitReachesResource
<1> DEFINE StaysOut == /\ \A p \in PSADocs : Exited(p) =>
                            Exited(p)' /\ ServedUnder(p)' = ServedUnder(p)
                       /\ \A g \in GrantDocs :
                            ~ Live(g, revoked) => ServedBy(g)' = ServedBy(g)
<1>0. View(revoked) = revoked
  BY DEF View
<1>1. ASSUME revoked \subseteq revoked', UNCHANGED verifierVars PROVE StaysOut
  BY <1>1 DEF Exited, Live, ServedUnder, ServedBy, verifierVars
<1>2. ASSUME R!IInv, UNCHANGED revoked, NEW v \in Requests, NEW c, Moved(v, c),
             NEW p \in PSADocs, Exited(p), c.step \in PastPSACheck => c.token.psa.pin # p
      PROVE  Exited(p)'
  <2>1. \A w \in Requests : check'[w] = IF w = v THEN c ELSE check[w]
    BY <1>2, RequestsResolved DEF Moved
  <2>. QED BY <1>2, <2>1 DEF Exited, Live
<1>3. ASSUME R!IInv, UNCHANGED vars, PresentIssued PROVE StaysOut
  <2>1. PICK v \in Requests, m \in DOMAIN issued, thumb \in AgentKeys :
          Present(v, ClaimsOf(issued[m], m), thumb)
    BY <1>3 DEF PresentIssued
  <2>2. PICK c : Moved(v, c) /\ c.step = "issuerKey"
    BY <2>1, PresentMoves
  <2>3. UNCHANGED <<revoked, accepted>>
    BY <1>3, <2>1, PresentMoves DEF vars, stores, tenantVars
  <2>4. \A p \in PSADocs : Exited(p) => Exited(p)'
    BY <1>2, <1>3, <2>2, <2>3 DEF PastPSACheck
  <2>. QED BY <2>3, <2>4 DEF ServedUnder, ServedBy
<1>4. ASSUME R!IInv, UNCHANGED vars, NEW v \in Requests, Verify(v) PROVE StaysOut
  <2>0. UNCHANGED revoked
    BY <1>4 DEF vars, stores, tenantVars
  <2>1. PICK c : Moved(v, c) /\ Continues(check[v], c)
    BY <1>4, VerifyMoves
  <2>2. ASSUME NEW p \in PSADocs, Exited(p) PROVE Exited(p)'
    <3>1. c.step \in PastPSACheck => c.token.psa.pin # p
      BY <1>0, <1>4, <2>1, <2>2 DEF Continues, Idle, PastPSACheck, Exited
    <3>. QED BY <1>2, <1>4, <2>0, <2>1, <2>2, <3>1
  <2>3. CASE accepted' = accepted
    BY <2>2, <2>3 DEF ServedUnder, ServedBy
  <2>4. CASE Accepts(v)
    <3>1. check[v].step \in PastPSACheck /\ Live(check[v].token.grant, revoked)
      BY <1>0, <2>4 DEF Accepts
    <3>2. ASSUME NEW p \in PSADocs, Exited(p) PROVE ServedUnder(p)' = ServedUnder(p)
      <4>1. check[v].token.psa.pin # p
        BY <1>4, <3>1, <3>2 DEF Exited
      <4>. QED BY <1>4, <2>4, <4>1, ServesOneMore
    <3>3. ASSUME NEW g \in GrantDocs, ~ Live(g, revoked) PROVE ServedBy(g)' = ServedBy(g)
      <4>1. check[v].token.grant # g
        BY <3>1, <3>3
      <4>. QED BY <1>4, <2>4, <4>1, ServesOneMore
    <3>. QED BY <2>2, <3>2, <3>3
  <2>. QED BY <1>4, <2>3, <2>4, VerifyMoves
<1>5. ASSUME IInv, R!IInv, ChainNext, psBoot' = psBoot PROVE StaysOut
  <2>1. CASE Next /\ UNCHANGED verifierVars
    <3>1. Restart => psBoot' # psBoot
      BY <1>5 DEF IInv, TypeOK, Restart
    <3>. QED BY <1>1, <1>5, <2>1, <3>1, RevokedStays DEF Next
  <2>2. CASE (PresentIssued \/ \E v \in Requests : Verify(v)) /\ UNCHANGED vars
    BY <1>3, <1>4, <1>5, <2>2
  <2>. QED BY <1>5, <2>1, <2>2 DEF ChainNext
<1>6. IInv /\ R!IInv /\ [ChainNext]_chainVars => [psBoot' = psBoot => StaysOut]_chainVars
  BY <1>5
<1>. QED BY <1>6, ChainInvariance, PTL DEF ChainSpec, ExitReachesResource
=============================================================================
