------------------------------- MODULE Chain --------------------------------
(***************************************************************************)
(* The person server and the resource together: tokens that psd issued are *)
(* presented to resd, which resolves the issuer's key, the PSA and the     *)
(* grant at the psd that is running by then.                               *)
(*                                                                         *)
(* Between the mint and the last check the tenant may replace its PSA, the *)
(* agent's grant may be renewed, either may be revoked or run out, and psd *)
(* may restart.  The network is reliable here: Resource has it fail.  With *)
(* SharedRegistry the resource sees psd's registry.                        *)
(***************************************************************************)
EXTENDS PersonServer, Verifier

chainVars == <<vars, verifierVars>>

\* There is always a key to fetch, a reference to a PSA is something, and the
\* resource, which does not restart here, is of one mode or the other.
ASSUME ChainAssumption ==
  /\ KeyRooted[1] \in BOOLEAN
  /\ \A n \in 1..MaxBoots : IssuerKeys[n] # None
  /\ None \notin [at : Addrs, pin : PSADocs]

\* Mint: what the claims of the n-th token say.  ttl is a Duration, exp whole
\* seconds.
ClaimsOf(t, n) ==
  [typ |-> "auth+jwt", iss |-> t.psa.issuer, aud |-> t.ask.resource, jti |-> n,
   agent |-> t.agent, cnf |-> t.cnf,
   iat |-> t.iat, exp |-> t.iat + (TokenTTL(t.psa.scope) \div TicksPerSecond),
   sub |-> t.psa.root,
   psa |-> [at |-> t.psa.root, pin |-> t.psa], grant |-> t.grant,
   key |-> t.key]

\* The public endpoints verifiers resolve by: /jwks.json, /psa/{root} and
\* /grants/{s256}.
JWKS == IssuerKey
ServePSA(root) == psaOf[root]
ServeCurrentGrant(g) == IF grantOf[g.root][g.agent] = g THEN g ELSE None
ServeGrant(g) == IF g \in byGrantS256 THEN g ELSE None

ChainInit == Init /\ VerifierInit

PresentIssued == \E v \in Requests, n \in DOMAIN issued, thumb \in AgentKeys :
  Present(v, ClaimsOf(issued[n], n), thumb)

Verify(v) ==
  \/ FetchIssuerKey(v, JWKS)
  \/ Layer1Refused(v, now)
  \/ ServeVanilla(v, now) \/ RefuseUnrooted(v, now) \/ StartLayer2(v, now)
  \/ FetchPSA(v, ServePSA(check[v].token.psa.at))
  \/ FetchIssuerThumb(v, JWKS)
  \/ CheckPSA(v, now, revoked)
  \/ FetchGrant(v, ServeGrant(check[v].token.grant))
  \/ CheckGrantPassed(v, now, revoked)
  \/ CheckGrantRefused(v, now, revoked)

ChainNext ==
  \/ Next /\ UNCHANGED verifierVars
  \/ (PresentIssued \/ \E v \in Requests : Verify(v)) /\ UNCHANGED vars

ChainSpec == ChainInit /\ [][ChainNext]_chainVars

-----------------------------------------------------------------------------
Refused(v) == ~ Doing(v, "idle") /\ Doing(v, "idle")' /\ accepted' = accepted

\* Why a token of an honest person server may be refused, at the step where
\* it is.
Cause(v) ==
  LET t == check[v].token IN
    \/ t.key # IssuerKey                      \* psd has restarted since
    \/ /\ Doing(v, "layer1")
       /\ ~ ForThisRequest(t, check[v].thumb, now) \/ t.jti \in seen
    \/ Doing(v, "psa") /\ psaOf[t.sub] # t.psa.pin    \* the PSA was replaced
    \/ /\ Doing(v, "verifyPSA")
       /\ ~ (InWindow(t.psa.pin, now) /\ Live(t.psa.pin, revoked))
    \/ /\ Doing(v, "verifyGrant")
       /\ \/ ~ (InWindow(t.grant, now) /\ Live(t.grant, revoked))
          \/ t.grant.thumb # t.cnf            \* its transport key is another

\* Everything the person server hands out resolves and verifies at the
\* resource: a token is refused only for one of the causes above.  A renewed
\* grant does not strand the tokens under the old one, while a replaced PSA
\* does (tokens.go:222-294; server.go:277-296; tenants.go:108-124).
NoFalseRefusal ==
  [][ rsBoot' = rsBoot => \A v \in Requests : Refused(v) => Cause(v) ]_chainVars

\* Exit reaches the resource that shares the registry: once a document is
\* revoked and no request is past its check, no token under it is served
\* again, as long as psd keeps its registry (tokens.go:240-252;
\* psa.go:227-235, 262-269).
PastPSACheck == {"grant", "verifyGrant"}
Exited(p) == /\ ~ Live(p, revoked)
             /\ \A v \in Requests :
                  check[v].step \in PastPSACheck => check[v].token.psa.pin # p
ServedUnder(p) == {n \in DOMAIN accepted : accepted[n].token.psa.pin = p}
ServedBy(g) == {n \in DOMAIN accepted : accepted[n].token.grant = g}
ExitReachesResource ==
  [][ psBoot' = psBoot =>
        /\ \A p \in PSADocs : Exited(p) =>
             Exited(p)' /\ ServedUnder(p)' = ServedUnder(p)
        /\ \A g \in GrantDocs :
             ~ Live(g, revoked) => ServedBy(g)' = ServedBy(g) ]_chainVars

\* End to end: whatever the resource serves, it serves once, on a token that
\* psd handed out, to the holder of the token's key; key-rooted, along the very
\* PSA and grant the token was minted under, whatever replaced them since, and
\* only where the grant's two keys are one (tokens.go:125-171, 222-294).
ServedOnItsOwnChain ==
  /\ \A n \in DOMAIN accepted :
       LET a == accepted[n] IN
         \E m \in DOMAIN issued :
           /\ a.token = ClaimsOf(issued[m], m)
           /\ a.thumb = issued[m].cnf
           /\ KeyRooted[a.boot] =>
                /\ a.psa = issued[m].psa /\ a.grant = issued[m].grant
                /\ a.thumb = a.grant.thumb
  /\ \A m, n \in DOMAIN accepted :
       accepted[m].token.jti = accepted[n].token.jti => m = n

\* A restart of psd is the end of every token before it: once no request is
\* past its first fetch of the key set with a token under the old key, none is
\* served any more, whatever the person posts at the new psd (psd/main.go:42-51;
\* resd/main.go:155-166).
BeforeFirstFetch == {"idle", "issuerKey"}
Retired(n) == /\ n < psBoot
              /\ \A v \in Requests :
                   check[v].step \in BeforeFirstFetch \/ check[v].token.key # IssuerKeys[n]
ServedSignedBy(key) == {n \in DOMAIN accepted : accepted[n].token.key = key}
RetiredKeysServeNothing ==
  [][ \A n \in 1..MaxBoots : Retired(n) =>
        /\ Retired(n)'
        /\ ServedSignedBy(IssuerKeys[n])' = ServedSignedBy(IssuerKeys[n]) ]_chainVars
=============================================================================
