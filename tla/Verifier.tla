------------------------------ MODULE Verifier ------------------------------
(***************************************************************************)
(* tokens.Verifier in cmd/resd: one whoami request after the other brings  *)
(* an auth token through Layer 1 (standard AAuth) and, where the resource  *)
(* demands key-rooting, Layer 2 (the chain from the root to this request). *)
(*                                                                         *)
(* check[v] holds the local variables of request v.  Its steps are the     *)
(* points at which it learns something from outside: four fetches over     *)
(* HTTP (the issuer's key set twice), the clock, the registry and the      *)
(* replay cache.  An operator takes what it learns as an argument: None is *)
(* a fetch that failed.  Resource and Chain build their actions from them. *)
(*                                                                         *)
(* A token is its claims: sub is the address in the CAIP-10 identifier,    *)
(* key the issuer key that signed it, psa the reference to a PSA (whose    *)
(* address it is served at, and the pin, the content it must have) or      *)
(* None, grant the grant it pins, and cnf a thumbprint.  JWT encoding and  *)
(* Ed25519 are ideal.                                                      *)
(***************************************************************************)
EXTENDS Attest, Sequences

CONSTANTS Requests,        \* the whoami goroutines
          Self,            \* this resource's URL
          KeyRooted,       \* boot -> its -require-key-rooted: Layer 2 is demanded
          SharedRegistry,  \* FALSE: resd's alwaysLive; TRUE: wired to the registry
          LongestLife,     \* seconds in a day
          Fold             \* Fold[a]: address string a with its letters folded

ASSUME VerifierAssumption ==
  /\ SharedRegistry \in BOOLEAN
  /\ LongestLife \in Nat
  /\ \A a, b \in Addrs : Fold[a] = Fold[b] => Canon[a] = Canon[b]

VARIABLES seen,      \* replayCache: the jtis spent since resd started
          check,     \* request -> its local state
          rsBoot,    \* which boot of resd is running
          accepted   \* the requests served, in order, with the chain each one saw
verifierVars == <<seen, check, rsBoot, accepted>>

Idle == [step |-> "idle", token |-> None, thumb |-> None, key |-> None,
         psa |-> None, grant |-> None]

VerifierInit == /\ seen = {}
                /\ check = [v \in Requests |-> Idle]
                /\ rsBoot = 1
                /\ accepted = <<>>

Doing(v, step) == check[v].step = step

\* What the registry tells this resource.
View(revoked) == IF SharedRegistry THEN revoked ELSE {}

\* CAIP-10 identifiers are compared letter by letter, case folded: unlike
\* AddrEq, a missing 0x is a difference.
CaipEq(a, b) == Fold[a] = Fold[b]

-----------------------------------------------------------------------------
\* 403: an error at any point ends the request.
Refuse(v) == /\ check' = [check EXCEPT ![v] = Idle]
             /\ UNCHANGED <<seen, rsBoot, accepted>>
Proceed(v, local) == /\ check' = [check EXCEPT ![v] = local]
                     /\ UNCHANGED <<seen, rsBoot, accepted>>

\* The peer never answers.  Nothing ends such a request but a restart: whoami
\* passes a background context, the default client has no timeout.
Fetching(v) == check[v].step \in {"issuerKey", "psa", "issuerThumb", "grant"}
Hang(v) ==
  /\ Fetching(v)
  /\ Proceed(v, [Idle EXCEPT !.step = "hung", !.token = check[v].token])

\* 200.  An acceptance keeps the documents that closed the chain: psa and
\* grant are None where Layer 2 did not run.
Served(c) == [token |-> c.token, thumb |-> c.thumb, key |-> c.key,
              psa |-> c.psa, grant |-> c.grant, boot |-> rsBoot]
Accept(v) == /\ accepted' = Append(accepted, Served(check[v]))
             /\ check' = [check EXCEPT ![v] = Idle]

\* whoami: a token and the key that signed the request.  Another typ (the
\* resource's own aa-resource+jwt, say) is refused before anything else.
Present(v, t, thumb) ==
  /\ Doing(v, "idle")
  /\ t.typ = "auth+jwt"
  /\ Proceed(v, [Idle EXCEPT !.step = "issuerKey", !.token = t, !.thumb = thumb])

\* parseAndCheckSig: the first key the issuer serves must verify the token.
FetchIssuerKeyUnverified(v, key) ==
  /\ Doing(v, "issuerKey")
  /\ IF key # None
       THEN Proceed(v, [check[v] EXCEPT !.step = "layer1"])
       ELSE Refuse(v)
FetchIssuerKey(v, key) ==
  /\ Doing(v, "issuerKey")
  /\ IF key = check[v].token.key
       THEN Proceed(v, [check[v] EXCEPT !.step = "layer1"])
       ELSE Refuse(v)

\* verifyLayer1 up to the replay cache.
ForThisRequest(t, thumb, time) ==
  /\ t.aud = Self
  /\ time < t.exp /\ t.exp - t.iat <= LongestLife
  /\ t.cnf = thumb

\* SeenJTI tests and records under one lock; what follows it, up to the next
\* fetch, is local to the request.  A resource that demands key-rooting finds
\* out here that the token has no chain at all.
Layer1RefusedNoReplay(v, time) ==
  /\ Doing(v, "layer1")
  /\ ~ ForThisRequest(check[v].token, check[v].thumb, time)
  /\ Refuse(v)
Layer1Refused(v, time) ==
  /\ Doing(v, "layer1")
  /\ \/ ~ ForThisRequest(check[v].token, check[v].thumb, time)
     \/ check[v].token.jti \in seen
  /\ Refuse(v)

SeenJTIUnrecorded(jti) == UNCHANGED seen
SeenJTI(jti) == seen' = seen \cup {jti}

\* With the cache's lock kept until the answer is written.
SpendForThisRequestLocked(v, time) ==
  LET t == check[v].token IN
    /\ Doing(v, "layer1")
    /\ \A w \in Requests : check[w].step \in {"idle", "issuerKey", "layer1"}
    /\ ForThisRequest(t, check[v].thumb, time)
    /\ t.jti \notin seen
    /\ SeenJTI(t.jti)
    /\ UNCHANGED rsBoot
SpendForThisRequest(v, time) ==
  LET t == check[v].token IN
    /\ Doing(v, "layer1")
    /\ ForThisRequest(t, check[v].thumb, time)
    /\ t.jti \notin seen
    /\ SeenJTI(t.jti)
    /\ UNCHANGED rsBoot

\* VerifyVanilla, and Verify of a resource that requires the chain.
ServeVanilla(v, time) ==
  /\ ~ KeyRooted[rsBoot]
  /\ SpendForThisRequest(v, time)
  /\ Accept(v)

RefuseUnrooted(v, time) ==
  /\ KeyRooted[rsBoot]
  /\ SpendForThisRequest(v, time)
  /\ check[v].token.psa = None
  /\ check' = [check EXCEPT ![v] = Idle]
  /\ UNCHANGED accepted

StartLayer2Always(v, time) ==
  /\ KeyRooted[rsBoot]
  /\ SpendForThisRequest(v, time)
  /\ check' = [check EXCEPT ![v].step = "psa"]
  /\ UNCHANGED accepted
StartLayer2(v, time) ==
  /\ KeyRooted[rsBoot]
  /\ SpendForThisRequest(v, time)
  /\ check[v].token.psa # None
  /\ check' = [check EXCEPT ![v].step = "psa"]
  /\ UNCHANGED accepted

-----------------------------------------------------------------------------
\* attestResolver.PSA: the content the token pins, where it pins one.
FetchPSAUnpinned(v, p) ==
  /\ Doing(v, "psa")
  /\ IF p # None
       THEN Proceed(v, [check[v] EXCEPT !.step = "issuerThumb", !.psa = p])
       ELSE Refuse(v)
FetchPSA(v, p) ==
  /\ Doing(v, "psa")
  /\ IF p # None /\ check[v].token.psa.pin \in {None, p}
       THEN Proceed(v, [check[v] EXCEPT !.step = "issuerThumb", !.psa = p])
       ELSE Refuse(v)

\* issuerThumbFromHeader: the key set is fetched a second time, and what it
\* holds now is what the PSA is held against, not the key of the signature.
FetchIssuerThumb(v, key) ==
  /\ Doing(v, "issuerThumb")
  /\ IF key # None
       THEN Proceed(v, [check[v] EXCEPT !.step = "verifyPSA", !.key = key])
       ELSE Refuse(v)

CheckPSAAnySub(v, time, revoked) ==
  LET c == check[v] IN
    /\ Doing(v, "verifyPSA")
    /\ IF VerifyPSA(c.psa, c.token.iss, c.key, time, View(revoked))
         THEN Proceed(v, [c EXCEPT !.step = "grant"])
         ELSE Refuse(v)
CheckPSA(v, time, revoked) ==
  LET c == check[v] IN
    /\ Doing(v, "verifyPSA")
    /\ IF /\ VerifyPSA(c.psa, c.token.iss, c.key, time, View(revoked))
          /\ CaipEq(c.psa.root, c.token.sub)
         THEN Proceed(v, [c EXCEPT !.step = "grant"])
         ELSE Refuse(v)

\* attestResolver.AgentGrant
FetchGrant(v, g) ==
  /\ Doing(v, "grant")
  /\ IF g # None /\ g = check[v].token.grant
       THEN Proceed(v, [check[v] EXCEPT !.step = "verifyGrant", !.grant = g])
       ELSE Refuse(v)

\* The chain is closed: root, PS key, token, agent key, this request.
CheckGrantPassed(v, time, revoked) ==
  LET c == check[v] IN
    /\ Doing(v, "verifyGrant")
    /\ VerifyAgentGrant(c.grant, c.psa.root, c.token.agent, c.token.cnf, time,
                        View(revoked))
    /\ Accept(v)
    /\ UNCHANGED <<seen, rsBoot>>
CheckGrantRefused(v, time, revoked) ==
  LET c == check[v] IN
    /\ Doing(v, "verifyGrant")
    /\ ~ VerifyAgentGrant(c.grant, c.psa.root, c.token.agent, c.token.cnf, time,
                          View(revoked))
    /\ Refuse(v)

\* A registry that does not answer: both verifications fail closed.
RegistryUnavailable(v) ==
  /\ SharedRegistry
  /\ Doing(v, "verifyPSA") \/ Doing(v, "verifyGrant")
  /\ Refuse(v)

\* resd stops and starts again: the replay cache is gone, and so is every
\* request in progress.
RestartResource ==
  /\ seen' = {}
  /\ check' = [v \in Requests |-> Idle]
  /\ rsBoot' = rsBoot + 1
  /\ UNCHANGED accepted
=============================================================================
