------------------------------ MODULE Resource ------------------------------
(***************************************************************************)
(* cmd/resd alone against the world: requests arrive with any token and    *)
(* any key, and whatever a request fetches may be any key, any document or *)
(* no answer at all, another one at each fetch.                            *)
(*                                                                         *)
(* Chain has the same verifier face the person server of this repository.  *)
(***************************************************************************)
EXTENDS Verifier

CONSTANTS JWTs,         \* the tokens anyone may present
          AgentKeys,    \* thumbprints of the keys requests are signed with
          KeySets,      \* the first keys that issuers may serve
          Handles,      \* the (root, nonce) pairs that roots may revoke
          MaxTime,      \* bound on the clock
          MaxRsBoots,   \* bound on the boots of resd
          MaxAccepted   \* bound on the acceptances

ASSUME ResourceAssumption ==
  /\ MaxTime \in Nat /\ MaxRsBoots \in Nat \ {0} /\ MaxAccepted \in Nat
  /\ \A n \in 1..MaxRsBoots : KeyRooted[n] \in BOOLEAN
  /\ \A t \in JWTs : t.sub \in Addrs

VARIABLES now,      \* the clock
          revoked   \* the registry
world == <<now, revoked>>
vars == <<verifierVars, world>>

Init == VerifierInit /\ now = 0 /\ revoked = {}

Answers(S) == S \cup {None}

\* One step of request v.
Progress(v) ==
  /\ UNCHANGED world
  /\ \/ \E key \in Answers(KeySets) : FetchIssuerKey(v, key) \/ FetchIssuerThumb(v, key)
     \/ Layer1Refused(v, now)
     \/ ServeVanilla(v, now) \/ RefuseUnrooted(v, now) \/ StartLayer2(v, now)
     \/ \E p \in Answers(PSADocs) : FetchPSA(v, p)
     \/ CheckPSA(v, now, revoked)
     \/ \E g \in Answers(GrantDocs) : FetchGrant(v, g)
     \/ CheckGrantPassed(v, now, revoked)
     \/ CheckGrantRefused(v, now, revoked)
     \/ RegistryUnavailable(v)

Arrive == \E v \in Requests, t \in JWTs, thumb \in AgentKeys :
  /\ Len(accepted) < MaxAccepted
  /\ Present(v, t, thumb)
  /\ UNCHANGED world

Stall == \E v \in Requests : Hang(v) /\ UNCHANGED world

Restart == rsBoot < MaxRsBoots /\ RestartResource /\ UNCHANGED world

Tick == now < MaxTime /\ now' = now + 1 /\ UNCHANGED <<verifierVars, revoked>>

Revoke == \E handle \in Handles \ revoked :
  revoked' = revoked \cup {handle} /\ UNCHANGED <<verifierVars, now>>

Next == (\E v \in Requests : Progress(v)) \/ Stall \/ Arrive \/ Restart \/ Tick \/ Revoke

Spec == Init /\ [][Next]_vars

\* Every goroutine is scheduled, and a fetch that does not hang ends, with an
\* answer or an error.  Nothing is assumed of which fetches hang.
FairSpec == Spec /\ \A v \in Requests : WF_vars(Progress(v))
-----------------------------------------------------------------------------
Acceptance == [token : JWTs, thumb : AgentKeys, key : Answers(KeySets),
               psa : Answers(PSADocs), grant : Answers(GrantDocs), boot : Nat]

Steps == {"idle", "hung", "issuerKey", "layer1", "psa", "issuerThumb", "verifyPSA",
          "grant", "verifyGrant"}
Local == [step : Steps, token : Answers(JWTs), thumb : Answers(AgentKeys),
          key : Answers(KeySets), psa : Answers(PSADocs),
          grant : Answers(GrantDocs)]

\* What a request in each of its steps holds.
LocalOK(c) ==
  /\ c.step # "idle" => c.token \in JWTs
  /\ c.step \notin {"idle", "hung"} => c.thumb \in AgentKeys
  /\ c.step \in {"psa", "issuerThumb", "verifyPSA", "grant", "verifyGrant"}
       => KeyRooted[rsBoot] /\ c.token.psa # None
  /\ c.step \in {"issuerThumb", "verifyPSA", "grant", "verifyGrant"} => c.psa # None
  /\ c.step = "verifyGrant" => c.grant # None

TypeOK == /\ seen \subseteq {t.jti : t \in JWTs}
          /\ check \in [Requests -> Local]
          /\ \A v \in Requests : LocalOK(check[v])
          /\ rsBoot \in 1..MaxRsBoots
          /\ accepted \in Seq(Acceptance)
          /\ now \in Nat
          /\ revoked \subseteq Handles

\* The resource keeps its promise against any world: two presentations of one
\* token race for its jti, documents and keys change between two fetches, the
\* clock runs and the registry comes and goes, and still everything served is
\* Acceptance's (tokens.go:222-294).
Promise == INSTANCE Acceptance WITH history <- accepted, boot <- rsBoot
AcceptanceSpec == Promise!Spec

\* Every request is answered unless one of its own fetches hangs: neither a
\* refusal nor a verdict leaves it between two steps, nor does any other request
\* that hangs for ever with a jti spent (tokens.go:222-255, 290; resd/main.go:
\* 112, 224-233, 250).
RequestsAnswered == \A v \in Requests :
  ~ Doing(v, "idle") ~> Doing(v, "idle") \/ Doing(v, "hung")

\* tokens.go:253: "Chain closed: root -> PS key -> token -> agent key -> this
\* very request."  What is served in the key-rooted mode was signed with a key
\* that the root's PSA covers.
SignedByCoveredKey ==
  \A n \in DOMAIN accepted :
    KeyRooted[accepted[n].boot] => accepted[n].token.key \in accepted[n].psa.keys

\* tokens.go:284-290: "Only a token that is otherwise valid spends its jti."
\* Every jti in the cache is that of a request served since resd started, or
\* of one still on its way.
OnlyAcceptedSpend ==
  \A jti \in seen :
    \/ \E n \in DOMAIN accepted : accepted[n].boot = rsBoot /\ accepted[n].token.jti = jti
    \/ \E v \in Requests : ~ Doing(v, "idle") /\ check[v].token.jti = jti
=============================================================================
