# A TLA+ verification of signet-ps

signet-ps is a *non-custodial person server* for AAuth: agents ask it for
auth tokens, persons decide, and everything it mints must hang from a
person's own secp256k1 **root key**, never from the server's word. DESIGN.md
states five invariants (I1 attested minting, I2 exit, I3 step-up, I4 a registry
the server does not control, I5 portability). This directory models the Go code
that is supposed to keep them, from the wallet that signs a document to the
resource that serves a request, checks the models with TLC on small instances
and proves the main results with TLAPS for every value of the constants.

## 1. The system

| Component | State it keeps | Operations | Interacts with |
|---|---|---|---|
| `internal/consent` consent store | `byID`, `byCode`; a request's state, step-up signature, deadline | `Create`, `Poll`, `ApproveRoutine`, `ApproveElevated`, `Deny`, expiry | called by the handlers; hands out pointers into its map |
| `internal/attest` attestations | none | `PSADigest`, `AgentGrantDigest`, `VerifyPSA`, `VerifyAgentGrant`, `ContentHash` | asks the registry; reads the clock |
| `internal/store` tenants | `byRoot` (a tenant: PSA, grants, log), `byAgent`, `byGrantS256` | `Onboard`, `Enroll`, the lookups | called by the handlers |
| `internal/store` registry | revoked (root, nonce) pairs | `Revoke`, `IsRevoked` | asked by `attest` |
| `internal/missions` | per agent a hash-chained log | `Append`, `Export`, `Consistent` | called by the handlers |
| `internal/tokens` minting | none | `Mint`, `checkPaymentEnvelope`, TTL clamp | called by `finish` |
| `internal/tokens` verification | replay cache, through an interface | `Verify`, `VerifyVanilla` | called by `resd`; fetches JWKS, PSA and grant from the server |
| `internal/server` | owns one of each store | ten HTTP endpoints, one goroutine per request | all of the above |
| `cmd/psd` | all in memory, a fresh issuer key per boot | wiring, `/dev/revoke` | |
| `cmd/resd` resource server | replay cache | challenge, whoami | verifies tokens, fetches by reference |
| `cmd/devtool` | files | makes and signs documents, approvals, revocations | plays the wallet |

**What makes each correct.**
- *Consent store*: one verdict per request, only inside the window, never taken
  back; an elevated request only with a root signature over that request;
  polling without influence.
- *Attestations, tenants, registry*: only documents signed by the root they
  name come into force; one person per agent; replacement keeps grants and log;
  a revoked document that is out stays out.
- *Minting and mission log*: every token is inside the PSA it is minted under
  (cap, step-up threshold, TTL), follows a consent, and is accounted for in the
  log.
- *Verification and resource*: each token is served once per boot, to the holder
  of the key it names, and under key-rooting only along two documents that one
  root signed, for a key the issuer serves; every request whose fetches end is
  answered; nothing that the server honestly issued is refused without a cause.

**Behaviours that are hard.** Handlers run concurrently and take several locks
one after another, so every check may be stale when it is used. Verdicts are
look-up, check, commit in separate critical sections. `poll` and `finish` read
a request's state and signature with no lock; `tenant.PSA` is replaced and read
with no lock. A verification makes four fetches, the key set twice, and reads
clock and registry after each; PSAs are replaced, grants renewed, documents
revoked and either server restarted anywhere between a request and its token,
or a token and its last check. Expiry is applied lazily. Agents retry polls and
presentations. Approval codes are short and may repeat. PROJECT.json `hazards`
lists these at their lines with the properties that watch them.

## 2. The modules

| Module | Models | How state and actions correspond |
|---|---|---|
| `Signatures` | address strings, ideal root signatures | `Canon` gives the root a string names; `AddrEq` is the normalised comparison, `=` the raw one used for map keys |
| `ConsentStore` | `consent.Store` | `byID`, `byCode`, `now`; one operator per critical section (`StoreCreate`, `StorePoll`, `StoreStepUpSig`, `Transition`) |
| `ConsentDecision` | what the store promises | abstract: `Open`, `Decide`, `Pass` over one `outcome` per request |
| `Consent` | the store's callers | `calls[c]`: the verdict goroutine c is delivering; `Click`, `SignOff`, `Deny` are the look-ups, `StoreSignature` and `Commit` the later critical sections |
| `Wei` | the JSON strings of amounts and scopes | one string, two readings: `Hashed` is what a root's signature covers (`orZero`, then a hex-or-decimal uint256), `BigOrZero` what is enforced (base 10 only) |
| `Attest` | PSAs, grants, their digests and checks | pure operators; a content hash is the document itself |
| `Wallet` | `cmd/devtool` | what `gen-agent`, `sign-psa`, `sign-grant`, `sign-approval` and `revoke` write; the MC modules make their documents with it |
| `Envelope` | `tierFor`, `checkPaymentEnvelope`, the TTL clamp | pure operators on what `BigOrZero` reads; durations wrap at `HalfRange` |
| `Tiering` | the scope and the amount that meet there | `scope`, `amount`: `Replace` is a tenant's next PSA, `Ask` an agent's next request |
| `Tenants` | tenants and `MemoryRegistry` | `psaOf`, `grantOf`, `byAgent`, `byGrantS256`, `revoked`; one operator per critical section |
| `PersonServer` | psd: the handlers over all stores, and its restart | `proc[h]`: handler h's locals between two critical sections; one action per critical section; `log`, `psBoot`, and `issued`, the history of tokens handed out |
| `Acceptance` | what a resource promises | abstract: `Serve` and `Forget` over the history of acceptances |
| `Verifier` | `tokens.Verify`, `VerifyVanilla`, resd's whoami, resolvers and replay cache | `check[v]`: request v's locals, one step per thing it learns from outside, and `Hang` for a fetch without an end; `seen`, `rsBoot`, `accepted` |
| `Resource` | resd against any world | every fetch answers with any key, any document or an error, or hangs (`Stall`); revocations, time, restarts |
| `Chain` | psd and resd together | `Verifier` resolves at `PersonServer`'s own JWKS, PSA and grant endpoints and presents what it issued |
| `MCConsent`, `MCPersonServer`, `MCEnvelope`, `MCResource`, `MCChain` | instances for TLC | documents, tokens, asks and bounds |
| `*_proofs` | theorems, see section 5 | `Consent`, `ConsentStore`, `Envelope`, `PersonServer`, `ServerHistory`, `Resource`, `Chain`, `Refusals` |

`PersonServer` and `Consent` are both built from `ConsentStore`, and `Resource`
and `Chain` from `Verifier`, so each critical section and each verification step
is written once. `PersonServer` adds `Tenants` (which extends `Attest`) and
`Envelope`, both over `Wei`; `Chain` is `PersonServer` and `Verifier` side by side.

**psd's handlers as steps.** `POST /psa` is `Onboard` (all of `VerifyPSA`) then
`OnboardCommit`. `POST /agents` is `Enroll`, `EnrollCommit`, `EnrollLog`.
`POST /token` is `Token` (tenancy, key, mission), `TokenCreate` (tier and
`Create`), `TokenLog` (log entry, 202). `GET /pending/{id}` is `Poll`,
`ReadState`, `Mint`, `Issue`. `GET /approve/{code}` is `ApprovePage`,
`ClickLookup`, `Approve`; `POST /approve/{code}/signature` is
`ApproveElevated`, `VerifyLookup`, `SetSig`, `Approve`. `/dev/revoke` is
`Revoke`. A handler that returns an error before it has changed anything takes
no step. `Restart` is psd stopped and started: all stores, the registry
included, are in memory and gone, the issuer key is new, handlers in flight are
lost. In `Chain`, `/jwks.json`, `/psa/{root}` and `/grants/{s256}` are `JWKS`,
`ServePSA` and `ServeGrant`.

**resd's whoami as steps.** `Present`; `FetchIssuerKey` (first use of the key
set, and the token's signature); `Layer1Refused`, `ServeVanilla`,
`RefuseUnrooted` or `StartLayer2` (audience, lifetime, cnf, and the jti tested
and recorded under one lock); `FetchPSA` (pin); `FetchIssuerThumb` (second use
of the key set); `CheckPSA` (`VerifyPSA` and sub); `FetchGrant`;
`CheckGrantPassed` or `CheckGrantRefused`. `RegistryUnavailable` fails closed.
`RestartResource` empties the replay cache and drops the requests in flight. A
fetch may also never end: `Hang`, after which only a restart frees the request.

**Abstractions.** Signatures and hashes are ideal, JWTs are their claims and
the key that signed them. Two notions of one address are kept apart where the
code does: `Canon` (20 bytes, for signatures), `Fold` (case-folded letters, for
CAIP-10 identifiers) and the raw string (map keys, registry, grant root). A request keeps
one `ask` for its resource, amount, scope list and `ResourceJSON`, which are
copies of one resource token. Agents and persons learn an id and a code from
the 202 reply (`Announced`): ids have 128 random bits. Documents come from
finite sets and may be posted any number of times by anyone; some are forged.
At psd a registry that cannot be reached makes a check fail, which is no step.
Racing reads: `State` is a two-word string, so a read that races the one
transition a request makes returns the old value, the new one or a torn one
that the switch sends to its default branch; `StepUpSig` may be the value at
the poll's lock or the current one. `Tenant.PSA` is one word: a racing read is
an earlier or a later read. The network of `Chain` is reliable, the one of
`Resource` answers anything, fails or hangs. A token's claims are those that
`Mint` writes; `PersonServer` keeps the request's id and its ask beside them, as
history that properties speak of and no verifier sees (`ClaimsOf` in `Chain`
drops them). `SharedRegistry` is FALSE for resd as it
is wired today (`alwaysLive`) and TRUE for a verifier wired to a registry, which
is what Layer 2 is written for; all runs of `Chain` take TRUE, and of its
theorems only `ExitReachesTheResource` needs it.

## 3. What the runs check

| Run | Instance | Shows |
|---|---|---|
| `consent` | 2 requests, 2 codes, 2 callers, clock 0..3, window 1 | types; `ElevatedNeedsSignature`; the store implements `ConsentDecision` (`DecisionSpec`); `VerdictSettlesRequest` under fairness |
| `person_server` | 1 person, 2 valid PSAs and a forged one, 1 request, 2 handlers, clock 0..2, 2 tokens, 2 boots of psd | types; `TokenWithinEnvelope`, `TokenFollowsConsent`, `LogAccountsForTokens`, `MintHasTenantAndGrant`; `ExitIsFinal` for PSAs; between restarts the composed server implements `ConsentDecision` (`DecisionBetweenRestarts`) |
| `two_persons` | 2 persons, 2 agents, contested grants, forged documents, 2 requests that draw the same code, 2 handlers | `TokenChainsToRoot`, `OnePersonPerAgent`, `StepUpByOwner` |
| `envelope` | caps and thresholds -1..3, hexadecimal, absent or no number, amounts -2..4 or one of those, 21 TTLs in -2..65, at the boundaries of a 6-bit duration | `TiersAgree`, `TTLsBounded` |
| `resource` | 2 concurrent requests, 6 tokens, 5 PSAs, 2 grants, 2 keys at each fetch, a boot with key-rooting then one without, 2 acceptances | types; `AcceptanceSpec`; `RequestsAnswered` under fairness |
| `chain` | 1 person, 2 PSAs, 2 grants, 2 boots of psd, 1 token, 2 presentations of it at once | `ServedOnItsOwnChain`; `NoFalseRefusal`, `ExitReachesResource`, `RetiredKeysServeNothing`; `ExitIsFinal` for PSAs and grants |
| `revoked_psa_mints` | violation | a PSA revoked before the mint still mints |
| `consent_spent_twice` | violation | two polls of one approved request, two tokens |
| `mission_swap` | violation | step-up over one mission, token under another |
| `jti_burned` | violation | a refused Layer 2 has spent the jti |
| `uncovered_key` | violation | a token signed by a key its PSA does not cover is served |
| `respelled_root` | violation | a revoked (root, nonce) onboards under another spelling |

**The bounds.** Every atomicity hazard here is a race of two calls, so two
callers, handlers or presentations reach it. Two requests and two codes let a
code repeat, and move between two look-ups, and a signature be presented for the
other request; with
`Window = 1` and a clock that outruns every deadline, each request is seen
before, at and after its deadline. Two valid PSAs, one demanding a signature
and one not (its threshold is written in hexadecimal, so none is enforced), make
tier and envelope disagree both ways, and asks of 2 and 3 wei lie on both sides
of the cap; a wider set repeats those cases. `MaxLog` bounds re-enrolment (an enrolment starts only while the
chain is shorter); in `chain` it is 4, so that a grant can be renewed after the
token under the old one was issued. `MaxTokens` bounds the repeated mints,
`MaxTime` the clock, `MaxBoots` and `MaxRsBoots` the restarts (one of each is
enough for a state to be lost once and used after), `MaxAccepted` the
acceptances after which no new request arrives at the resource (two: a replay is
a second one). The 6-bit duration wraps
three times over the range of TTLs, which has values on both sides of 0, of the
hour and of each place where the product wraps or crosses zero.
The tokens of `resource` are one that is honest and, for each link of the chain,
one that breaks it. Handlers and requests are interchangeable, hence the
symmetry; the runs that check liveness use none.

**Deadlock** checking is off where the bounded clock or an error reply lets the
system stop; `envelope` has it on.

**Codes** are 40 random bits and `newCode` never looks whether one is taken, so
nothing is assumed of them anywhere: any code may be drawn for any request, and
in `two_persons` there is one code for both.

**Fairness.** `VerdictSettlesRequest`: a goroutine that has started a verdict
runs on (`StoreSignature`, `Commit`; the locks are held for a few instructions
and never nested in this package), and the clock advances. Nothing is assumed
of persons or agents: no click, poll or signature is fair. `RequestsAnswered`:
every goroutine at resd is scheduled, and a fetch that does not hang ends. That
no fetch hangs is *not* assumed, since the code does not see to it: resd uses
the default HTTP client, which has no timeout, and a background context. `Hang`
may take any request at any of its four fetches and carries no fairness, and the
property then excuses that one request for as long as it hangs. What is left is
about the code: no refusal, verdict or restart leaves a request between two
steps, and a request that hangs for ever, its jti spent, holds up no other.

## 4. Where code and text disagree

- *A revoked PSA goes on minting.* TESTING.md's Demo C expects the next mint to
  fail with "psa: revoked". `finish` and `Mint` never ask the registry, nor look
  at a window again; only a verifier would notice.
- *One consent yields many tokens.* The consent tests forbid re-approval so that
  no consent is spent twice, but each poll of an approved request mints anew.
- *A step-up for one mission, a token under another.* The digest binds the
  request's mission; `finish` writes the mission of the grant in force at the
  poll.
- *A jti is spent by a token that is not accepted.* The comment on Layer 1 says
  that only an otherwise valid token spends its jti; `SeenJTI` runs before the
  PSA and the grant have been fetched.
- *The chain is not closed at the key that signed the token.* The comments on
  `Verify` and `VerifyPSA` have the PSA cover the key that signed the token;
  `Verify` fetches the key set a second time and holds the PSA against what it
  finds then. An issuer that changes keys in between has a token served whose
  own key no PSA covers.
- *A revocation does not reach another spelling of the root.* The registry keys
  by the string; a PSA may name its root in any casing and still onboard.

Also met, and kept as hazards. The comment on `StepUp` (tokens.go:53-54) has
verifiers recompute the step-up digest, as DESIGN.md has them verify `step_up`:
no verifier looks at it, and none could recompute it, since the claims carry
neither the request's id nor its amount, scope list or deadline. A scope's
threshold in hexadecimal is signed as the number it is and enforced as none; the
comment on `Scope` asks for decimal strings, nothing checks that they are, and
`TokenWithinEnvelope` excepts such thresholds. Re-binding an agent after its old grant is
revoked is promised by a comment and always refused; a grant whose thumbprint and
transport key differ enrols, and each of its tokens is refused at the resource.

## 5. What is proved

Assumptions: the ASSUMEs of the modules (the sentinels are none of the values
they stand in for, and no signature is the missing one; documents spell addresses
and amounts, registry entries addresses; psd draws a different issuer key at each boot; naturals are naturals; an hour fits a
Duration; strings equal after folding name one address). Nothing is assumed of
the sizes: any number of persons, agents, documents, requests, handlers, boots.

*The consent store* (`Consent_proofs`, `ConsentStore_proofs`).
- `ConsentTypeCorrect`, `ElevatedApprovalIsSigned`. The second is not inductive:
  `Commit` approves on the strength of a check its caller made two critical
  sections earlier. `CallsInv` records what a caller in flight has established:
  its request exists, the signature it is about to store binds that request, and
  once it is about to approve an elevated request the *stored* signature binds
  it. `AskIsFixed` (nothing a digest binds ever changes) and `StepUpStays` (a
  stored signature is only replaced by another that binds) keep that true while
  others run. `CodesInv` adds that a code never leads to a missing request.
- `StoreImplementsDecision`: `Create` is `Open`; `Commit` is `Decide` when the
  request is pending and in time and a stutter otherwise; `Tick` is `Pass`;
  polls, look-ups and stored signatures stutter. The steps are lemmas about the
  store alone, so that the server's proof can use them too.
- `VerdictsAreFinal`: what that decision is worth, told of the store: a verdict or
  an expiry stays, and a verdict falls on a pending request only, no later than
  its deadline. `DecisionIsFinal` reads it off one step of the decision.

*The envelope* (`Envelope_proofs`). `TiersAlwaysAgree` and `TTLsAlwaysBounded`:
for all strings and every width of a duration, whichever PSA is posted and
whatever is asked. All an invariant need say is that scope and amount are
what JSON may spell; the rest is arithmetic, in lemmas about the operators.

*The person server* (`PersonServer_proofs`). One inductive invariant, `IInv`:
types; `Tenancy` (a PSA or grant in force is one its root signed, a bound
agent has one person, who has a PSA); `RequestsOwned` (codes
lead to requests, a request's agent is bound, an elevated approval is signed by
the owner over that request); `HandlersHold` (for each
program counter, what a handler has found out and may still rely on);
`TokensGood` (each issued token's chain, envelope and consent). What a handler
found out survives the others' steps because the stores only grow in one boot
(`Grow`: tenants, bindings, requests and approvals; a code only ever moves to a
request that is new), so one lemma (`Holds` is preserved by `Grow`) serves all actions.
A moved code is where `approveElevated` could ask the wrong root. What saves it
is the request's id in the digest. The handler holds a signature over a request
that was known when it entered; where the code still leads to that request, the
tenant found at entry is the request's own (`SignedByNoOther`). A request the
code has moved to since was unknown at entry, so the signature is not over it
and fails.
A restart keeps it because issuer keys differ: what is said of consents and
logs is said of tokens under the current key. From it follow
`PersonServerTypeCorrect`, `OnlyOnePersonPerAgent`, `EveryTokenChainsToRoot`,
`EveryMintHasTenantAndGrant`, `EveryTokenFollowsConsent`,
`EveryTokenWithinEnvelope` and `EveryStepUpByOwner`, none with a premise.

*The wallet* (`PersonServer_proofs`, at its end). What `devtool` signs is what the
servers verify: `SignedPSAVerifies` and `SignedGrantVerifies` say that a signed
document in its window, its scope one that can be hashed, passes exactly when it is not revoked and its file did not
name somebody else's address; filling in the root changes nothing that was signed.
`RevocationStopsItsSpelling`: `revoke` stops a PSA exactly where it spells
its root as the root file does, whence the finding of the run `respelled_root`.

*Its histories* (`ServerHistory_proofs`).
- `ServerImplementsDecision`: between restarts every step of any handler is a
  step of `ConsentDecision` or a stutter. `VerdictsHoldUntilRestart` says what
  that is worth, in the words of `VerdictsAreFinal`.
- `RevokedStaysOut`: `ExitIsFinal`. A document comes into force only by a commit,
  and into a handler's hands only past a check of the registry (`PastCheck`).
- `EveryTokenIsLogged`: `LogAccountsForTokens`, from `LogInv` (every request
  is in its agent's chain or a handler is about to put it there; a poll that goes
  on has a logged one), which needs that an agent never changes its person.

*The resource* (`Resource_proofs`). `ResourceTypeCorrect`, and
`ResourceImplementsAcceptance`: against any world. `Spending` says which jtis
the cache must hold (those served since the start, those of requests in Layer 2,
and no two of the latter alike), `Established` which links of the chain a
request has behind it at each step; a request that hangs keeps its jti spent and
needs nothing else. `NoTokenServedTwice` reads the promise
over the whole history: no two requests served in one boot carried the same jti,
each came from the holder of its token's key, and each served in the key-rooted mode
has the chain behind it. Both say plainly which key that chain runs through: the
one of the second fetch (`ChainedThrough`). Where it is the key that signed the
token the chain is whole (`Chained`); that it always is, the code does not give.

*Both together* (`Chain_proofs`, `Refusals_proofs`). `R` is `Resource_proofs`
with psd's tokens and issuer keys for the world's; `WorldAssumption` shows that
psd is such a world. So the composition has both invariants,
`IInv` of psd and `R!IInv` of the resource (`ChainInvariance`): a
verification step of `Chain` is one of `Resource` (`VerifyIsProgress`). It needs
no premise: the resource may be in either mode and share the registry or not.
Read for psd's tokens (`RequestsResolved`), `R!IInv` ties what a request holds to
what its token pins, so that the document judged is the one the token names.
`VerifyMoves` sums up the eleven steps of a verification once for all theorems:
a request ends or goes on under the same token (`Continues`), and what is known
when it is served (`Accepts`).
- `CompositionRunsTheServer`, `ChainImplementsAcceptance`: the composition
  implements psd's own specification, so section 5's theorems about psd carry
  over, and the resource's promise.
- `EveryAcceptanceOnItsOwnChain`: `ServedOnItsOwnChain`. It adds that every
  request verifies what psd issued (`RequestsHonest`, kept because issued tokens
  stay issued). With psd's `IInv` it gives `EverythingServedWasSignedFor`: the
  signatures and the approval behind whatever is served. For psd's tokens the link
  from the PSA to the token's key is there, since psd mints under a PSA only with
  a key it covers and the token pins that PSA.
- `RetiredKeysAreRefused`: `RetiredKeysServeNothing`. The new psd's key differs
  from the old, so the first fetch of the key set ends every request that has
  not been through it.
- `ExitReachesTheResource`: once a document is revoked and no request is past its
  check, no token under it is served while psd keeps its registry. Its two
  premises, that the resource shares the registry and is key-rooted, are what it
  is about: without the first it never hears of a revocation, without the second
  it reads no document.
- `OnlyNamedRefusals`: `NoFalseRefusal`, without a premise. It needs that a grant
  stays resolvable by its hash while psd runs (`Found`: in force, in a handler's
  hands, or in a token of this boot) and that the key a request learnt from the
  second fetch of the key set is the one that signed its token unless psd has
  restarted (`SameKey`).

`ChainAssumption` adds that a key and a reference to a PSA are never the
sentinel, and that the resource's mode is a boolean.

Every invariant and every action property of the passing runs is a theorem.

**Only model-checked**: `VerdictSettlesRequest` and `RequestsAnswered` (liveness
under fairness is out of the prover's reach).

## 6. Not modelled, and what is left

Not modelled:
- the hash of a mission log entry, `Export` and `Consistent`: nothing in the
  repository reads an export, so there is no reader whose conclusions could be
  held against it;
- resd's `challenge` and psd's metadata and export endpoints: they change no
  state; `challenge`'s tokens appear as the ask of a request and as another typ;
- ERC-1271 (nil in both binaries), `SuccessorStatement` (reserved), `BaseRegistry`
  beyond the fact that it always fails;
- request signatures: a request arrives as an agent and a key; the dev stub takes
  the headers at their word, the build without the dev tag panics at start;
- JSON, JWT and EIP-712 encoding, hex and file handling, `gen-root` and `thumb`;
- `internal/testutil`.

Left, in order:
1. Liveness of the composed server: an approved request whose agent goes on
   polling, under a PSA that is no longer replaced, ends in a token.
2. The hash chain of the mission log, once something reads it (I5).
