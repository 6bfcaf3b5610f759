---------------------------- MODULE ConsentStore ----------------------------
(***************************************************************************)
(* internal/consent: the store of authorization requests awaiting a        *)
(* person's decision, and what each of its critical sections does.         *)
(*                                                                         *)
(* byID and byCode are the Store's two maps; now is the wall clock.  Every *)
(* operator below that primes a variable is one critical section of the    *)
(* Store's mutex.  Consent and PersonServer build their actions from them. *)
(*                                                                         *)
(* A request keeps what the approval digest binds: the agent, the ask      *)
(* (resource, amount and scope: AmountWei, ScopeReq and ResourceJSON are   *)
(* copies of one resource token), the mission hash and the deadline.       *)
(***************************************************************************)
EXTENDS Integers, Signatures

CONSTANTS Ids,        \* request ids (newID: 128 random bits, never reused)
          Codes,      \* approval codes (newCode: 5 random bytes, may repeat)
          Asks, Missions,
          NoRequest,  \* byID has no entry
          NoId,       \* byCode has no entry
          Window      \* the consent window (10 minutes in the server)

Tiers == {"routine", "elevated"}
States == {"pending", "approved", "denied", "expired"}

Digest == [id : Ids, agent : Agents, ask : Asks, mission : Missions,
           expiresAt : Nat]
Sig == [by : Roots, over : Digest] \cup {NoSig}
Request == [code : Codes, agent : Agents, ask : Asks, mission : Missions,
            tier : Tiers, state : States, expiresAt : Nat, stepUpSig : Sig]

ASSUME ConsentAssumption ==
  /\ Window \in Nat
  /\ NoRequest \notin Request
  /\ NoId \notin Ids
  /\ NoSig \notin [by : Roots, over : Digest]

VARIABLES now,     \* the clock
          byID,    \* request id -> *Request
          byCode   \* approval code -> request id
storeVars == <<now, byID, byCode>>

StoreTypeOK == /\ now \in Nat
               /\ byID \in [Ids -> Request \cup {NoRequest}]
               /\ byCode \in [Codes -> Ids \cup {NoId}]

StoreInit == /\ now = 0
             /\ byID = [id \in Ids |-> NoRequest]
             /\ byCode = [code \in Codes |-> NoId]

Known(id) == byID[id] # NoRequest
Pending(id) == byID[id].state = "pending"
Overdue(id) == now > byID[id].expiresAt

NewRequestWithoutState(code, agent, ask, mission, tier) ==
  [code |-> code, agent |-> agent, ask |-> ask, mission |-> mission,
   tier |-> tier, state |-> "", expiresAt |-> now + Window,
   stepUpSig |-> NoSig]
NewRequest(code, agent, ask, mission, tier) ==
  [code |-> code, agent |-> agent, ask |-> ask, mission |-> mission,
   tier |-> tier, state |-> "pending", expiresAt |-> now + Window,
   stepUpSig |-> NoSig]

\* What a root signs to approve one elevated request.  The chain id and the
\* registry address of the EIP-712 domain are fixed by the configuration.
ApprovalDigestWithoutId(id, r) ==
  [id |-> CHOOSE i \in Ids : TRUE, agent |-> r.agent, ask |-> r.ask,
   mission |-> r.mission, expiresAt |-> r.expiresAt]
ApprovalDigest(id, r) ==
  [id |-> id, agent |-> r.agent, ask |-> r.ask, mission |-> r.mission,
   expiresAt |-> r.expiresAt]

\* Store.Create: the ID is new, the code need not be: a repeated code then
\* names the later request only.
StoreCreate(id, r) ==
  /\ ~ Known(id)
  /\ byID' = [byID EXCEPT ![id] = r]
  /\ byCode' = [byCode EXCEPT ![r.code] = id]

\* Store.Poll marks an overdue pending request expired.
PollExpiresAll(id) ==
  byID' = IF Overdue(id) THEN [byID EXCEPT ![id].state = "expired"] ELSE byID
StorePoll(id) ==
  byID' = IF Pending(id) /\ Overdue(id)
            THEN [byID EXCEPT ![id].state = "expired"]
            ELSE byID

\* Store.byCodeLocked
Lookup(code, id) == id = byCode[code] /\ id # NoId

\* Store.ApproveElevated, between its second pair of Lock and Unlock.
StoreStepUpSig(id, sig) == byID' = [byID EXCEPT ![id].stepUpSig = sig]

\* Store.transition: only a pending request moves, and an overdue one moves
\* to expired whatever the verdict.
TransitionForgetsExpiry(id, to) ==
  byID' = IF Pending(id) /\ ~ Overdue(id)
            THEN [byID EXCEPT ![id].state = to] ELSE byID
TransitionIgnoringWindow(id, to) ==
  byID' = IF Pending(id) THEN [byID EXCEPT ![id].state = to] ELSE byID
Transition(id, to) ==
  byID' = IF Pending(id)
            THEN [byID EXCEPT ![id].state = IF Overdue(id) THEN "expired" ELSE to]
            ELSE byID

-----------------------------------------------------------------------------
\* For the properties: sig was made over the request known as id, field by
\* field.
Binds(sig, id) ==
  /\ sig # NoSig
  /\ sig.over.id = id
  /\ sig.over.agent = byID[id].agent
  /\ sig.over.ask = byID[id].ask
  /\ sig.over.mission = byID[id].mission
  /\ sig.over.expiresAt = byID[id].expiresAt

\* The store implements the decision an observer is promised: expiry, which
\* the code applies lazily when a request is polled or a verdict arrives, is
\* seen by all at the deadline; verdicts that lost a race change nothing; and
\* polling is invisible (consent.go:116-118, 137-148, 197-209).
Outcome(id) == IF ~ Known(id) THEN "none"
               ELSE IF Pending(id) /\ Overdue(id) THEN "expired"
               ELSE byID[id].state
Decision == INSTANCE ConsentDecision
              WITH clock <- now,
                   deadline <- [id \in Ids |-> IF Known(id) THEN byID[id].expiresAt ELSE 0],
                   outcome <- [id \in Ids |-> Outcome(id)]
DecisionSpec == Decision!Spec
=============================================================================
