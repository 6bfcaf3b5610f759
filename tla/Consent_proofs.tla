--------------------------- MODULE Consent_proofs ---------------------------
(***************************************************************************)
(* Proofs about Consent, for every number of requests, codes, callers and  *)
(* roots: its types, that an elevated approval always carries a root       *)
(* signature over that request, and that the store implements              *)
(* ConsentDecision.                                                        *)
(***************************************************************************)
EXTENDS Consent, ConsentStore_proofs, TLAPS

\* What a verdict in flight has already established about the request it was
\* looked up for.  ElevatedNeedsSignature is not inductive without it: Commit
\* relies on a check that the same caller made steps earlier, outside the lock.
InFlight(c) ==
  LET id == calls[c].id IN
    /\ id \in Ids
    /\ Known(id)
    /\ calls[c].pc = "sign" => Binds(calls[c].sig, id)
    /\ (/\ calls[c].pc = "commit"
        /\ calls[c].to = "approved"
        /\ byID[id].tier = "elevated") => Binds(byID[id].stepUpSig, id)

CallsInv == \A c \in Callers : calls[c].pc # "idle" => InFlight(c)

\* Create fills both maps at once, so a code never leads to a missing request.
CodesInv == \A code \in Codes, id \in Ids : Lookup(code, id) => Known(id)

IInv == TypeOK /\ CodesInv /\ CallsInv /\ ElevatedNeedsSignature

-----------------------------------------------------------------------------
\* Initially the store is empty and nothing is in flight.
LEMMA InitIInv == Init => IInv
BY ConsentAssumption
DEF Init, StoreInit, IInv, TypeOK, StoreTypeOK, CodesInv, Lookup, CallsInv, ElevatedNeedsSignature,
    Known, Call, Idle, Sig

\* No step leaves the types; a caller in flight always holds a known request.
LEMMA TypeStep == TypeOK /\ CallsInv /\ [Next]_vars => TypeOK'
<1> SUFFICES ASSUME TypeOK, CallsInv, [Next]_vars PROVE TypeOK'
    OBVIOUS
<1> USE ConsentAssumption DEF TypeOK, StoreTypeOK
<1>1. ASSUME NEW id \in Ids, NEW code \in Codes, NEW agent \in Agents,
             NEW ask \in Asks, NEW mission \in Missions, NEW tier \in Tiers,
             Create(id, code, agent, ask, mission, tier)
      PROVE  TypeOK'
  <2>1. NewRequest(code, agent, ask, mission, tier) \in Request
        BY NewRequestType
  <2>2. NewRequest(code, agent, ask, mission, tier).code = code
        BY DEF NewRequest
  <2>. QED BY <1>1, <2>1, <2>2 DEF Create, StoreCreate
<1>2. ASSUME NEW id \in Ids, Poll(id) PROVE TypeOK'
  BY <1>2 DEF Poll, StorePoll, Known, Pending, Request, States
<1>3. ASSUME NEW c \in Callers, NEW code \in Codes, Click(c, code) PROVE TypeOK'
  BY <1>3 DEF Click, Lookup, Start, storeVars, Call, Sig
<1>4. ASSUME NEW c \in Callers, NEW code \in Codes, Deny(c, code) PROVE TypeOK'
  BY <1>4 DEF Deny, Lookup, Start, storeVars, Call, Sig
<1>5. ASSUME NEW c \in Callers, NEW code \in Codes, NEW root \in Addrs,
             NEW sig \in SomeSignature, SignOff(c, code, root, sig)
      PROVE  TypeOK'
  <2>1. sig \in Sig
    <3>1. \A i \in Ids : Known(i) => ApprovalDigest(i, byID[i]) \in Digest
          BY DEF Known, ApprovalDigest, Digest, Request
    <3>. QED BY <1>5, <3>1 DEF SomeSignature, Sig
  <2>. QED BY <1>5, <2>1 DEF SignOff, Lookup, Start, storeVars, Call
<1>6. ASSUME NEW c \in Callers, StoreSignature(c) PROVE TypeOK'
  <2>1. calls[c].id \in Ids /\ byID[calls[c].id] \in Request
        BY <1>6 DEF StoreSignature, CallsInv, InFlight, Known
  <2>. QED BY <1>6, <2>1 DEF StoreSignature, StoreStepUpSig, Call, Request
<1>7. ASSUME NEW c \in Callers, Commit(c) PROVE TypeOK'
  <2>1. calls[c].id \in Ids /\ byID[calls[c].id] \in Request
        BY <1>7 DEF Commit, CallsInv, InFlight, Known
  <2>. QED BY <1>7, <2>1 DEF Commit, Transition, Call, Idle, Sig, Request, States
<1>8. CASE Tick
  BY <1>8 DEF Tick
<1>9. CASE UNCHANGED vars
  BY <1>9 DEF vars, storeVars
<1>. QED BY <1>1, <1>2, <1>3, <1>4, <1>5, <1>6, <1>7, <1>8, <1>9 DEF Next

\* What was asked is never altered: a known request stays known, and every
\* field that its approval digest binds, and its tier, keep their values.
SameAsk(id) ==
  /\ byID'[id] # NoRequest
  /\ byID'[id].agent = byID[id].agent
  /\ byID'[id].ask = byID[id].ask
  /\ byID'[id].mission = byID[id].mission
  /\ byID'[id].tier = byID[id].tier
  /\ byID'[id].expiresAt = byID[id].expiresAt

LEMMA AskIsFixed ==
  TypeOK /\ CallsInv /\ [Next]_vars => \A id \in Ids : Known(id) => SameAsk(id)
<1> SUFFICES ASSUME TypeOK, CallsInv, [Next]_vars, NEW j \in Ids, Known(j)
             PROVE  SameAsk(j)
    OBVIOUS
<1> USE ConsentAssumption DEF TypeOK, StoreTypeOK, SameAsk, Known
<1>0. byID[j] \in Request
  OBVIOUS
<1>1. ASSUME NEW id \in Ids, NEW code \in Codes, NEW agent \in Agents,
             NEW ask \in Asks, NEW mission \in Missions, NEW tier \in Tiers,
             Create(id, code, agent, ask, mission, tier)
      PROVE  SameAsk(j)
  BY <1>1 DEF Create, StoreCreate
<1>2. ASSUME NEW id \in Ids, Poll(id) PROVE SameAsk(j)
  <2>1. [byID[j] EXCEPT !.state = "expired"] \in Request
        BY <1>0 DEF Request, States
  <2>. QED BY <1>0, <1>2, <2>1 DEF Poll, StorePoll, Request
<1>3. ASSUME NEW c \in Callers, StoreSignature(c) PROVE SameAsk(j)
  <2>1. [byID[j] EXCEPT !.stepUpSig = calls[c].sig] \in Request
        BY <1>0 DEF Request, Call
  <2>. QED BY <1>0, <1>3, <2>1 DEF StoreSignature, StoreStepUpSig, Request
<1>4. ASSUME NEW c \in Callers, Commit(c) PROVE SameAsk(j)
  <2>1. \A s \in States : [byID[j] EXCEPT !.state = s] \in Request
        BY <1>0 DEF Request
  <2>2. calls[c].to \in States /\ "expired" \in States
        BY DEF Call, States
  <2>. QED BY <1>0, <1>4, <2>1, <2>2 DEF Commit, Transition, Request
<1>5. ASSUME UNCHANGED byID PROVE SameAsk(j)
  BY <1>5
<1>. QED BY <1>1, <1>2, <1>3, <1>4, <1>5
         DEF Next, Click, Deny, SignOff, Start, Tick, vars, storeVars

\* A signature that binds a known request keeps binding it.
LEMMA BindingIsFixed ==
  ASSUME NEW id \in Ids, NEW sig, SameAsk(id), Binds(sig, id)
  PROVE  Binds(sig, id)'
BY DEF SameAsk, Binds

\* A request that carries a signature binding it goes on carrying one:
\* ApproveElevated only ever replaces it by another.
LEMMA StepUpStays ==
  ASSUME TypeOK, CallsInv, [Next]_vars, NEW j \in Ids, Known(j),
         Binds(byID[j].stepUpSig, j)
  PROVE  Binds(byID[j].stepUpSig, j)'
<1> USE ConsentAssumption DEF TypeOK, StoreTypeOK, Known
<1>0. SameAsk(j) /\ byID[j] \in Request
  BY AskIsFixed
<1>1. CASE byID'[j].stepUpSig = byID[j].stepUpSig
  BY <1>0, <1>1, BindingIsFixed
<1>2. ASSUME NEW id \in Ids, NEW code \in Codes, NEW agent \in Agents,
             NEW ask \in Asks, NEW mission \in Missions, NEW tier \in Tiers,
             Create(id, code, agent, ask, mission, tier)
      PROVE  byID'[j].stepUpSig = byID[j].stepUpSig
  BY <1>2 DEF Create, StoreCreate
<1>3. ASSUME NEW id \in Ids, Poll(id)
      PROVE  byID'[j].stepUpSig = byID[j].stepUpSig
  <2>1. [byID[j] EXCEPT !.state = "expired"].stepUpSig = byID[j].stepUpSig
        BY <1>0 DEF Request
  <2>. QED BY <1>3, <2>1 DEF Poll, StorePoll
<1>4. ASSUME NEW c \in Callers, StoreSignature(c)
      PROVE  Binds(byID[j].stepUpSig, j)'
  <2>1. CASE calls[c].id # j
        BY <1>1, <1>4, <2>1 DEF StoreSignature, StoreStepUpSig
  <2>2. CASE calls[c].id = j
    <3>1. Binds(calls[c].sig, j)
          BY <1>4, <2>2 DEF StoreSignature, CallsInv, InFlight
    <3>2. byID'[j].stepUpSig = calls[c].sig
          BY <1>0, <1>4, <2>2 DEF StoreSignature, StoreStepUpSig, Request
    <3>. QED BY <1>0, <3>1, <3>2 DEF SameAsk, Binds
  <2>. QED BY <2>1, <2>2
<1>5. ASSUME NEW c \in Callers, Commit(c)
      PROVE  byID'[j].stepUpSig = byID[j].stepUpSig
  <2>1. \A s : [byID[j] EXCEPT !.state = s].stepUpSig = byID[j].stepUpSig
        BY <1>0 DEF Request
  <2>. QED BY <1>5, <2>1 DEF Commit, Transition
<1>6. ASSUME UNCHANGED byID PROVE byID'[j].stepUpSig = byID[j].stepUpSig
  BY <1>6
<1>. QED BY <1>1, <1>2, <1>3, <1>4, <1>5, <1>6
         DEF Next, Click, Deny, SignOff, Start, Tick, vars, storeVars

\* What a caller has established stays established while others run.
LEMMA CallsStep == TypeOK /\ CodesInv /\ CallsInv /\ [Next]_vars => CallsInv'
<1> SUFFICES ASSUME TypeOK, CodesInv, CallsInv, [Next]_vars,
                    NEW d \in Callers, calls'[d].pc # "idle"
             PROVE  InFlight(d)'
    BY DEF CallsInv
<1> USE ConsentAssumption DEF TypeOK, StoreTypeOK
<1>0. CASE calls'[d] = calls[d]
  <2>1. PICK i \in Ids : i = calls[d].id /\ Known(i)
        BY <1>0 DEF CallsInv, InFlight
  <2>2. InFlight(d)
        BY <1>0 DEF CallsInv
  <2>3. SameAsk(i)
        BY <2>1, AskIsFixed
  <2>4. calls[d].pc = "sign" => Binds(calls[d].sig, i)'
        BY <1>0, <2>1, <2>2, <2>3 DEF InFlight, SameAsk, Binds
  <2>5. Binds(byID[i].stepUpSig, i) => Binds(byID[i].stepUpSig, i)'
        BY <2>1, StepUpStays
  <2>. QED BY <1>0, <2>1, <2>2, <2>3, <2>4, <2>5 DEF InFlight, SameAsk, Binds, Known
<1>1. ASSUME NEW c \in Callers, NEW code \in Codes, Click(c, code), c = d
      PROVE  InFlight(d)'
  BY <1>1 DEF Click, Lookup, CodesInv, Start, storeVars, InFlight, Known
<1>2. ASSUME NEW c \in Callers, NEW code \in Codes, Deny(c, code), c = d
      PROVE  InFlight(d)'
  BY <1>2 DEF Deny, Lookup, CodesInv, Start, storeVars, InFlight, Known
<1>3. ASSUME NEW c \in Callers, NEW code \in Codes, NEW root \in Addrs,
             NEW sig \in SomeSignature, SignOff(c, code, root, sig), c = d
      PROVE  InFlight(d)'
  <2>1. PICK i \in Ids : /\ Lookup(code, i)
                        /\ sig # NoSig /\ sig.over = ApprovalDigest(i, byID[i])
                        /\ Start(d, [pc |-> "sign", id |-> i,
                                     to |-> "approved", sig |-> sig])
        BY <1>3 DEF SignOff, VerifyRootSig
  <2>2. Binds(sig, i)'
        BY <2>1 DEF ApprovalDigest, Start, storeVars, Binds
  <2>3. calls'[d] = [pc |-> "sign", id |-> i, to |-> "approved", sig |-> sig]
        BY <2>1 DEF Start
  <2>4. Known(i)'
        BY <2>1 DEF CodesInv, Start, storeVars, Known
  <2>. QED BY <2>2, <2>3, <2>4 DEF InFlight, Binds, Known
<1>4. ASSUME NEW c \in Callers, StoreSignature(c), c = d
      PROVE  InFlight(d)'
  <2>1. PICK i \in Ids : i = calls[d].id /\ Known(i) /\ Binds(calls[d].sig, i)
        BY <1>4 DEF StoreSignature, CallsInv, InFlight
  <2>2. calls'[d].id = i /\ calls'[d].pc = "commit"
        BY <1>4, <2>1 DEF StoreSignature, Call
  <2>3. SameAsk(i) /\ byID[i] \in Request
        BY <2>1, AskIsFixed DEF Known
  <2>4. byID'[i].stepUpSig = calls[d].sig
        BY <1>4, <2>1, <2>3 DEF StoreSignature, StoreStepUpSig, Request
  <2>. QED BY <2>1, <2>2, <2>3, <2>4 DEF InFlight, SameAsk, Binds, Known
<1>5. ASSUME NEW c \in Callers, Commit(c), c = d PROVE FALSE
  BY <1>5 DEF Commit, Idle
<1>6. ASSUME NEW c \in Callers, c # d,
             \/ StoreSignature(c) \/ Commit(c)
             \/ \E code \in Codes : Click(c, code) \/ Deny(c, code)
             \/ \E code \in Codes, root \in Addrs, sig \in SomeSignature :
                  SignOff(c, code, root, sig)
      PROVE  calls'[d] = calls[d]
  BY <1>6 DEF StoreSignature, Commit, Click, Deny, SignOff, Start
<1>7. ASSUME UNCHANGED calls PROVE calls'[d] = calls[d]
  BY <1>7
<1>. QED BY <1>0, <1>1, <1>2, <1>3, <1>4, <1>5, <1>6, <1>7
         DEF Next, Create, Poll, Tick, vars

LEMMA CodesStep == TypeOK /\ CodesInv /\ CallsInv /\ [Next]_vars => CodesInv'
<1> SUFFICES ASSUME TypeOK, CodesInv, CallsInv, [Next]_vars,
                    NEW code \in Codes, NEW i \in Ids, Lookup(code, i)'
             PROVE  Known(i)'
    BY DEF CodesInv
<1> USE ConsentAssumption DEF TypeOK, StoreTypeOK
<1>1. ASSUME NEW id \in Ids, NEW k \in Codes, NEW agent \in Agents,
             NEW ask \in Asks, NEW mission \in Missions, NEW tier \in Tiers,
             Create(id, k, agent, ask, mission, tier)
      PROVE  Known(i)'
  <2>1. /\ NewRequest(k, agent, ask, mission, tier) \in Request
        /\ NewRequest(k, agent, ask, mission, tier).code = k
        BY NewRequestType DEF NewRequest
  <2>. QED BY <1>1, <2>1 DEF Create, StoreCreate, CodesInv, Lookup, Known
<1>2. CASE UNCHANGED byCode
  BY <1>2, AskIsFixed DEF CodesInv, Lookup, Known, SameAsk
<1>. QED BY <1>1, <1>2
         DEF Next, Poll, Click, Deny, SignOff, Start, StoreSignature, Commit,
             Tick, vars, storeVars

\* Only Commit approves, and it approves an elevated request only after its
\* caller stored a signature that binds it.
LEMMA ElevatedStep ==
  TypeOK /\ CallsInv /\ ElevatedNeedsSignature /\ [Next]_vars
    => ElevatedNeedsSignature'
<1> SUFFICES ASSUME TypeOK, CallsInv, ElevatedNeedsSignature, [Next]_vars,
                    NEW j \in Ids, Known(j)', byID'[j].state = "approved",
                    byID'[j].tier = "elevated"
             PROVE  Binds(byID[j].stepUpSig, j)'
    BY DEF ElevatedNeedsSignature, Binds
<1> USE ConsentAssumption DEF TypeOK, StoreTypeOK
<1>1. ASSUME Known(j), byID[j].state = "approved"
      PROVE  Binds(byID[j].stepUpSig, j)'
  <2>1. byID[j].tier = "elevated"
        BY <1>1, AskIsFixed DEF SameAsk
  <2>. QED BY <1>1, <2>1, StepUpStays DEF ElevatedNeedsSignature
<1>2. ASSUME NEW id \in Ids, NEW code \in Codes, NEW agent \in Agents,
             NEW ask \in Asks, NEW mission \in Missions, NEW tier \in Tiers,
             Create(id, code, agent, ask, mission, tier)
      PROVE  Known(j) /\ byID[j].state = "approved"
  BY <1>2 DEF Create, StoreCreate, NewRequest, Known
<1>3. ASSUME NEW id \in Ids, Poll(id)
      PROVE  Known(j) /\ byID[j].state = "approved"
  <2>1. byID[id] \in Request
        BY <1>3 DEF Poll, Known
  <2>. QED BY <1>3, <2>1 DEF Poll, StorePoll, Known, Request
<1>4. ASSUME NEW c \in Callers, StoreSignature(c)
      PROVE  Known(j) /\ byID[j].state = "approved"
  <2>1. calls[c].id \in Ids /\ byID[calls[c].id] \in Request
        BY <1>4 DEF StoreSignature, CallsInv, InFlight, Known
  <2>. QED BY <1>4, <2>1 DEF StoreSignature, StoreStepUpSig, Known, Request
<1>5. ASSUME NEW c \in Callers, Commit(c)
      PROVE  Binds(byID[j].stepUpSig, j)'
  <2>1. /\ InFlight(c) /\ calls[c].id \in Ids
        /\ byID[calls[c].id] \in Request /\ calls[c] \in Call
        BY <1>5 DEF Commit, CallsInv, InFlight, Known
  <2>2. CASE byID'[j] = byID[j]
        BY <1>1, <2>2 DEF Known
  <2>3. CASE byID'[j] # byID[j]
    <3>1. j = calls[c].id /\ Known(j)
          BY <1>5, <2>1, <2>3 DEF Commit, Transition, Known
    <3>2. calls[c].to = "approved"
          BY <1>5, <2>1, <2>3, <3>1 DEF Commit, Transition, Request
    <3>3. byID[j].tier = "elevated"
          BY <3>1, AskIsFixed DEF SameAsk
    <3>4. Binds(byID[j].stepUpSig, j)
          BY <1>5, <2>1, <3>1, <3>2, <3>3 DEF Commit, InFlight
    <3>. QED BY <3>1, <3>4, StepUpStays
  <2>. QED BY <2>2, <2>3
<1>6. ASSUME UNCHANGED byID PROVE Known(j) /\ byID[j].state = "approved"
  BY <1>6 DEF Known
<1>. QED BY <1>1, <1>2, <1>3, <1>4, <1>5, <1>6
         DEF Next, Click, Deny, SignOff, Start, Tick, vars, storeVars

LEMMA Invariance == Spec => []IInv
<1>1. IInv /\ [Next]_vars => IInv'
  BY TypeStep, CodesStep, CallsStep, ElevatedStep DEF IInv
<1>. QED BY InitIInv, <1>1, PTL DEF Spec

\* Every state of the store and of every caller is well typed, for any
\* number of requests and callers (consent.go:49-70, 119-127).
THEOREM ConsentTypeCorrect == Spec => []TypeOK
BY Invariance, PTL DEF IInv

\* I3 at the store: whatever interleaves, an elevated request is approved
\* only with a root signature over that request's own digest
\* (consent.go:150-187).
THEOREM ElevatedApprovalIsSigned == Spec => []ElevatedNeedsSignature
BY Invariance, PTL DEF IInv

-----------------------------------------------------------------------------
\* Every step of the store's callers is a step of the decision, or none.  The
\* callers' steps are the store's (ConsentStore_proofs); CallsInv says that a
\* verdict in flight is for a known request.
LEMMA StepDecides ==
  TypeOK /\ CallsInv /\ [Next]_vars => [Decision!Next]_(Decision!vars)
<1> SUFFICES ASSUME TypeOK, CallsInv, [Next]_vars
             PROVE  [Decision!Next]_(Decision!vars)
    OBVIOUS
<1> USE DEF TypeOK
<1>1. CASE UNCHANGED storeVars
  BY <1>1, StoreStutters DEF storeVars
<1>2. CASE Tick
  BY <1>2, PassStep DEF Tick, Decision!Next
<1>3. ASSUME NEW i \in Ids, NEW code \in Codes, NEW agent \in Agents,
             NEW ask \in Asks, NEW mission \in Missions, NEW tier \in Tiers,
             Create(i, code, agent, ask, mission, tier)
      PROVE  Decision!Next
  BY <1>3, OpenStep DEF Create, Decision!Next
<1>4. ASSUME NEW i \in Ids, Poll(i) PROVE UNCHANGED Decision!vars
  BY <1>4, PollStutters DEF Poll
<1>5. ASSUME NEW c \in Callers, StoreSignature(c) PROVE UNCHANGED Decision!vars
  <2>1. /\ calls[c].id \in Ids /\ Known(calls[c].id) /\ calls[c].sig \in Sig
        /\ StoreStepUpSig(calls[c].id, calls[c].sig) /\ UNCHANGED now
    BY <1>5 DEF StoreSignature, CallsInv, InFlight, Call
  <2>. QED BY <2>1, StoreSignatureStutters
<1>6. ASSUME NEW c \in Callers, Commit(c) PROVE [Decision!Next]_(Decision!vars)
  <2>1. /\ calls[c].id \in Ids /\ Known(calls[c].id)
        /\ calls[c].to \in {"approved", "denied"}
        /\ Transition(calls[c].id, calls[c].to) /\ UNCHANGED now
    BY <1>6 DEF Commit, CallsInv, InFlight, Call
  <2>. QED BY <2>1, DecideStep
<1>. QED BY <1>1, <1>2, <1>3, <1>4, <1>5, <1>6
         DEF Next, Click, Deny, SignOff, Start, vars

\* The store implements the decision: at most one verdict per request, none
\* after its deadline, polling without influence (consent.go:116-118).
THEOREM StoreImplementsDecision == Spec => DecisionSpec
<1>1. Init => Decision!Init
  BY InitDecision DEF Init
<1>. QED BY <1>1, StepDecides, Invariance, PTL
         DEF DecisionSpec, Decision!Spec, Spec, IInv

\* What that decision is worth: whatever calls interleave, a verdict or an
\* expiry stays, and a verdict falls on a pending request only, no later than
\* its deadline (consent.go:137-148, 197-209).
THEOREM VerdictsAreFinal == Spec => [][\A id \in Ids : VerdictHolds(id)]_vars
<1>1. TypeOK /\ CallsInv /\ [Next]_vars => [\A id \in Ids : VerdictHolds(id)]_vars
  BY StepDecides, DecisionIsFinal DEF TypeOK
<1>. QED BY <1>1, Invariance, PTL DEF Spec, IInv
=============================================================================
