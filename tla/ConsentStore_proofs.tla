------------------------- MODULE ConsentStore_proofs ------------------------
(***************************************************************************)
(* What each critical section of the consent store means to an observer of *)
(* ConsentDecision: creating a request opens its decision, a transition    *)
(* decides it or is too late, the clock closes windows, and polls and      *)
(* stored signatures are invisible.                                        *)
(*                                                                         *)
(* Nothing is said of who calls: Consent_proofs and ServerHistory_proofs   *)
(* lift these facts to the callers and to the handlers.                    *)
(***************************************************************************)
EXTENDS ConsentStore, TLAPS

\* A fresh request is well typed and pending (server.go:146-153).
LEMMA NewRequestType ==
  ASSUME StoreTypeOK,
         NEW code \in Codes, NEW agent \in Agents, NEW ask \in Asks,
         NEW mission \in Missions, NEW tier \in Tiers
  PROVE  NewRequest(code, agent, ask, mission, tier) \in Request
BY ConsentAssumption
DEF StoreTypeOK, NewRequest, Request, States, Sig

\* The empty store has decided nothing.
LEMMA InitDecision == StoreInit => Decision!Init
BY DEF StoreInit, Decision!Init, Outcome, Known

\* A step that changes neither clock nor requests is no step of a decision.
LEMMA StoreStutters ==
  ASSUME UNCHANGED <<now, byID>>
  PROVE  UNCHANGED Decision!vars
BY DEF Decision!vars, Outcome, Known, Pending, Overdue

\* One request changes its outcome, the others keep theirs.
LEMMA DecideStep ==
  ASSUME StoreTypeOK, NEW i \in Ids, Known(i), NEW to \in {"approved", "denied"},
         Transition(i, to), UNCHANGED now
  PROVE  [Decision!Next]_(Decision!vars)
<1> USE ConsentAssumption DEF StoreTypeOK
<1>1. byID[i] \in Request
  BY DEF Known
<1>3. byID' = IF Pending(i)
                THEN [byID EXCEPT ![i].state =
                        IF Overdue(i) THEN "expired" ELSE to]
                ELSE byID
  BY DEF Transition
<1>4. \A id \in Ids : /\ Known(id)' <=> Known(id)
                      /\ byID'[id].expiresAt = byID[id].expiresAt
  <2>1. \A s : [byID[i] EXCEPT !.state = s].expiresAt = byID[i].expiresAt
        BY <1>1 DEF Request
  <2>2. \A s \in States : [byID[i] EXCEPT !.state = s] \in Request
        BY <1>1 DEF Request
  <2>. QED BY <1>1, <1>3, <2>1, <2>2 DEF Known, States
<1>5. \A id \in Ids : id # i => Outcome(id)' = Outcome(id)
  BY <1>1, <1>3 DEF Outcome, Known, Pending, Overdue
<1>6. [id \in Ids |-> IF Known(id) THEN byID[id].expiresAt ELSE 0]'
        = [id \in Ids |-> IF Known(id) THEN byID[id].expiresAt ELSE 0]
  BY <1>4 DEF Known
<1>7. CASE ~ Pending(i) \/ Overdue(i)
  <2>1. Outcome(i)' = Outcome(i)
        BY <1>1, <1>3, <1>4, <1>7 DEF Outcome, Known, Pending, Overdue, Request
  <2>2. [id \in Ids |-> Outcome(id)]' = [id \in Ids |-> Outcome(id)]
        BY <1>5, <2>1
  <2>. QED BY <1>3, <1>6, <2>2 DEF Decision!vars
<1>8. CASE Pending(i) /\ ~ Overdue(i)
  <2>1. Outcome(i) = "pending" /\ Outcome(i)' = to
        BY <1>1, <1>3, <1>4, <1>8 DEF Outcome, Known, Pending, Overdue, Request
  <2>2. [id \in Ids |-> Outcome(id)]'
          = [[id \in Ids |-> Outcome(id)] EXCEPT ![i] = to]
        BY <1>5, <2>1
  <2>3. Decision!Decide(i, to)
        BY <1>6, <2>1, <2>2 DEF Decision!Decide
  <2>. QED BY <2>3 DEF Decision!Next, Decision!Verdicts
<1>. QED BY <1>7, <1>8

\* Creating a request opens its decision: its window has not closed yet.
LEMMA OpenStep ==
  ASSUME StoreTypeOK, NEW i \in Ids, NEW code \in Codes, NEW agent \in Agents,
         NEW ask \in Asks, NEW mission \in Missions, NEW tier \in Tiers,
         StoreCreate(i, NewRequest(code, agent, ask, mission, tier)), UNCHANGED now
  PROVE  Decision!Open(i)
<1> USE ConsentAssumption DEF StoreTypeOK
<1> DEFINE r == NewRequest(code, agent, ask, mission, tier)
<1>1. /\ r \in Request /\ r.state = "pending" /\ r.expiresAt = now + Window
  BY NewRequestType DEF NewRequest
<1> HIDE DEF r
<1>2. ~ Known(i) /\ byID' = [byID EXCEPT ![i] = r]
  BY DEF StoreCreate, r
<1>3. Outcome(i) = "none" /\ Outcome(i)' = "pending"
  BY <1>1, <1>2 DEF Outcome, Known, Pending, Overdue
<1>4. \A id \in Ids : id # i => Outcome(id)' = Outcome(id)
  BY <1>2 DEF Outcome, Known, Pending, Overdue
<1>5. [id \in Ids |-> Outcome(id)]'
        = [[id \in Ids |-> Outcome(id)] EXCEPT ![i] = "pending"]
  BY <1>3, <1>4
<1>6. [id \in Ids |-> IF Known(id) THEN byID[id].expiresAt ELSE 0]'
        = [[id \in Ids |-> IF Known(id) THEN byID[id].expiresAt ELSE 0]
             EXCEPT ![i] = now + Window]
  BY <1>1, <1>2 DEF Known
<1>. QED BY <1>3, <1>5, <1>6 DEF Decision!Open

\* The clock closes every overdue window at once.
LEMMA PassStep ==
  ASSUME StoreTypeOK, now' = now + 1, UNCHANGED byID
  PROVE  Decision!Pass
<1> USE ConsentAssumption DEF StoreTypeOK
<1>1. \A id \in Ids : Known(id) => /\ byID[id].expiresAt \in Nat
                                   /\ byID[id].state \in States
  BY DEF Known, Request
<1>2. \A id \in Ids :
        Outcome(id)' = IF /\ Outcome(id) = "pending"
                          /\ now' > IF Known(id) THEN byID[id].expiresAt ELSE 0
                         THEN "expired" ELSE Outcome(id)
  BY <1>1 DEF Outcome, Known, Pending, Overdue, States
<1>3. [id \in Ids |-> IF Known(id) THEN byID[id].expiresAt ELSE 0]'
        = [id \in Ids |-> IF Known(id) THEN byID[id].expiresAt ELSE 0]
  BY DEF Known
<1>. QED BY <1>2, <1>3 DEF Decision!Pass

\* Polling, and storing a signature, are invisible.
LEMMA PollStutters ==
  ASSUME StoreTypeOK, NEW i \in Ids, Known(i), StorePoll(i), UNCHANGED now
  PROVE  UNCHANGED Decision!vars
<1> USE ConsentAssumption DEF StoreTypeOK
<1>1. byID[i] \in Request /\ [byID[i] EXCEPT !.state = "expired"] \in Request
  BY DEF Known, Request, States
<1>2. byID' = IF Pending(i) /\ Overdue(i)
                THEN [byID EXCEPT ![i].state = "expired"] ELSE byID
  BY DEF StorePoll
<1>3. \A id \in Ids : /\ Known(id)' <=> Known(id)
                      /\ byID'[id].expiresAt = byID[id].expiresAt
  BY <1>1, <1>2 DEF Known, Request
<1>4. \A id \in Ids : Outcome(id)' = Outcome(id)
  BY <1>1, <1>2, <1>3 DEF Outcome, Known, Pending, Overdue, Request
<1>. QED BY <1>3, <1>4 DEF Decision!vars, Known

LEMMA StoreSignatureStutters ==
  ASSUME StoreTypeOK, NEW i \in Ids, Known(i), NEW sig \in Sig,
         StoreStepUpSig(i, sig), UNCHANGED now
  PROVE  UNCHANGED Decision!vars
<1> USE ConsentAssumption DEF StoreTypeOK
<1>1. byID[i] \in Request
  BY DEF Known
<1>2. /\ byID' = [byID EXCEPT ![i].stepUpSig = sig]
      /\ [byID[i] EXCEPT !.stepUpSig = sig] \in Request
  BY <1>1 DEF StoreStepUpSig, Request
<1>3. \A id \in Ids : /\ Known(id)' <=> Known(id)
                      /\ byID'[id].expiresAt = byID[id].expiresAt
                      /\ byID'[id].state = byID[id].state
  BY <1>1, <1>2 DEF Known, Request
<1>4. \A id \in Ids : Outcome(id)' = Outcome(id)
  BY <1>1, <1>2, <1>3 DEF Outcome, Known, Pending, Overdue, Request
<1>. QED BY <1>3, <1>4 DEF Decision!vars, Known

-----------------------------------------------------------------------------
\* What a step of the decision does to one request, told of the store: a
\* verdict or an expiry stays, and a verdict falls on a pending request, no
\* later than its deadline.
Settled(id) == Outcome(id) \in {"approved", "denied", "expired"}
VerdictHolds(id) ==
  /\ Settled(id) => Outcome(id)' = Outcome(id)
  /\ Outcome(id)' \in {"approved", "denied"} /\ Outcome(id)' # Outcome(id)
       => /\ Pending(id) /\ now <= byID[id].expiresAt
          /\ UNCHANGED now

LEMMA DecisionIsFinal ==
  ASSUME StoreTypeOK, [Decision!Next]_(Decision!vars), NEW id \in Ids
  PROVE  VerdictHolds(id)
<1> DEFINE outcome == [i \in Ids |-> Outcome(i)]
<1>1. outcome[id] = Outcome(id) /\ outcome'[id] = Outcome(id)'
  OBVIOUS
<1>2. Outcome(id) = "pending" => Pending(id) /\ now <= byID[id].expiresAt
  <2> SUFFICES ASSUME Outcome(id) = "pending" PROVE Pending(id) /\ ~ Overdue(id)
    BY DEF StoreTypeOK, Outcome, Known, Request, Overdue
  <2>. QED BY DEF Outcome, Pending, Known
<1>3. ASSUME NEW i \in Ids, Decision!Open(i) PROVE VerdictHolds(id)
  <2>1. outcome[i] = "none" /\ outcome' = [outcome EXCEPT ![i] = "pending"]
    BY <1>3 DEF Decision!Open
  <2> HIDE DEF outcome
  <2>2. outcome'[id] = outcome[id] \/ (outcome[id] = "none" /\ outcome'[id] = "pending")
    BY <2>1 DEF outcome
  <2>. QED BY <1>1, <2>2 DEF VerdictHolds, Settled
<1>4. ASSUME NEW i \in Ids, NEW verdict \in {"approved", "denied"}, Decision!Decide(i, verdict)
      PROVE  VerdictHolds(id)
  <2>1. /\ outcome[i] = "pending" /\ outcome' = [outcome EXCEPT ![i] = verdict]
        /\ UNCHANGED now
    BY <1>4 DEF Decision!Decide
  <2> HIDE DEF outcome
  <2>2. outcome'[id] = outcome[id] \/ outcome[id] = "pending"
    BY <2>1 DEF outcome
  <2>. QED BY <1>1, <1>2, <2>1, <2>2 DEF VerdictHolds, Settled
<1>5. ASSUME Decision!Pass PROVE VerdictHolds(id)
  <2>1. \/ outcome'[id] = outcome[id]
        \/ outcome[id] = "pending" /\ outcome'[id] = "expired"
    BY <1>5 DEF Decision!Pass
  <2>. QED BY <1>1, <2>1 DEF VerdictHolds, Settled
<1>6. ASSUME UNCHANGED Decision!vars PROVE VerdictHolds(id)
  <2>1. outcome' = outcome
    BY <1>6 DEF Decision!vars
  <2>. QED BY <1>1, <2>1 DEF VerdictHolds, Settled
<1>. QED BY <1>3, <1>4, <1>5, <1>6 DEF Decision!Next, Decision!Verdicts
=============================================================================
