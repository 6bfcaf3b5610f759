------------------------ MODULE ServerHistory_proofs ------------------------
(***************************************************************************)
(* What no sequence of the person server's steps can do, from one start of *)
(* psd to the next: decide a request otherwise than ConsentDecision does,  *)
(* bring a revoked document back into force, hand out a token that the     *)
(* mission log does not account for.                                       *)
(*                                                                         *)
(* The invariant of PersonServer_proofs says what handlers may count on;   *)
(* here each theorem asks what their steps do with it.                     *)
(***************************************************************************)
EXTENDS PersonServer_proofs, ConsentStore_proofs

\* A step of a handler that is between two looks at the consent store.
LEMMA OffStore ==
  ASSUME Serve
  PROVE  \/ UNCHANGED <<now, byID>>
         \/ Tick
         \/ \E h \in Handlers, id \in Ids, code \in Codes : TokenCreate(h, id, code)
         \/ \E h \in Handlers, agent \in Agents, id \in Ids : Poll(h, agent, id)
         \/ \E h \in Handlers : SetSig(h) \/ Approve(h)
BY DEF Serve, stores, storeVars, Onboard, OnboardCommit, Enroll, EnrollCommit, EnrollLog,
       Token, TokenLog, ReadState, Mint, Issue, ApprovePage, ClickLookup, ApproveElevated,
       VerifyLookup, Revoke

\* A step of the running server is a step of the decision, or none.
LEMMA ServeDecides ==
  ASSUME IInv, Serve, UNCHANGED psBoot
  PROVE  [Decision!Next]_(Decision!vars)
<1>0. TypeOK /\ StoreTypeOK /\ HandlersHold
  BY DEF IInv, TypeOK
<1>1. CASE UNCHANGED <<now, byID>>
  BY <1>1, StoreStutters
<1>2. CASE Tick
  BY <1>0, <1>2, PassStep DEF Tick, Decision!Next
<1>3. ASSUME NEW h \in Handlers, NEW id \in Ids, NEW code \in Codes, TokenCreate(h, id, code)
      PROVE  Decision!Next
  <2> DEFINE p == proc[h]
             tier == TierFor(psaOf[p.tenant].scope, p.ask.amount)
  <2>1. p.agent \in Agents /\ p.ask \in Asks /\ p.mission \in Missions
    BY <1>0, <1>3, LocalFields DEF TypeOK, TokenCreate, At
  <2>2. tier \in Tiers
    BY DEF TierFor, Tiers
  <2>3. StoreCreate(id, NewRequest(code, p.agent, p.ask, p.mission, tier)) /\ UNCHANGED now
    BY <1>3 DEF TokenCreate
  <2> HIDE DEF tier, p
  <2>. QED BY <1>0, <2>1, <2>2, <2>3, OpenStep DEF Decision!Next
<1>4. ASSUME NEW h \in Handlers, NEW agent \in Agents, NEW id \in Ids, Poll(h, agent, id)
      PROVE  UNCHANGED Decision!vars
  BY <1>0, <1>4, PollStutters DEF Poll, Announced
<1>5. ASSUME NEW h \in Handlers, SetSig(h) PROVE UNCHANGED Decision!vars
  <2>1. proc[h].id \in Ids /\ Known(proc[h].id) /\ proc[h].sig \in Sig
    BY <1>0, <1>5, LocalFields DEF TypeOK, HandlersHold, Holds, SetSig, At
  <2>. QED BY <1>0, <1>5, <2>1, StoreSignatureStutters DEF SetSig
<1>6. ASSUME NEW h \in Handlers, Approve(h) PROVE [Decision!Next]_(Decision!vars)
  <2>1. proc[h].id \in Ids /\ Known(proc[h].id)
    BY <1>0, <1>6, LocalFields DEF TypeOK, HandlersHold, Holds, Approve, At
  <2>. QED BY <1>0, <1>6, <2>1, DecideStep DEF Approve
<1>. QED BY <1>1, <1>2, <1>3, <1>4, <1>5, <1>6, OffStore

LEMMA OnlyServeKeepsBoot == ASSUME IInv, Next, UNCHANGED psBoot PROVE Serve
<1>1. Restart => psBoot' # psBoot
  BY DEF IInv, TypeOK, Restart
<1>. QED BY <1>1 DEF Next

\* The handlers as a whole implement ConsentDecision until psd restarts: what
\* a handler brings to the store is the request it was looked up for
\* (consent.go:137-148, 197-209; server.go:170-245).
THEOREM ServerImplementsDecision == Spec => DecisionBetweenRestarts
<1>1. IInv /\ [Next]_vars => [psBoot' = psBoot => [Decision!Next]_(Decision!vars)]_vars
  BY ServeDecides, OnlyServeKeepsBoot
<1>2. Init => Decision!Init
  BY InitDecision DEF Init
<1>. QED BY <1>1, <1>2, Invariance, PTL DEF DecisionBetweenRestarts, Spec

\* Whatever the handlers interleave, until psd restarts: a verdict or an expiry
\* stays, and a verdict falls on a pending request only, no later than its
\* deadline (consent.go:137-148, 197-209; server.go:190-245).
THEOREM VerdictsHoldUntilRestart ==
  Spec => [][psBoot' = psBoot => \A id \in Ids : VerdictHolds(id)]_vars
<1>1. IInv /\ [Next]_vars => [psBoot' = psBoot => \A id \in Ids : VerdictHolds(id)]_vars
  <2> SUFFICES ASSUME IInv, Next, UNCHANGED psBoot, NEW id \in Ids PROVE VerdictHolds(id)
    OBVIOUS
  <2>1. StoreTypeOK
    BY DEF IInv, TypeOK
  <2>2. [Decision!Next]_(Decision!vars)
    BY ServeDecides, OnlyServeKeepsBoot
  <2>. QED BY <2>1, <2>2, DecisionIsFinal
<1>. QED BY <1>1, Invariance, PTL DEF Spec

-----------------------------------------------------------------------------
\* Exit.  While psd runs a revocation stays, and a document comes into force,
\* or into the hands of a handler past its check, only through that check.

LEMMA RevokedStays == ASSUME Serve PROVE revoked \subseteq revoked'
BY DEF Serve, stores, storeVars, tenantVars, Onboard, OnboardCommit, OnboardTenant, Enroll,
       EnrollCommit, EnrollAgent, EnrollLog, Token, TokenCreate, TokenLog, Poll, ReadState,
       Mint, Issue, ApprovePage, ClickLookup, ApproveElevated, VerifyLookup, SetSig, Approve,
       Revoke, RevokeHandle, Tick

LEMMA PSAInForce ==
  ASSUME Serve
  PROVE  \/ UNCHANGED psaOf
         \/ \E h \in Handlers : OnboardCommit(h)
BY DEF Serve, stores, storeVars, tenantVars, Onboard, Enroll,
       EnrollCommit, EnrollAgent, EnrollLog, Token, TokenCreate, TokenLog, Poll, ReadState,
       Mint, Issue, ApprovePage, ClickLookup, ApproveElevated, VerifyLookup, SetSig, Approve,
       Revoke, RevokeHandle, Tick

LEMMA GrantInForce ==
  ASSUME Serve
  PROVE  \/ UNCHANGED grantOf
         \/ \E h \in Handlers : EnrollCommit(h)
BY DEF Serve, stores, storeVars, tenantVars, Onboard, OnboardCommit, OnboardTenant, Enroll,
       EnrollLog, Token, TokenCreate, TokenLog, Poll, ReadState,
       Mint, Issue, ApprovePage, ClickLookup, ApproveElevated, VerifyLookup, SetSig, Approve,
       Revoke, RevokeHandle, Tick

\* Where a handler goes next, other than past the check of a document.
LEMMA Moves ==
  ASSUME Serve
  PROVE  \/ UNCHANGED proc
         \/ \E h \in Handlers, p \in PSADocs : Onboard(h, p)
         \/ \E h \in Handlers, agent \in Agents, key \in AgentKeys, g \in GrantDocs :
              Enroll(h, agent, key, g)
         \/ \E h \in Handlers : \E next : Goto(h, next) /\ next.pc \notin {"onboard", "enroll"}
<1> DEFINE Away(h) == \E next : Goto(h, next) /\ next.pc \notin {"onboard", "enroll"}
<1>0. Free.pc \notin {"onboard", "enroll"}
  BY DEF Free
<1>1. ASSUME NEW h \in Handlers, NEW agent \in Agents, NEW key \in AgentKeys, NEW ask \in Asks,
             Token(h, agent, key, ask)
      PROVE  Away(h)
  BY <1>1 DEF Token
<1>2. ASSUME NEW h \in Handlers, NEW id \in Ids, NEW code \in Codes, TokenCreate(h, id, code)
      PROVE  Away(h)
  BY <1>2 DEF TokenCreate
<1>3. ASSUME NEW h \in Handlers, NEW agent \in Agents, NEW id \in Ids, Poll(h, agent, id)
      PROVE  UNCHANGED proc \/ Away(h)
  BY <1>3 DEF Poll
<1>4. ASSUME NEW h \in Handlers, NEW code \in Codes, ApprovePage(h, code)
      PROVE  Away(h)
  BY <1>4 DEF ApprovePage
<1>5. ASSUME NEW h \in Handlers, NEW code \in Codes, NEW sig, ApproveElevated(h, code, sig)
      PROVE  Away(h)
  BY <1>5 DEF ApproveElevated
<1>6. ASSUME NEW h \in Handlers,
             OnboardCommit(h) \/ EnrollLog(h) \/ TokenLog(h) \/ Issue(h) \/ Approve(h)
      PROVE  Away(h)
  BY <1>0, <1>6 DEF OnboardCommit, EnrollLog, TokenLog, Issue, Approve
<1>7. ASSUME NEW h \in Handlers, EnrollCommit(h) PROVE Away(h)
  BY <1>0, <1>7 DEF EnrollCommit
<1>8. ASSUME NEW h \in Handlers, ReadState(h) PROVE Away(h)
  BY <1>0, <1>8 DEF ReadState
<1>9. ASSUME NEW h \in Handlers, Mint(h) PROVE Away(h)
  BY <1>0, <1>9 DEF Mint
<1>10. ASSUME NEW h \in Handlers, ClickLookup(h) PROVE Away(h)
  BY <1>0, <1>10 DEF ClickLookup
<1>11. ASSUME NEW h \in Handlers, VerifyLookup(h) PROVE Away(h)
  BY <1>0, <1>11 DEF VerifyLookup
<1>12. ASSUME NEW h \in Handlers, SetSig(h) PROVE Away(h)
  BY <1>12 DEF SetSig
<1>13. ASSUME Tick \/ \E handle \in Revocable : Revoke(handle) PROVE UNCHANGED proc
  BY <1>13 DEF Tick, Revoke
<1> HIDE DEF Away
<1>14. \/ UNCHANGED proc
       \/ \E h \in Handlers, p \in PSADocs : Onboard(h, p)
       \/ \E h \in Handlers, agent \in Agents, key \in AgentKeys, g \in GrantDocs :
            Enroll(h, agent, key, g)
       \/ \E h \in Handlers : Away(h)
  BY <1>1, <1>2, <1>3, <1>4, <1>5, <1>6, <1>7, <1>8, <1>9, <1>10, <1>11, <1>12, <1>13
     DEF Serve
<1>. QED BY <1>14 DEF Away

\* A handler that holds a document past its check held it before, or has just
\* found it live.
LEMMA PastCheck ==
  ASSUME TypeOK, Serve, NEW h \in Handlers
  PROVE  /\ At(h, "onboard")' => \/ At(h, "onboard") /\ proc'[h].psa = proc[h].psa
                                 \/ Live(proc'[h].psa, revoked)
         /\ At(h, "enroll")' => \/ At(h, "enroll") /\ proc'[h].grant = proc[h].grant
                                \/ Live(proc'[h].grant, revoked)
<1>1. proc \in [Handlers -> LocalStates]
  BY DEF TypeOK
<1>2. ASSUME NEW other \in Handlers, NEW p \in PSADocs, Onboard(other, p)
      PROVE  \/ proc'[h] = proc[h]
             \/ proc'[h].pc = "onboard" /\ Live(proc'[h].psa, revoked)
  BY <1>1, <1>2 DEF Onboard, Goto, VerifyPSA
<1>3. ASSUME NEW other \in Handlers, NEW agent \in Agents, NEW key \in AgentKeys,
             NEW g \in GrantDocs, Enroll(other, agent, key, g)
      PROVE  \/ proc'[h] = proc[h]
             \/ proc'[h].pc = "enroll" /\ Live(proc'[h].grant, revoked)
  BY <1>1, <1>3 DEF Enroll, Goto, VerifyAgentGrant
<1>4. ASSUME NEW other \in Handlers, NEW next, Goto(other, next),
             next.pc \notin {"onboard", "enroll"}
      PROVE  proc'[h] = proc[h] \/ proc'[h].pc \notin {"onboard", "enroll"}
  BY <1>1, <1>4 DEF Goto
<1>. QED BY <1>2, <1>3, <1>4, Moves DEF At

\* Exit is final: a revoked document that is neither in force nor past its
\* check never comes back until psd restarts (psa.go:227-235, 262-269;
\* tenants.go:70-124).
THEOREM RevokedStaysOut == Spec => ExitIsFinal
<1>1. ASSUME IInv, Serve, UNCHANGED psBoot, NEW p \in PSADocs, OutPSA(p)
      PROVE  OutPSA(p)'
  <2>0. TypeOK
    BY <1>1 DEF IInv
  <2>1. ~ Live(p, revoked) /\ (~ Live(p, revoked))'
    BY <1>1, RevokedStays DEF OutPSA, Live
  <2>2. psaOf'[p.root] # p
    <3>1. CASE UNCHANGED psaOf
      BY <1>1, <3>1 DEF OutPSA
    <3>2. ASSUME NEW h \in Handlers, OnboardCommit(h) PROVE psaOf'[p.root] # p
      <4>1. proc[h].psa # p /\ psaOf' = [psaOf EXCEPT ![proc[h].psa.root] = proc[h].psa]
        BY <1>1, <3>2 DEF OnboardCommit, OnboardTenant, OutPSA
      <4>2. p.root \in Addrs /\ psaOf \in [Addrs -> PSADocs \cup {None}] /\ psaOf[p.root] # p
        BY <1>1, <2>0, DocumentsAssumption DEF OutPSA, TypeOK, TenantsTypeOK
      <4>3. psaOf'[p.root] = IF p.root = proc[h].psa.root THEN proc[h].psa ELSE psaOf[p.root]
        BY <4>1, <4>2
      <4>. QED BY <4>1, <4>2, <4>3
    <3>. QED BY <3>1, <3>2, <1>1, PSAInForce
  <2>3. ASSUME NEW h \in Handlers, At(h, "onboard")' PROVE proc'[h].psa # p
    BY <1>1, <2>0, <2>1, <2>3, PastCheck DEF OutPSA
  <2>. QED BY <2>1, <2>2, <2>3 DEF OutPSA
<1>2. ASSUME IInv, Serve, UNCHANGED psBoot, NEW g \in GrantDocs, OutGrant(g)
      PROVE  OutGrant(g)'
  <2>0. TypeOK
    BY <1>2 DEF IInv
  <2>1. ~ Live(g, revoked) /\ (~ Live(g, revoked))'
    BY <1>2, RevokedStays DEF OutGrant, Live
  <2>2. grantOf'[g.root][g.agent] # g
    <3>1. CASE UNCHANGED grantOf
      BY <1>2, <3>1 DEF OutGrant
    <3>2. ASSUME NEW h \in Handlers, EnrollCommit(h) PROVE grantOf'[g.root][g.agent] # g
      <4>1. /\ proc[h].grant # g
            /\ \/ UNCHANGED grantOf
               \/ grantOf' = [grantOf EXCEPT ![proc[h].tenant][proc[h].agent] = proc[h].grant]
        BY <1>2, <3>2 DEF EnrollCommit, EnrollAgent, OutGrant, tenantVars
      <4>2. /\ g.root \in Addrs /\ g.agent \in Agents /\ grantOf[g.root][g.agent] # g
            /\ grantOf \in [Addrs -> [Agents -> GrantDocs \cup {None}]]
        BY <1>2, <2>0, DocumentsAssumption DEF OutGrant, TypeOK, TenantsTypeOK
      <4>3. CASE grantOf' = [grantOf EXCEPT ![proc[h].tenant][proc[h].agent] = proc[h].grant]
        <5>1. grantOf'[g.root][g.agent] =
                IF g.root = proc[h].tenant /\ g.agent = proc[h].agent
                  THEN proc[h].grant ELSE grantOf[g.root][g.agent]
          BY <4>2, <4>3
        <5>. QED BY <4>1, <4>2, <5>1
      <4>. QED BY <4>1, <4>2, <4>3
    <3>. QED BY <3>1, <3>2, <1>2, GrantInForce
  <2>3. ASSUME NEW h \in Handlers, At(h, "enroll")' PROVE proc'[h].grant # g
    BY <1>2, <2>0, <2>1, <2>3, PastCheck DEF OutGrant
  <2>. QED BY <2>1, <2>2, <2>3 DEF OutGrant
<1>3. IInv /\ [Next]_vars
        => [ psBoot' = psBoot => /\ \A p \in PSADocs : OutPSA(p) => OutPSA(p)'
                                /\ \A g \in GrantDocs : OutGrant(g) => OutGrant(g)' ]_vars
  <2>1. Restart => psBoot' # psBoot \/ ~ TypeOK
    BY DEF TypeOK, Restart
  <2>. QED BY <1>1, <1>2, <2>1 DEF Next, IInv
<1>. QED BY <1>3, Invariance, PTL DEF ExitIsFinal, Spec

-----------------------------------------------------------------------------
\* The mission log.  A token is issued steps after its request was logged, by
\* another handler that knows the request's id from the 202 only; so the
\* invariant follows the request entry from the handler that owes it to the
\* chain, and from there with the polls.

RequestLogged(root, agent, id) ==
  \E i \in DOMAIN log[root][agent] : log[root][agent][i] = Entry("token_request", id)
Logged(id) == RequestLogged(byAgent[byID[id].agent], byID[id].agent, id)

\* Every request is in the log or owed to it by the handler that made it.
RequestsLogged ==
  \A id \in Ids : Known(id) =>
    Logged(id) \/ \E h \in Handlers : At(h, "logRequest") /\ proc[h].id = id

\* What a handler counts on in the log.
HoldsLog(p) ==
  /\ p.pc = "logRequest" => /\ Known(p.id) /\ byID[p.id].agent = p.agent
                            /\ byAgent[p.agent] = p.tenant
  /\ p.pc \in {"polled", "mint"} => Logged(p.id)
  /\ p.pc = "issue" => /\ Logged(p.token.id)
                       /\ p.tenant = p.token.grant.root
                       /\ p.tenant = byAgent[p.token.agent]

LogInv == /\ RequestsLogged
          /\ \A h \in Handlers : HoldsLog(proc[h])
          /\ LogAccountsForTokens

\* While psd runs, chains only get longer, and a request keeps its place.
ChainsGrow ==
  \A root \in Addrs, agent \in Agents : \A i \in DOMAIN log[root][agent] :
    i \in DOMAIN log'[root][agent] /\ log'[root][agent][i] = log[root][agent][i]
RequestsStay ==
  /\ \A agent \in Agents : byAgent[agent] # None => byAgent'[agent] = byAgent[agent]
  /\ \A id \in Ids : Known(id) => Known(id)' /\ byID'[id].agent = byID[id].agent

LEMMA AppendGrows ==
  ASSUME TypeOK, NEW root \in Addrs, NEW agent \in Agents, NEW entry \in Entries,
         Append1(root, agent, entry)
  PROVE  /\ ChainsGrow
         /\ log'[root][agent] = Append(log[root][agent], entry)
         /\ DOMAIN log'[root][agent] = 1..(Len(log[root][agent]) + 1)
         /\ log'[root][agent][Len(log[root][agent]) + 1] = entry
<1>1. log \in [Addrs -> [Agents -> Seq(Entries)]]
  BY DEF TypeOK
<1>2. log[root][agent] \in Seq(Entries)
  BY <1>1
<1>3. \A r \in Addrs, a \in Agents :
        log'[r][a] = IF r = root /\ a = agent THEN Append(log[root][agent], entry)
                     ELSE log[r][a]
  BY <1>1 DEF Append1
<1>4. log'[root][agent] = Append(log[root][agent], entry)
  BY <1>3
<1>5. /\ Len(log[root][agent]) \in Nat
      /\ DOMAIN log[root][agent] = 1..Len(log[root][agent])
  BY <1>2, LenProperties
<1>6. /\ Append(log[root][agent], entry) \in Seq(Entries)
      /\ Len(Append(log[root][agent], entry)) = Len(log[root][agent]) + 1
      /\ \A i \in 1..Len(log[root][agent]) :
           Append(log[root][agent], entry)[i] = log[root][agent][i]
      /\ Append(log[root][agent], entry)[Len(log[root][agent]) + 1] = entry
  BY <1>2, AppendProperties
<1>7. DOMAIN Append(log[root][agent], entry) = 1..(Len(log[root][agent]) + 1)
  BY <1>6, LenProperties
<1>8. ChainsGrow
  <2> SUFFICES ASSUME NEW r \in Addrs, NEW a \in Agents, NEW i \in DOMAIN log[r][a]
               PROVE  i \in DOMAIN log'[r][a] /\ log'[r][a][i] = log[r][a][i]
    BY DEF ChainsGrow
  <2>1. CASE r = root /\ a = agent
    BY <2>1, <1>4, <1>5, <1>6, <1>7
  <2>2. CASE ~ (r = root /\ a = agent)
    BY <2>2, <1>3
  <2>. QED BY <2>1, <2>2
<1>. QED BY <1>4, <1>6, <1>7, <1>8

LEMMA LogGrows == ASSUME TypeOK, Serve PROVE ChainsGrow
<1>1. ASSUME UNCHANGED log PROVE ChainsGrow
  BY <1>1 DEF ChainsGrow
<1>2. ASSUME NEW h \in Handlers, EnrollLog(h) PROVE ChainsGrow
  <2>1. proc[h].tenant \in Addrs /\ proc[h].agent \in Agents
    BY <1>2, LocalFields DEF TypeOK, EnrollLog, At
  <2>2. Entry("agent_enrolled", NoId) \in Entries
    BY DEF Entry, Entries
  <2>. QED BY <2>1, <2>2, <1>2, AppendGrows DEF EnrollLog
<1>3. ASSUME NEW h \in Handlers, TokenLog(h) PROVE ChainsGrow
  <2>1. proc[h].tenant \in Addrs /\ proc[h].agent \in Agents /\ proc[h].id \in Ids
    BY <1>3, LocalFields DEF TypeOK, TokenLog, At
  <2>2. Entry("token_request", proc[h].id) \in Entries
    BY <2>1 DEF Entry, Entries
  <2>. QED BY <2>1, <2>2, <1>3, AppendGrows DEF TokenLog
<1>4. ASSUME NEW h \in Handlers, Issue(h) PROVE ChainsGrow
  <2>1. /\ proc[h].tenant \in Addrs
        /\ proc[h].token.agent \in Agents /\ proc[h].token.id \in Ids
    BY <1>4, LocalFields DEF TypeOK, Issue, At, AuthToken
  <2>2. Entry("token_issued", proc[h].token.id) \in Entries
    BY <2>1 DEF Entry, Entries
  <2>. QED BY <2>1, <2>2, <1>4, AppendGrows DEF Issue
<1>5. \/ UNCHANGED log
      \/ \E h \in Handlers : EnrollLog(h) \/ TokenLog(h) \/ Issue(h)
  BY DEF Serve, stores, Onboard, OnboardCommit, Enroll, EnrollCommit, Token, TokenCreate,
     Poll, ReadState, Mint, ApprovePage, ClickLookup, ApproveElevated, VerifyLookup,
     SetSig, Approve, Revoke, Tick
<1>. QED BY <1>1, <1>2, <1>3, <1>4, <1>5

LEMMA StaysThroughServe == ASSUME IInv, Serve, UNCHANGED psBoot PROVE RequestsStay
<1>0. TypeOK /\ StoreTypeOK /\ TenantsTypeOK
  BY DEF IInv, TypeOK
<1>1. \A agent \in Agents : byAgent[agent] # None => byAgent'[agent] = byAgent[agent]
  <2>1. ASSUME NEW h \in Handlers, EnrollCommit(h)
        PROVE  \A agent \in Agents : byAgent[agent] # None => byAgent'[agent] = byAgent[agent]
    BY <2>1, <1>0 DEF EnrollCommit, EnrollAgent, BoundElsewhere, TenantsTypeOK, tenantVars
  <2>2. UNCHANGED byAgent \/ \E h \in Handlers : EnrollCommit(h)
    BY DEF Serve, stores, storeVars, tenantVars, Onboard, OnboardCommit, OnboardTenant, Enroll,
       EnrollLog, Token, TokenCreate, TokenLog, Poll, ReadState, Mint, Issue, ApprovePage,
       ClickLookup, ApproveElevated, VerifyLookup, SetSig, Approve, Revoke, RevokeHandle, Tick
  <2>. QED BY <2>1, <2>2
<1>2. \A id \in Ids : Known(id) => Known(id)' /\ byID'[id].agent = byID[id].agent
  <2> DEFINE Stay == \A id \in Ids : Known(id) => Known(id)' /\ byID'[id].agent = byID[id].agent
  <2>1. CASE UNCHANGED byID
    BY <2>1 DEF Known
  <2>2. ASSUME NEW h \in Handlers, NEW i \in Ids, NEW code \in Codes, TokenCreate(h, i, code)
        PROVE  Stay
    <3>1. ~ Known(i) /\ \E r : byID' = [byID EXCEPT ![i] = r]
      BY <2>2 DEF TokenCreate, StoreCreate
    <3>2. \A id \in Ids : id # i => byID'[id] = byID[id]
      BY <3>1, <1>0 DEF StoreTypeOK
    <3>. QED BY <3>1, <3>2 DEF Known
  <2>3. ASSUME NEW i \in Ids, Known(i),
               \/ byID' = byID
               \/ \E state \in States : byID' = [byID EXCEPT ![i].state = state]
               \/ \E sig \in Sig : byID' = [byID EXCEPT ![i].stepUpSig = sig]
        PROVE  Stay
    <3>1. byID[i] \in Request
      BY <2>3, <1>0, RequestTyped
    <3>2. \A state \in States : /\ [byID[i] EXCEPT !.state = state] \in Request
                                /\ [byID[i] EXCEPT !.state = state].agent = byID[i].agent
      BY <3>1 DEF Request
    <3>3. \A sig \in Sig : /\ [byID[i] EXCEPT !.stepUpSig = sig] \in Request
                           /\ [byID[i] EXCEPT !.stepUpSig = sig].agent = byID[i].agent
      BY <3>1 DEF Request
    <3>4. \E r \in Request : /\ r.agent = byID[i].agent
                             /\ byID' = byID \/ byID' = [byID EXCEPT ![i] = r]
      BY <2>3, <3>1, <3>2, <3>3
    <3>5. \A id \in Ids : id # i => byID'[id] = byID[id]
      BY <3>4, <1>0 DEF StoreTypeOK
    <3>6. byID'[i] # NoRequest /\ byID'[i].agent = byID[i].agent
      BY <3>1, <3>4, <1>0, ConsentAssumption DEF StoreTypeOK
    <3>. QED BY <3>5, <3>6 DEF Known
  <2>4. ASSUME NEW h \in Handlers, NEW agent \in Agents, NEW i \in Ids, Poll(h, agent, i)
        PROVE  Stay
    <3>1. /\ Known(i)
          /\ byID' = byID \/ byID' = [byID EXCEPT ![i].state = "expired"]
      BY <2>4 DEF Poll, Announced, StorePoll
    <3>. QED BY <3>1, <2>3 DEF States
  <2>5. ASSUME NEW h \in Handlers, SetSig(h) PROVE Stay
    <3>1. /\ proc[h].id \in Ids /\ Known(proc[h].id) /\ proc[h].sig \in Sig
          /\ byID' = [byID EXCEPT ![proc[h].id].stepUpSig = proc[h].sig]
      BY <2>5, <1>0, LocalFields
         DEF IInv, TypeOK, HandlersHold, Holds, SetSig, At, StoreStepUpSig
    <3>. QED BY <3>1, <2>3
  <2>6. ASSUME NEW h \in Handlers, Approve(h) PROVE Stay
    <3>1. /\ proc[h].id \in Ids /\ Known(proc[h].id)
          /\ byID' = byID \/ \E state \in States : byID' = [byID EXCEPT ![proc[h].id].state = state]
      <4>1. proc[h].id \in Ids /\ Known(proc[h].id) /\ Transition(proc[h].id, "approved")
        BY <2>6, <1>0, LocalFields DEF IInv, TypeOK, HandlersHold, Holds, Approve, At
      <4>. QED BY <4>1 DEF Transition, States
    <3>. QED BY <3>1, <2>3
  <2>. QED BY <2>1, <2>2, <2>4, <2>5, <2>6, OffStore DEF Tick
<1>. QED BY <1>1, <1>2 DEF RequestsStay

\* A logged request stays logged, under the tenant its agent acts for.
LEMMA LoggedStays ==
  ASSUME IInv, Serve, UNCHANGED psBoot, NEW id \in Ids, Known(id), Logged(id)
  PROVE  Logged(id)'
<1>1. ChainsGrow /\ RequestsStay
  BY LogGrows, StaysThroughServe DEF IInv
<1>2. byID[id].agent \in Agents /\ byAgent[byID[id].agent] \in Addrs
  BY RequestTyped DEF IInv, RequestsOwned, TypeOK, TenantsTypeOK
<1>3. /\ byID'[id].agent = byID[id].agent
      /\ byAgent'[byID[id].agent] = byAgent[byID[id].agent]
  BY <1>1, <1>2, DocumentsAssumption DEF RequestsStay
<1>. QED BY <1>1, <1>2, <1>3 DEF Logged, RequestLogged, ChainsGrow

\* Of what a handler does next, what the log is concerned with.
LEMMA LogMoves ==
  ASSUME TypeOK, Serve, NEW h \in Handlers
  PROVE  \/ proc'[h] = proc[h]
         \/ TokenLog(h)
         \/ \E id \in Ids, code \in Codes : TokenCreate(h, id, code)
         \/ \E agent \in Agents, id \in Ids : Poll(h, agent, id)
         \/ ReadState(h) \/ Mint(h) \/ Issue(h)
         \/ /\ proc[h].pc # "logRequest"
            /\ proc'[h].pc \notin {"logRequest", "polled", "mint", "issue"}
<1> DEFINE Away(other) ==
      /\ proc[other].pc # "logRequest"
      /\ \E next : Goto(other, next) /\ next.pc \notin {"logRequest", "polled", "mint", "issue"}
<1>0. /\ proc \in [Handlers -> LocalStates]
      /\ Free.pc \notin {"logRequest", "polled", "mint", "issue"}
  BY DEF Free, TypeOK
<1>1. ASSUME NEW g \in Handlers, NEW p \in PSADocs, Onboard(g, p) PROVE Away(g)
  BY <1>1 DEF Onboard, At
<1>2. ASSUME NEW g \in Handlers, NEW agent \in Agents, NEW key \in AgentKeys,
             NEW doc \in GrantDocs, Enroll(g, agent, key, doc)
      PROVE  Away(g)
  BY <1>2 DEF Enroll, At
<1>3. ASSUME NEW g \in Handlers, NEW agent \in Agents, NEW key \in AgentKeys, NEW ask \in Asks,
             Token(g, agent, key, ask)
      PROVE  Away(g)
  BY <1>3 DEF Token, At
<1>4. ASSUME NEW g \in Handlers, NEW code \in Codes, ApprovePage(g, code) PROVE Away(g)
  BY <1>4 DEF ApprovePage, At
<1>5. ASSUME NEW g \in Handlers, NEW code \in Codes, NEW sig, ApproveElevated(g, code, sig)
      PROVE  Away(g)
  BY <1>5 DEF ApproveElevated, At
<1>6. ASSUME NEW g \in Handlers, OnboardCommit(g) \/ EnrollLog(g) \/ Approve(g) PROVE Away(g)
  BY <1>0, <1>6 DEF OnboardCommit, EnrollLog, Approve, At
<1>7. ASSUME NEW g \in Handlers, EnrollCommit(g) PROVE Away(g)
  BY <1>0, <1>7 DEF EnrollCommit, At
<1>8. ASSUME NEW g \in Handlers, ClickLookup(g) PROVE Away(g)
  BY <1>0, <1>8 DEF ClickLookup, At
<1>9. ASSUME NEW g \in Handlers, VerifyLookup(g) PROVE Away(g)
  BY <1>0, <1>9 DEF VerifyLookup, At
<1>10. ASSUME NEW g \in Handlers, SetSig(g) PROVE Away(g)
  BY <1>10 DEF SetSig, At
<1>11. ASSUME Tick \/ \E handle \in Revocable : Revoke(handle) PROVE UNCHANGED proc
  BY <1>11 DEF Tick, Revoke
<1>12. ASSUME NEW g \in Handlers, g # h,
              \/ \E id \in Ids, code \in Codes : TokenCreate(g, id, code)
              \/ \E agent \in Agents, id \in Ids : Poll(g, agent, id)
              \/ TokenLog(g) \/ ReadState(g) \/ Mint(g) \/ Issue(g)
       PROVE  proc'[h] = proc[h]
  <2>1. UNCHANGED proc \/ \E next : Goto(g, next)
    <3>1. ASSUME NEW id \in Ids, NEW code \in Codes, TokenCreate(g, id, code)
          PROVE  \E next : Goto(g, next)
      BY <3>1 DEF TokenCreate
    <3>2. ASSUME NEW agent \in Agents, NEW id \in Ids, Poll(g, agent, id)
          PROVE  UNCHANGED proc \/ \E next : Goto(g, next)
      BY <3>2 DEF Poll
    <3>3. ASSUME TokenLog(g) \/ Issue(g) PROVE \E next : Goto(g, next)
      BY <3>3 DEF TokenLog, Issue
    <3>4. ASSUME ReadState(g) PROVE \E next : Goto(g, next)
      BY <3>4 DEF ReadState
    <3>5. ASSUME Mint(g) PROVE \E next : Goto(g, next)
      BY <3>5 DEF Mint
    <3>. QED BY <3>1, <3>2, <3>3, <3>4, <3>5, <1>12
  <2>. QED BY <2>1, <1>12, <1>0 DEF Goto
<1>13. ASSUME NEW g \in Handlers, Away(g)
       PROVE  \/ proc'[h] = proc[h]
              \/ /\ proc[h].pc # "logRequest"
                 /\ proc'[h].pc \notin {"logRequest", "polled", "mint", "issue"}
  BY <1>13, <1>0 DEF Goto
<1> HIDE DEF Away
<1>. QED BY <1>1, <1>2, <1>3, <1>4, <1>5, <1>6, <1>7, <1>8, <1>9, <1>10, <1>11, <1>12, <1>13
         DEF Serve

LEMMA OnlyCreateMakesKnown ==
  ASSUME IInv, Serve, NEW id \in Ids, ~ Known(id), Known(id)'
  PROVE  \E h \in Handlers, code \in Codes : TokenCreate(h, id, code)
<1>0. TypeOK /\ StoreTypeOK
  BY DEF IInv, TypeOK
<1>1. ASSUME NEW i \in Ids, i # id,
             \/ byID' = byID
             \/ \E r : byID' = [byID EXCEPT ![i] = r]
      PROVE  FALSE
  BY <1>1, <1>0 DEF Known, StoreTypeOK
<1>2. ASSUME NEW h \in Handlers, NEW i \in Ids, NEW code \in Codes, TokenCreate(h, i, code)
      PROVE  i = id
  <2>1. \E r : byID' = [byID EXCEPT ![i] = r]
    BY <1>2 DEF TokenCreate, StoreCreate
  <2>. QED BY <2>1, <1>1
<1>3. ASSUME NEW h \in Handlers, NEW agent \in Agents, NEW i \in Ids, Poll(h, agent, i)
      PROVE  FALSE
  <2>1. i # id /\ (byID' = byID \/ \E r : byID' = [byID EXCEPT ![i] = r])
    BY <1>3 DEF Poll, Announced, StorePoll
  <2>. QED BY <2>1, <1>1
<1>4. ASSUME NEW h \in Handlers, SetSig(h) \/ Approve(h) PROVE FALSE
  <2>1. proc[h].id \in Ids /\ Known(proc[h].id)
    BY <1>0, <1>4, LocalFields DEF IInv, TypeOK, HandlersHold, Holds, SetSig, Approve, At
  <2>2. byID' = byID \/ \E r : byID' = [byID EXCEPT ![proc[h].id] = r]
    BY <1>4 DEF SetSig, Approve, StoreStepUpSig, Transition
  <2>. QED BY <2>1, <2>2, <1>1
<1>5. ~ UNCHANGED <<now, byID>> /\ ~ Tick
  BY DEF Known, Tick
<1>. QED BY <1>2, <1>3, <1>4, <1>5, OffStore

\* What a handler counts on in the log, it finds there.
LEMMA HoldsLogStep ==
  ASSUME IInv, LogInv, Serve, UNCHANGED psBoot, NEW h \in Handlers
  PROVE  HoldsLog(proc[h])'
<1> DEFINE p == proc[h]
<1>0. /\ TypeOK /\ Tenancy /\ p \in LocalStates /\ Holds(p) /\ HoldsLog(p)
      /\ RequestsLogged /\ RequestsStay
  BY StaysThroughServe DEF IInv, TypeOK, HandlersHold, LogInv
<1>1. CASE proc'[h] = proc[h]
  <2>1. p.pc = "logRequest" => (/\ Known(p.id) /\ byID[p.id].agent = p.agent
                                /\ byAgent[p.agent] = p.tenant)'
    BY <1>0, <1>1, LocalFields, DocumentsAssumption DEF HoldsLog, RequestsStay
  <2>2. p.pc \in {"polled", "mint"} => Logged(p.id)'
    BY <1>0, <1>1, LocalFields, LoggedStays DEF HoldsLog, Holds
  <2>3. p.pc = "issue" => (/\ Logged(p.token.id)
                           /\ p.tenant = p.token.grant.root
                           /\ p.tenant = byAgent[p.token.agent])'
    <3> SUFFICES ASSUME p.pc = "issue"
                 PROVE  /\ Logged(p.token.id)'
                        /\ p.tenant = p.token.grant.root
                        /\ p.tenant = byAgent'[p.token.agent]
      BY <1>1
    <3>1. /\ p.token.id \in Ids /\ p.token.agent \in Agents /\ p.tenant \in Addrs
          /\ Known(p.token.id)
      BY <1>0, LocalFields DEF AuthToken, Holds, Consented
    <3>2. PICK id \in Ids : id = p.token.id
      BY <3>1
    <3>3. Logged(id)'
      BY <3>1, <3>2, <1>0, LoggedStays DEF HoldsLog
    <3>. QED BY <3>1, <3>2, <3>3, <1>0, <1>1, DocumentsAssumption DEF HoldsLog, RequestsStay
  <2>. QED BY <1>1, <2>1, <2>2, <2>3 DEF HoldsLog
<1>2. ASSUME NEW id \in Ids, NEW code \in Codes, TokenCreate(h, id, code)
      PROVE  HoldsLog(proc[h])'
  <2> DEFINE r == NewRequest(code, p.agent, p.ask, p.mission,
                             TierFor(psaOf[p.tenant].scope, p.ask.amount))
  <2>1. /\ proc'[h] = [pc |-> "logRequest", agent |-> p.agent, tenant |-> p.tenant, id |-> id]
        /\ UNCHANGED byAgent
        /\ byID' = [byID EXCEPT ![id] = r]
    BY <1>0, <1>2 DEF TokenCreate, Goto, StoreCreate, TypeOK, tenantVars
  <2>2. byAgent[p.agent] = p.tenant
    BY <1>0, <1>2 DEF Holds, TokenCreate, At
  <2>3. Known(id)'
    <3>1. NewRequest(code, p.agent, p.ask, p.mission,
                     TierFor(psaOf[p.tenant].scope, p.ask.amount)) \in Request
      <4>1. p.agent \in Agents /\ p.ask \in Asks /\ p.mission \in Missions
        BY <1>0, <1>2, LocalFields DEF TokenCreate, At
      <4>. QED BY <4>1, <1>0, NewRequestType DEF TypeOK, TierFor, Tiers
    <3>. QED BY <2>1, <3>1, <1>0, ConsentAssumption DEF Known, TypeOK, StoreTypeOK
  <2>4. byID'[id].agent = p.agent
    BY <2>1, <1>0 DEF NewRequest, TypeOK, StoreTypeOK
  <2>. QED BY <2>1, <2>2, <2>3, <2>4 DEF HoldsLog
<1>3. ASSUME NEW agent \in Agents, NEW id \in Ids, Poll(h, agent, id)
      PROVE  HoldsLog(proc[h])'
  <2>1. Known(id) /\ Logged(id)
    BY <1>0, <1>3 DEF Poll, Announced, RequestsLogged, At
  <2>2. Logged(id)'
    BY <2>1, LoggedStays
  <2>3. \/ proc'[h] = proc[h]
        \/ proc'[h].pc = "polled" /\ proc'[h].id = id
    BY <1>0, <1>3 DEF Poll, Goto, TypeOK
  <2>. QED BY <2>2, <2>3, <1>1 DEF HoldsLog
<1>4. CASE ReadState(h)
  <2>1. PICK id \in Ids : id = p.id
    BY <1>0, <1>4, LocalFields DEF ReadState, At
  <2>2. Known(id) /\ Logged(id)
    BY <2>1, <1>0, <1>4 DEF ReadState, At, Holds, HoldsLog
  <2>3. Logged(id)'
    BY <2>2, LoggedStays
  <2>4. \/ proc'[h] = Free
        \/ proc'[h].pc = "mint" /\ proc'[h].id = id
    BY <2>1, <1>0, <1>4 DEF ReadState, Goto, TypeOK
  <2>. QED BY <2>3, <2>4 DEF HoldsLog, Free
<1>5. CASE Mint(h)
  <2>1. PICK id \in Ids : id = p.id
    BY <1>0, <1>5, LocalFields DEF Mint, At
  <2>2. /\ Known(id) /\ Logged(id)
        /\ p.tenant = byAgent[p.agent] /\ p.grant.root = p.tenant
    BY <2>1, <1>0, <1>5 DEF Mint, At, Holds, HoldsLog, GrantGood
  <2>3. Logged(id)' /\ UNCHANGED byAgent
    BY <2>2, <1>5, LoggedStays DEF Mint, stores, tenantVars
  <2>4. \/ proc'[h] = Free
        \/ /\ proc'[h].pc = "issue" /\ proc'[h].tenant = p.tenant
           /\ proc'[h].token.id = id /\ proc'[h].token.grant = p.grant
           /\ proc'[h].token.agent = p.agent
    BY <2>1, <1>0, <1>5 DEF Mint, Goto, TypeOK, MintedToken
  <2>. QED BY <2>2, <2>3, <2>4 DEF HoldsLog, Free
<1>6. CASE TokenLog(h) \/ Issue(h)
  <2>1. proc'[h] = Free
    BY <1>0, <1>6 DEF TokenLog, Issue, Goto, TypeOK
  <2>. QED BY <2>1 DEF HoldsLog, Free
<1>7. CASE proc'[h].pc \notin {"logRequest", "polled", "mint", "issue"}
  BY <1>7 DEF HoldsLog
<1>. QED BY <1>0, <1>1, <1>2, <1>3, <1>4, <1>5, <1>6, <1>7, LogMoves

\* A new request is owed to the log by its handler; an owed one is paid.
LEMMA RequestsLoggedStep ==
  ASSUME IInv, LogInv, Serve, UNCHANGED psBoot
  PROVE  RequestsLogged'
<1>0. TypeOK /\ RequestsLogged /\ RequestsStay /\ \A h \in Handlers : HoldsLog(proc[h])
  BY StaysThroughServe DEF IInv, LogInv
<1> SUFFICES ASSUME NEW id \in Ids, Known(id)'
             PROVE  Logged(id)' \/ \E h \in Handlers : (At(h, "logRequest") /\ proc[h].id = id)'
  BY DEF RequestsLogged
<1>1. CASE ~ Known(id)
  <2>1. PICK h \in Handlers, code \in Codes : TokenCreate(h, id, code)
    BY <1>1, OnlyCreateMakesKnown
  <2>2. proc'[h].pc = "logRequest" /\ proc'[h].id = id
    BY <2>1, <1>0 DEF TokenCreate, Goto, TypeOK
  <2>. QED BY <2>2 DEF At
<1>2. CASE Known(id) /\ Logged(id)
  BY <1>2, LoggedStays
<1>3. ASSUME Known(id), NEW h \in Handlers, At(h, "logRequest"), proc[h].id = id
      PROVE  Logged(id)' \/ (At(h, "logRequest") /\ proc[h].id = id)'
  <2>1. CASE proc'[h] = proc[h]
    BY <2>1, <1>3 DEF At
  <2>2. CASE TokenLog(h)
    <3>1. /\ proc[h].tenant \in Addrs /\ proc[h].agent \in Agents
          /\ byID[id].agent = proc[h].agent /\ byAgent[proc[h].agent] = proc[h].tenant
      BY <1>0, <1>3, LocalFields DEF TypeOK, HoldsLog, At
    <3>2. /\ Append1(proc[h].tenant, proc[h].agent, Entry("token_request", id))
          /\ UNCHANGED <<byID, byAgent>>
      BY <1>3, <2>2 DEF TokenLog, storeVars, tenantVars
    <3>3. Entry("token_request", id) \in Entries
      BY DEF Entry, Entries
    <3>4. /\ DOMAIN log'[proc[h].tenant][proc[h].agent]
               = 1..(Len(log[proc[h].tenant][proc[h].agent]) + 1)
          /\ log'[proc[h].tenant][proc[h].agent][Len(log[proc[h].tenant][proc[h].agent]) + 1]
               = Entry("token_request", id)
      BY <1>0, <3>1, <3>2, <3>3, AppendGrows
    <3>5. Len(log[proc[h].tenant][proc[h].agent]) \in Nat
      BY <1>0, <3>1, LenProperties DEF TypeOK
    <3>6. PICK root, agent, n :
            /\ root = proc[h].tenant /\ agent = proc[h].agent
            /\ n = Len(log[proc[h].tenant][proc[h].agent]) + 1
      OBVIOUS
    <3>7. /\ n \in DOMAIN log'[root][agent] /\ log'[root][agent][n] = Entry("token_request", id)
          /\ byID'[id].agent = agent /\ byAgent'[agent] = root
      BY <3>1, <3>2, <3>4, <3>5, <3>6
    <3>. QED BY <3>7 DEF Logged, RequestLogged
  <2>3. /\ ~ \E i \in Ids, code \in Codes : TokenCreate(h, i, code)
        /\ ~ \E agent \in Agents, i \in Ids : Poll(h, agent, i)
        /\ ~ ReadState(h) /\ ~ Mint(h) /\ ~ Issue(h)
    BY <1>3 DEF At, TokenCreate, Poll, ReadState, Mint, Issue
  <2>. QED BY <1>0, <1>3, <2>1, <2>2, <2>3, LogMoves DEF At
<1>. QED BY <1>0, <1>1, <1>2, <1>3 DEF RequestsLogged

\* The new token's entry comes after its request's, on the same chain.
LEMMA AccountsStep ==
  ASSUME IInv, LogInv, Serve, UNCHANGED psBoot
  PROVE  LogAccountsForTokens'
<1>0. /\ TypeOK /\ ChainsGrow /\ LogAccountsForTokens /\ IssuerKey' = IssuerKey
      /\ issued \in Seq(AuthToken)
  BY LogGrows DEF IInv, LogInv, IssuerKey, TypeOK
<1>1. ASSUME NEW n \in DOMAIN issued, issued[n].key = IssuerKey
      PROVE  \E i, j \in DOMAIN log'[issued[n].grant.root][issued[n].agent] :
               /\ i < j
               /\ log'[issued[n].grant.root][issued[n].agent][i]
                    = Entry("token_request", issued[n].id)
               /\ log'[issued[n].grant.root][issued[n].agent][j]
                    = Entry("token_issued", issued[n].id)
  <2>1. issued[n] \in AuthToken
    BY <1>0
  <2>2. issued[n].grant.root \in Addrs /\ issued[n].agent \in Agents
    BY <2>1, DocumentsAssumption DEF AuthToken
  <2>3. PICK i, j \in DOMAIN log[issued[n].grant.root][issued[n].agent] :
          /\ i < j
          /\ log[issued[n].grant.root][issued[n].agent][i]
               = Entry("token_request", issued[n].id)
          /\ log[issued[n].grant.root][issued[n].agent][j]
               = Entry("token_issued", issued[n].id)
    BY <1>0, <1>1 DEF LogAccountsForTokens, Tokens
  <2>. QED BY <1>0, <2>2, <2>3 DEF ChainsGrow
<1>2. CASE UNCHANGED issued
  BY <1>0, <1>1, <1>2 DEF LogAccountsForTokens, Tokens
<1>3. ASSUME NEW h \in Handlers, Issue(h) PROVE LogAccountsForTokens'
  <2>0. PICK t, root : t = proc[h].token /\ root = proc[h].tenant
    OBVIOUS
  <2> DEFINE chain == log[root][t.agent]
  <2>1. /\ t \in AuthToken /\ t.agent \in Agents /\ t.id \in Ids /\ root \in Addrs
        /\ root = t.grant.root
        /\ Logged(t.id) /\ root = byAgent[t.agent] /\ byID[t.id].agent = t.agent
    BY <1>3, <2>0, LocalFields
       DEF IInv, LogInv, TypeOK, HandlersHold, Holds, Consented, HoldsLog, Issue, At, AuthToken
  <2>2. Entry("token_issued", t.id) \in Entries
    BY <2>1 DEF Entry, Entries
  <2>3. Append1(root, t.agent, Entry("token_issued", t.id)) /\ issued' = Append(issued, t)
    BY <1>3, <2>0 DEF Issue
  <2>4. /\ DOMAIN log'[root][t.agent] = 1..(Len(chain) + 1)
        /\ log'[root][t.agent][Len(chain) + 1] = Entry("token_issued", t.id)
    BY <1>0, <2>1, <2>2, <2>3, AppendGrows
  <2>5. chain \in Seq(Entries) /\ Len(chain) \in Nat /\ DOMAIN chain = 1..Len(chain)
    BY <1>0, <2>1, LenProperties DEF TypeOK
  <2>6. PICK i \in DOMAIN chain : chain[i] = Entry("token_request", t.id)
    <3>1. RequestLogged(root, t.agent, t.id)
      BY <2>1 DEF Logged
    <3>. QED BY <3>1 DEF RequestLogged
  <2>7. /\ i \in DOMAIN log'[root][t.agent]
        /\ log'[root][t.agent][i] = Entry("token_request", t.id)
    BY <1>0, <2>1, <2>6 DEF ChainsGrow
  <2>8. i < Len(chain) + 1 /\ Len(chain) + 1 \in DOMAIN log'[root][t.agent]
    BY <2>4, <2>5, <2>6
  <2>9. \E k, j \in DOMAIN log'[t.grant.root][t.agent] :
          /\ k < j
          /\ log'[t.grant.root][t.agent][k] = Entry("token_request", t.id)
          /\ log'[t.grant.root][t.agent][j] = Entry("token_issued", t.id)
    <3>1. PICK k, j \in DOMAIN log'[root][t.agent] : k = i /\ j = Len(chain) + 1
      BY <2>7, <2>8
    <3>. QED BY <3>1, <2>1, <2>4, <2>7, <2>8
  <2>10. \A n \in DOMAIN issued' : issued'[n] = t \/ (n \in DOMAIN issued /\ issued'[n] = issued[n])
    <3>1. /\ issued' \in Seq(AuthToken) /\ Len(issued') = Len(issued) + 1
          /\ \A n \in 1..Len(issued) : issued'[n] = issued[n]
          /\ issued'[Len(issued) + 1] = t
      BY <1>0, <2>1, <2>3, AppendProperties
    <3>2. /\ DOMAIN issued = 1..Len(issued) /\ Len(issued) \in Nat
          /\ DOMAIN issued' = 1..(Len(issued) + 1)
      BY <1>0, <3>1, LenProperties
    <3>3. \A n \in 1..(Len(issued) + 1) : n \in 1..Len(issued) \/ n = Len(issued) + 1
      BY <3>2
    <3>. QED BY <3>1, <3>2, <3>3, Zenon
  <2> SUFFICES ASSUME NEW n \in DOMAIN issued', issued'[n].key = IssuerKey'
               PROVE  \E k, j \in DOMAIN log'[issued'[n].grant.root][issued'[n].agent] :
                        /\ k < j
                        /\ log'[issued'[n].grant.root][issued'[n].agent][k]
                             = Entry("token_request", issued'[n].id)
                        /\ log'[issued'[n].grant.root][issued'[n].agent][j]
                             = Entry("token_issued", issued'[n].id)
    BY DEF LogAccountsForTokens, Tokens
  <2>11. CASE issued'[n] = t
    BY <2>9, <2>11
  <2>12. CASE n \in DOMAIN issued /\ issued'[n] = issued[n]
    BY <1>0, <1>1, <2>12
  <2>. QED BY <2>10, <2>11, <2>12
<1>4. UNCHANGED issued \/ \E h \in Handlers : Issue(h)
  BY DEF Serve, stores, Onboard, OnboardCommit, Enroll, EnrollCommit, EnrollLog, Token,
     TokenCreate, TokenLog, Poll, ReadState, Mint, ApprovePage, ClickLookup,
     ApproveElevated, VerifyLookup, SetSig, Approve, Revoke, Tick
<1>. QED BY <1>2, <1>3, <1>4

\* After a restart no token of this boot is out yet, and nothing is owed.
LEMMA LogRestarts == ASSUME IInv, Restart PROVE LogInv'
<1>1. IInv'
  BY RestartStep
<1>2. (\A id \in Ids : ~ Known(id)) ' /\ proc' = [h \in Handlers |-> Free]
  BY DEF Restart, Known
<1>3. LogAccountsForTokens'
  <2> SUFFICES ASSUME NEW n \in DOMAIN issued', issued'[n].key = IssuerKey' PROVE FALSE
    BY DEF LogAccountsForTokens, Tokens
  <2>1. issued' \in Seq(AuthToken) /\ TokensGood'
    BY <1>1 DEF IInv, TypeOK
  <2>2. issued'[n].id \in Ids
    <3>1. issued'[n] \in AuthToken
      BY <2>1
    <3>. QED BY <3>1 DEF AuthToken
  <2>3. byID'[issued'[n].id] # NoRequest
    BY <2>1 DEF TokensGood, Consented, Known
  <2>. QED BY <2>2, <2>3, <1>2 DEF Known
<1>. QED BY <1>2, <1>3 DEF LogInv, RequestsLogged, HoldsLog, Free

LEMMA LogStutters == ASSUME LogInv, UNCHANGED vars PROVE LogInv'
<1> USE DEF vars, stores, storeVars, tenantVars
<1>1. RequestsLogged'
  BY DEF LogInv, RequestsLogged, Logged, RequestLogged, Known, At
<1>2. (\A h \in Handlers : HoldsLog(proc[h]))'
  BY DEF LogInv, HoldsLog, Logged, RequestLogged, Known
<1>3. LogAccountsForTokens'
  BY DEF LogInv, LogAccountsForTokens, Tokens, IssuerKey
<1>. QED BY <1>1, <1>2, <1>3 DEF LogInv

LEMMA LogInvariance == Spec => []LogInv
<1>1. Init => LogInv
  BY DEF Init, StoreInit, Known, LogInv, RequestsLogged, HoldsLog, Free, LogAccountsForTokens, Tokens
<1>2. IInv /\ LogInv /\ [Next]_vars => LogInv'
  BY RequestsLoggedStep, HoldsLogStep, AccountsStep, LogRestarts, LogStutters DEF Next, LogInv
<1>. QED BY <1>1, <1>2, Invariance, PTL DEF Spec

\* An agent's chain accounts for every token of the running server, the
\* request before the issue (server.go:153-154, 214-215).
THEOREM EveryTokenIsLogged == Spec => []LogAccountsForTokens
BY LogInvariance, PTL DEF LogInv
=============================================================================
