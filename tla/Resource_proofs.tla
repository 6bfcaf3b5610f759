-------------------------- MODULE Resource_proofs ---------------------------
(***************************************************************************)
(* The resource keeps Acceptance's promise against any world, for any set  *)
(* of documents, tokens, keys and concurrent requests.                     *)
(*                                                                         *)
(* The inductive invariant has three parts: the types; what the replay     *)
(* cache knows (Spending: a request past Layer 1 owns its jti); and what   *)
(* each step of Layer 2 has established about the documents it holds       *)
(* (Established).                                                          *)
(***************************************************************************)
EXTENDS Resource, SequenceTheorems, TLAPS

PastThumb == {"verifyPSA", "grant", "verifyGrant"}
PastPSA == PastThumb \cup {"issuerThumb"}
Layer2 == PastPSA \cup {"psa"}
InLayer2(v) == check[v].step \in Layer2

Spending ==
  /\ \A v \in Requests : InLayer2(v) => check[v].token.jti \in seen
  /\ \A v, w \in Requests : v # w /\ InLayer2(v) /\ InLayer2(w)
       => check[v].token.jti # check[w].token.jti
  /\ \A n \in DOMAIN accepted :
       /\ accepted[n].boot \in 1..rsBoot
       /\ accepted[n].boot = rsBoot => accepted[n].token.jti \in seen
  /\ \A v \in Requests, n \in DOMAIN accepted :
       InLayer2(v) /\ accepted[n].boot = rsBoot
         => accepted[n].token.jti # check[v].token.jti

PSALinked(c) ==
  /\ VerifyRootSig(c.psa.root, PSADigest(c.psa), c.psa.sig)
  /\ c.psa.issuer = c.token.iss
  /\ c.key \in c.psa.keys
  /\ AddrEq(c.psa.root, c.token.sub)

StageOK(c) ==
  /\ c.step \in Layer2 => c.token.cnf = c.thumb
  /\ c.step \in PastPSA => c.token.psa.pin \in {None, c.psa}
  /\ c.step \in {"grant", "verifyGrant"} => PSALinked(c)
  /\ c.step = "verifyGrant" => c.grant = c.token.grant

Established == \A v \in Requests : StageOK(check[v])

IInv == TypeOK /\ Spending /\ Established

-----------------------------------------------------------------------------
\* Types.
LEMMA IdleTyped == Idle \in Local /\ LocalOK(Idle)
  BY DEF LocalOK, Local, Idle, Answers, Steps

LEMMA InitTypes == Init => TypeOK
<1> SUFFICES ASSUME Init PROVE TypeOK
  OBVIOUS
<1> USE DEF Init, VerifierInit
<1>1. check \in [Requests -> Local] /\ \A v \in Requests : LocalOK(check[v])
  BY IdleTyped
<1>2. rsBoot \in 1..MaxRsBoots
  BY ResourceAssumption
<1>3. accepted \in Seq(Acceptance)
  OBVIOUS
<1> QED
  BY <1>1, <1>2, <1>3 DEF TypeOK

\* A step of one request that leaves its local variables well typed.
LEMMA LocalStep ==
  ASSUME TypeOK, NEW v \in Requests, NEW c \in Local,
         check' = [check EXCEPT ![v] = c], LocalOK(c), rsBoot' = rsBoot
  PROVE  /\ check' \in [Requests -> Local]
         /\ (\A w \in Requests : LocalOK(check[w]))'
<1>1. \A w \in Requests : check'[w] = IF w = v THEN c ELSE check[w]
  BY DEF TypeOK
<1>2. \A w \in Requests : LocalOK(check'[w])
  BY <1>1 DEF TypeOK
<1>3. (\A w \in Requests : LocalOK(check[w]))'
  BY <1>2 DEF LocalOK
<1> QED
  BY <1>1, <1>3 DEF TypeOK

LEMMA KeptTypes ==
  ASSUME TypeOK, NEW v \in Requests, NEW c \in Local,
         check' = [check EXCEPT ![v] = c], LocalOK(c),
         UNCHANGED <<seen, rsBoot, accepted, world>>
  PROVE  TypeOK'
  BY LocalStep DEF TypeOK, world

LEMMA RefuseTypes ==
  ASSUME TypeOK, NEW v \in Requests, Refuse(v), UNCHANGED world
  PROVE  TypeOK'
  BY KeptTypes, IdleTyped DEF Refuse

LEMMA AcceptTypes ==
  ASSUME TypeOK, NEW v \in Requests, check[v].step \notin {"idle", "hung"}, Accept(v),
         seen' \subseteq {t.jti : t \in JWTs}, UNCHANGED <<rsBoot, world>>
  PROVE  TypeOK'
<1>1. Served(check[v]) \in Acceptance
  BY ResourceAssumption, DocumentsAssumption
     DEF TypeOK, LocalOK, Local, Served, Acceptance, Doing
<1>2. accepted' \in Seq(Acceptance)
  BY <1>1, AppendProperties DEF TypeOK, Accept
<1>3. check' \in [Requests -> Local] /\ (\A w \in Requests : LocalOK(check[w]))'
  BY LocalStep, IdleTyped DEF Accept
<1> QED
  BY <1>2, <1>3 DEF TypeOK, world

LEMMA SpendTypes ==
  ASSUME TypeOK, NEW v \in Requests, SpendForThisRequest(v, now)
  PROVE  /\ seen' \subseteq {t.jti : t \in JWTs}
         /\ rsBoot' = rsBoot
         /\ check[v].step \notin {"idle", "hung"}
<1>1. check[v].step = "layer1"
  BY DEF SpendForThisRequest, Doing
<1>2. check[v].token \in JWTs
  BY <1>1 DEF TypeOK, LocalOK
<1> QED
  BY <1>1, <1>2 DEF SpendForThisRequest, SeenJTI, Doing, TypeOK

LEMMA ProgressTypes ==
  ASSUME TypeOK, NEW v \in Requests, Progress(v)
  PROVE  TypeOK'
<1> USE DEF Doing
<1>0. UNCHANGED world /\ check[v] \in Local /\ LocalOK(check[v])
  BY DEF Progress, TypeOK
<1>1. ASSUME NEW key \in Answers(KeySets), FetchIssuerKey(v, key)
      PROVE  TypeOK'
  <2> DEFINE c == [check[v] EXCEPT !.step = "layer1"]
  <2>1. check[v].step = "issuerKey" => c \in Local /\ LocalOK(c)
    BY <1>0 DEF Local, LocalOK, Steps
  <2> QED
    BY <2>1, <1>0, <1>1, KeptTypes, RefuseTypes DEF FetchIssuerKey, Proceed
<1>2. ASSUME NEW key \in Answers(KeySets), FetchIssuerThumb(v, key)
      PROVE  TypeOK'
  <2> DEFINE c == [check[v] EXCEPT !.step = "verifyPSA", !.key = key]
  <2>1. check[v].step = "issuerThumb" => c \in Local /\ LocalOK(c)
    BY <1>0 DEF Local, LocalOK, Steps
  <2> QED
    BY <2>1, <1>0, <1>2, KeptTypes, RefuseTypes DEF FetchIssuerThumb, Proceed
<1>3. CASE Layer1Refused(v, now)
  BY <1>0, <1>3, RefuseTypes DEF Layer1Refused
<1>4. CASE ServeVanilla(v, now)
  BY <1>0, <1>4, SpendTypes, AcceptTypes DEF ServeVanilla
<1>5. CASE RefuseUnrooted(v, now)
  <2>1. check' \in [Requests -> Local] /\ (\A w \in Requests : LocalOK(check[w]))'
    BY <1>5, LocalStep, IdleTyped, SpendTypes DEF RefuseUnrooted
  <2> QED
    BY <2>1, <1>0, <1>5, SpendTypes DEF RefuseUnrooted, TypeOK, world
<1>6. CASE StartLayer2(v, now)
  <2> DEFINE c == [check[v] EXCEPT !.step = "psa"]
  <2>1. c \in Local /\ LocalOK(c)
    BY <1>0, <1>6 DEF StartLayer2, SpendForThisRequest, Local, LocalOK, Steps
  <2>2. check' = [check EXCEPT ![v] = c]
    BY <1>6 DEF StartLayer2, TypeOK
  <2>3. check' \in [Requests -> Local] /\ (\A w \in Requests : LocalOK(check[w]))'
    BY <2>1, <2>2, <1>6, LocalStep, SpendTypes DEF StartLayer2
  <2> QED
    BY <2>3, <1>0, <1>6, SpendTypes DEF StartLayer2, TypeOK, world
<1>7. ASSUME NEW p \in Answers(PSADocs), FetchPSA(v, p)
      PROVE  TypeOK'
  <2> DEFINE c == [check[v] EXCEPT !.step = "issuerThumb", !.psa = p]
  <2>1. check[v].step = "psa" /\ p # None => c \in Local /\ LocalOK(c)
    BY <1>0 DEF Local, LocalOK, Steps
  <2> QED
    BY <2>1, <1>0, <1>7, KeptTypes, RefuseTypes DEF FetchPSA, Proceed
<1>8. CASE CheckPSA(v, now, revoked)
  <2> DEFINE c == [check[v] EXCEPT !.step = "grant"]
  <2>1. check[v].step = "verifyPSA" => c \in Local /\ LocalOK(c)
    BY <1>0 DEF Local, LocalOK, Steps
  <2> QED
    BY <2>1, <1>0, <1>8, KeptTypes, RefuseTypes DEF CheckPSA, Proceed
<1>9. ASSUME NEW g \in Answers(GrantDocs), FetchGrant(v, g)
      PROVE  TypeOK'
  <2> DEFINE c == [check[v] EXCEPT !.step = "verifyGrant", !.grant = g]
  <2>1. check[v].step = "grant" /\ g # None => c \in Local /\ LocalOK(c)
    BY <1>0 DEF Local, LocalOK, Steps
  <2> QED
    BY <2>1, <1>0, <1>9, KeptTypes, RefuseTypes DEF FetchGrant, Proceed
<1>10. CASE CheckGrantPassed(v, now, revoked)
  BY <1>0, <1>10, AcceptTypes DEF CheckGrantPassed, TypeOK
<1>11. CASE CheckGrantRefused(v, now, revoked)
  BY <1>0, <1>11, RefuseTypes DEF CheckGrantRefused
<1>12. CASE RegistryUnavailable(v)
  BY <1>0, <1>12, RefuseTypes DEF RegistryUnavailable
<1> QED
  BY <1>1, <1>2, <1>3, <1>4, <1>5, <1>6, <1>7, <1>8, <1>9, <1>10, <1>11, <1>12
     DEF Progress

LEMMA PresentTypes ==
  ASSUME TypeOK, NEW v \in Requests, NEW t \in JWTs, NEW thumb \in AgentKeys,
         Present(v, t, thumb), UNCHANGED world
  PROVE  TypeOK'
<1> DEFINE c == [Idle EXCEPT !.step = "issuerKey", !.token = t, !.thumb = thumb]
<1>1. c \in Local /\ LocalOK(c)
  BY DEF Idle, Local, LocalOK, Steps, Answers
<1> QED
  BY <1>1, KeptTypes DEF Present, Proceed

LEMMA HangTypes ==
  ASSUME TypeOK, NEW v \in Requests, Hang(v), UNCHANGED world
  PROVE  TypeOK'
<1> DEFINE c == [Idle EXCEPT !.step = "hung", !.token = check[v].token]
<1>1. check[v].token \in JWTs
  BY DEF Hang, Fetching, TypeOK, LocalOK
<1>2. c \in Local /\ LocalOK(c)
  BY <1>1 DEF Idle, Local, LocalOK, Steps, Answers
<1>. QED BY <1>2, KeptTypes DEF Hang, Proceed

LEMMA NextTypes == TypeOK /\ [Next]_vars => TypeOK'
<1> SUFFICES ASSUME TypeOK, [Next]_vars PROVE TypeOK'
  OBVIOUS
<1>1. CASE \E v \in Requests : Progress(v)
  BY <1>1, ProgressTypes
<1>2. CASE Arrive
  BY <1>2, PresentTypes DEF Arrive
<1>3. CASE Restart
  <2>1. check' \in [Requests -> Local] /\ (\A w \in Requests : LocalOK(check[w]))'
    BY <1>3, IdleTyped DEF Restart, RestartResource, LocalOK, Idle
  <2> QED
    BY <2>1, <1>3, ResourceAssumption DEF Restart, RestartResource, TypeOK, world
<1>4. CASE Tick
  BY <1>4 DEF Tick, TypeOK, LocalOK, verifierVars
<1>5. CASE Revoke
  BY <1>5 DEF Revoke, TypeOK, LocalOK, verifierVars
<1>6. CASE UNCHANGED vars
  BY <1>6 DEF vars, verifierVars, world, TypeOK, LocalOK
<1>7. CASE Stall
  BY <1>7, HangTypes DEF Stall
<1> QED
  BY <1>1, <1>2, <1>3, <1>4, <1>5, <1>6, <1>7 DEF Next

\* Every reachable state of the resource is well typed, whatever arrives and
\* whatever is fetched (resd/main.go:102-139; tokens.go:222-294).
THEOREM ResourceTypeCorrect == Spec => []TypeOK
  BY InitTypes, NextTypes, PTL DEF Spec

-----------------------------------------------------------------------------
\* The replay cache.
LEMMA InitSpending == Init => Spending
  BY DEF Init, VerifierInit, Spending, InLayer2, Layer2, PastPSA, PastThumb, Idle

\* A step that spends nothing, serves nothing and brings no request into
\* Layer 2.
LEMMA KeptSpending ==
  ASSUME TypeOK, Spending, NEW v \in Requests, NEW c,
         check' = [check EXCEPT ![v] = c],
         c.step \in Layer2 => InLayer2(v) /\ c.token = check[v].token,
         UNCHANGED <<seen, rsBoot, accepted>>
  PROVE  Spending'
<1>1. \A w \in Requests : check'[w] = IF w = v THEN c ELSE check[w]
  BY DEF TypeOK
<1>2. \A w \in Requests : InLayer2(w)' => InLayer2(w) /\ check'[w].token = check[w].token
  BY <1>1 DEF InLayer2
<1> QED
  BY <1>2 DEF Spending

LEMMA RefuseSpending ==
  ASSUME TypeOK, Spending, NEW v \in Requests, Refuse(v)
  PROVE  Spending'
<1>1. Idle.step \notin Layer2
  BY DEF Idle, Layer2, PastPSA, PastThumb
<1> QED
  BY <1>1, KeptSpending DEF Refuse

\* What an acceptance does to the history.
LEMMA Accepted ==
  ASSUME TypeOK, NEW v \in Requests, Accept(v)
  PROVE  /\ Len(accepted') = Len(accepted) + 1
         /\ DOMAIN accepted = 1..Len(accepted)
         /\ DOMAIN accepted' = 1..(Len(accepted) + 1)
         /\ accepted'[Len(accepted) + 1] = Served(check[v])
         /\ \A n \in DOMAIN accepted : accepted'[n] = accepted[n]
         /\ Len(accepted) \in Nat
  BY DEF TypeOK, Accept

LEMMA OthersAfter ==
  ASSUME TypeOK, NEW v \in Requests, check' = [check EXCEPT ![v] = Idle]
  PROVE  /\ ~ InLayer2(v)'
         /\ \A w \in Requests \ {v} : check'[w] = check[w]
         /\ \A w \in Requests : InLayer2(w)' => w # v /\ InLayer2(w)
  BY DEF TypeOK, InLayer2, Idle, Layer2, PastPSA, PastThumb

\* A request leaves Layer 2 unserved, or never enters it.
LEMMA LeaveSpending ==
  ASSUME TypeOK, Spending, NEW v \in Requests, seen \subseteq seen',
         check' = [check EXCEPT ![v] = Idle], UNCHANGED <<rsBoot, accepted>>
  PROVE  Spending'
<1>1. \A w \in Requests : InLayer2(w)' =>
        w # v /\ InLayer2(w) /\ check'[w] = check[w]
  BY OthersAfter
<1>2. (\A w \in Requests : InLayer2(w) => check[w].token.jti \in seen)'
  BY <1>1 DEF Spending
<1>3. (\A w, u \in Requests : w # u /\ InLayer2(w) /\ InLayer2(u)
         => check[w].token.jti # check[u].token.jti)'
  BY <1>1 DEF Spending
<1>4. (\A n \in DOMAIN accepted :
         /\ accepted[n].boot \in 1..rsBoot
         /\ accepted[n].boot = rsBoot => accepted[n].token.jti \in seen)'
  BY DEF Spending
<1>5. (\A w \in Requests, n \in DOMAIN accepted :
         InLayer2(w) /\ accepted[n].boot = rsBoot
           => accepted[n].token.jti # check[w].token.jti)'
  BY <1>1 DEF Spending
<1> QED
  BY <1>2, <1>3, <1>4, <1>5 DEF Spending

\* A request is served under a jti that is nobody else's.
LEMMA ServeSpending ==
  ASSUME TypeOK, Spending, NEW v \in Requests, Accept(v), rsBoot' = rsBoot,
         seen' = seen \cup {check[v].token.jti},
         \A w \in Requests \ {v} :
           InLayer2(w) => check[w].token.jti # check[v].token.jti
  PROVE  Spending'
<1>1. \A w \in Requests : InLayer2(w)' =>
        w # v /\ InLayer2(w) /\ check'[w] = check[w]
  BY OthersAfter DEF Accept
<1>2. Served(check[v]).token = check[v].token /\ Served(check[v]).boot = rsBoot
  BY DEF Served
<1>3. \A n \in DOMAIN accepted' :
        \/ n \in DOMAIN accepted /\ accepted'[n] = accepted[n]
        \/ accepted'[n].token = check[v].token /\ accepted'[n].boot = rsBoot
  BY <1>2, Accepted
<1>4. (\A w \in Requests : InLayer2(w) => check[w].token.jti \in seen)'
  BY <1>1 DEF Spending
<1>5. (\A w, u \in Requests : w # u /\ InLayer2(w) /\ InLayer2(u)
         => check[w].token.jti # check[u].token.jti)'
  BY <1>1 DEF Spending
<1>6. (\A n \in DOMAIN accepted :
         /\ accepted[n].boot \in 1..rsBoot
         /\ accepted[n].boot = rsBoot => accepted[n].token.jti \in seen)'
  BY <1>3, ResourceAssumption DEF Spending, TypeOK
<1>7. (\A w \in Requests, n \in DOMAIN accepted :
         InLayer2(w) /\ accepted[n].boot = rsBoot
           => accepted[n].token.jti # check[w].token.jti)'
  BY <1>1, <1>3 DEF Spending
<1> QED
  BY <1>4, <1>5, <1>6, <1>7 DEF Spending

LEMMA ProgressSpending ==
  ASSUME TypeOK, Spending, NEW v \in Requests, Progress(v)
  PROVE  Spending'
<1> USE DEF Doing
<1> check[v] \in Local
  BY DEF TypeOK
<1>1. ASSUME NEW key \in Answers(KeySets), FetchIssuerKey(v, key)
      PROVE  Spending'
  <2> DEFINE c == [check[v] EXCEPT !.step = "layer1"]
  <2>1. c.step \notin Layer2
    BY DEF Local, Layer2, PastPSA, PastThumb
  <2> QED
    BY <2>1, <1>1, KeptSpending, RefuseSpending DEF FetchIssuerKey, Proceed
<1>2. ASSUME NEW key \in Answers(KeySets), FetchIssuerThumb(v, key)
      PROVE  Spending'
  <2> DEFINE c == [check[v] EXCEPT !.step = "verifyPSA", !.key = key]
  <2>1. c.token = check[v].token
    BY DEF Local
  <2> QED
    BY <2>1, <1>2, KeptSpending, RefuseSpending
       DEF FetchIssuerThumb, Proceed, InLayer2, Layer2, PastPSA
<1>3. CASE Layer1Refused(v, now)
  BY <1>3, RefuseSpending DEF Layer1Refused
<1>4. CASE ServeVanilla(v, now)
  <2>1. /\ Accept(v) /\ check[v].token.jti \notin seen
        /\ seen' = seen \cup {check[v].token.jti} /\ rsBoot' = rsBoot
    BY <1>4 DEF ServeVanilla, SpendForThisRequest, SeenJTI
  <2>2. \A w \in Requests : InLayer2(w) => check[w].token.jti # check[v].token.jti
    BY <2>1 DEF Spending
  <2> QED
    BY <2>1, <2>2, ServeSpending
<1>5. CASE RefuseUnrooted(v, now)
  BY <1>5, LeaveSpending DEF RefuseUnrooted, SpendForThisRequest, SeenJTI
<1>6. CASE StartLayer2(v, now)
  <2> DEFINE t == check[v].token
  <2>1. /\ t.jti \notin seen /\ seen' = seen \cup {t.jti}
        /\ UNCHANGED <<rsBoot, accepted>>
        /\ check' = [check EXCEPT ![v].step = "psa"]
    BY <1>6 DEF StartLayer2, SpendForThisRequest, SeenJTI
  <2>2. check'[v].token = t /\ \A w \in Requests \ {v} : check'[w] = check[w]
    BY <2>1 DEF TypeOK, Local
  <2>3. \A w \in Requests : InLayer2(w)' =>
          /\ check'[w].token = check[w].token
          /\ w # v => InLayer2(w)
    BY <2>2 DEF InLayer2
  <2>4. (\A w \in Requests : InLayer2(w) => check[w].token.jti \in seen)'
    BY <2>1, <2>2, <2>3 DEF Spending
  <2>5. (\A w, u \in Requests : w # u /\ InLayer2(w) /\ InLayer2(u)
           => check[w].token.jti # check[u].token.jti)'
    BY <2>1, <2>2, <2>3 DEF Spending
  <2>6. (\A n \in DOMAIN accepted :
           /\ accepted[n].boot \in 1..rsBoot
           /\ accepted[n].boot = rsBoot => accepted[n].token.jti \in seen)'
    BY <2>1 DEF Spending
  <2>7. (\A w \in Requests, n \in DOMAIN accepted :
           InLayer2(w) /\ accepted[n].boot = rsBoot
             => accepted[n].token.jti # check[w].token.jti)'
    BY <2>1, <2>2, <2>3 DEF Spending
  <2> QED
    BY <2>4, <2>5, <2>6, <2>7 DEF Spending
<1>7. ASSUME NEW p \in Answers(PSADocs), FetchPSA(v, p)
      PROVE  Spending'
  <2> DEFINE c == [check[v] EXCEPT !.step = "issuerThumb", !.psa = p]
  <2>1. c.token = check[v].token
    BY DEF Local
  <2> QED
    BY <2>1, <1>7, KeptSpending, RefuseSpending
       DEF FetchPSA, Proceed, InLayer2, Layer2
<1>8. CASE CheckPSA(v, now, revoked)
  <2> DEFINE c == [check[v] EXCEPT !.step = "grant"]
  <2>1. c.token = check[v].token
    BY DEF Local
  <2> QED
    BY <2>1, <1>8, KeptSpending, RefuseSpending
       DEF CheckPSA, Proceed, InLayer2, Layer2, PastPSA, PastThumb
<1>9. ASSUME NEW g \in Answers(GrantDocs), FetchGrant(v, g)
      PROVE  Spending'
  <2> DEFINE c == [check[v] EXCEPT !.step = "verifyGrant", !.grant = g]
  <2>1. c.token = check[v].token
    BY DEF Local
  <2> QED
    BY <2>1, <1>9, KeptSpending, RefuseSpending
       DEF FetchGrant, Proceed, InLayer2, Layer2, PastPSA, PastThumb
<1>10. CASE CheckGrantPassed(v, now, revoked)
  <2>1. Accept(v) /\ UNCHANGED <<seen, rsBoot>> /\ InLayer2(v)
    BY <1>10 DEF CheckGrantPassed, InLayer2, Layer2, PastPSA, PastThumb
  <2>2. seen' = seen \cup {check[v].token.jti}
    BY <2>1 DEF Spending
  <2>3. \A w \in Requests \ {v} :
          InLayer2(w) => check[w].token.jti # check[v].token.jti
    BY <2>1 DEF Spending
  <2> QED
    BY <2>1, <2>2, <2>3, ServeSpending
<1>11. CASE CheckGrantRefused(v, now, revoked)
  BY <1>11, RefuseSpending DEF CheckGrantRefused
<1>12. CASE RegistryUnavailable(v)
  BY <1>12, RefuseSpending DEF RegistryUnavailable
<1> QED
  BY <1>1, <1>2, <1>3, <1>4, <1>5, <1>6, <1>7, <1>8, <1>9, <1>10, <1>11, <1>12
     DEF Progress

LEMMA PresentSpending ==
  ASSUME TypeOK, Spending, NEW v \in Requests, NEW t \in JWTs, NEW thumb \in AgentKeys,
         Present(v, t, thumb)
  PROVE  Spending'
<1> DEFINE c == [Idle EXCEPT !.step = "issuerKey", !.token = t, !.thumb = thumb]
<1>1. c.step \notin Layer2
  BY DEF Idle, Layer2, PastPSA, PastThumb
<1> QED
  BY <1>1, KeptSpending DEF Present, Proceed

LEMMA HangSpending ==
  ASSUME TypeOK, Spending, NEW v \in Requests, Hang(v)
  PROVE  Spending'
<1> DEFINE c == [Idle EXCEPT !.step = "hung", !.token = check[v].token]
<1>1. c.step \notin Layer2
  BY DEF Idle, Layer2, PastPSA, PastThumb
<1>. QED BY <1>1, KeptSpending DEF Hang, Proceed

LEMMA NextSpending == TypeOK /\ Spending /\ [Next]_vars => Spending'
<1> SUFFICES ASSUME TypeOK, Spending, [Next]_vars PROVE Spending'
  OBVIOUS
<1>1. CASE \E v \in Requests : Progress(v)
  BY <1>1, ProgressSpending
<1>2. CASE Arrive
  BY <1>2, PresentSpending DEF Arrive
<1>3. CASE Restart
  <2>1. \A w \in Requests : ~ InLayer2(w)'
    BY <1>3 DEF Restart, RestartResource, InLayer2, Idle, Layer2, PastPSA, PastThumb
  <2>2. accepted' = accepted /\ rsBoot' = rsBoot + 1 /\ rsBoot \in Nat
    BY <1>3, ResourceAssumption DEF Restart, RestartResource, TypeOK
  <2>3. \A n \in DOMAIN accepted : accepted[n].boot \in 1..rsBoot
    BY DEF Spending
  <2>4. \A n \in DOMAIN accepted' :
          accepted'[n].boot \in 1..rsBoot' /\ accepted'[n].boot # rsBoot'
    BY <2>2, <2>3
  <2> QED
    BY <2>1, <2>4 DEF Spending
<1>4. CASE UNCHANGED verifierVars
  BY <1>4 DEF verifierVars, Spending, InLayer2
<1>5. CASE Stall
  BY <1>5, HangSpending DEF Stall
<1> QED
  BY <1>1, <1>2, <1>3, <1>4, <1>5 DEF Next, Tick, Revoke, vars

-----------------------------------------------------------------------------
\* What Layer 2 has established so far.
LEMMA InitEstablished == Init => Established
  BY DEF Init, VerifierInit, Established, StageOK, Idle, Layer2, PastPSA, PastThumb

LEMMA KeptEstablished ==
  ASSUME TypeOK, Established, NEW v \in Requests, NEW c,
         check' = [check EXCEPT ![v] = c], StageOK(c)
  PROVE  Established'
<1>1. \A w \in Requests : check'[w] = IF w = v THEN c ELSE check[w]
  BY DEF TypeOK
<1>2. \A w \in Requests : StageOK(check'[w])
  BY <1>1 DEF Established
<1> QED
  BY <1>2 DEF Established, StageOK, PSALinked

LEMMA IdleEstablished ==
  ASSUME TypeOK, Established, NEW v \in Requests,
         check' = [check EXCEPT ![v] = Idle]
  PROVE  Established'
<1>1. StageOK(Idle)
  BY DEF StageOK, Idle, Layer2, PastPSA, PastThumb
<1> QED
  BY <1>1, KeptEstablished

LEMMA ProgressEstablished ==
  ASSUME TypeOK, Established, NEW v \in Requests, Progress(v)
  PROVE  Established'
<1> USE DEF Doing, Layer2, PastPSA, PastThumb
<1>0. check[v] \in Local /\ LocalOK(check[v]) /\ StageOK(check[v])
  BY DEF TypeOK, Established
<1>1. ASSUME NEW key \in Answers(KeySets), FetchIssuerKey(v, key)
      PROVE  Established'
  <2>1. StageOK([check[v] EXCEPT !.step = "layer1"])
    BY <1>0 DEF StageOK, Local
  <2> QED
    BY <2>1, <1>1, KeptEstablished, IdleEstablished DEF FetchIssuerKey, Proceed, Refuse
<1>2. ASSUME NEW key \in Answers(KeySets), FetchIssuerThumb(v, key)
      PROVE  Established'
  <2>1. check[v].step = "issuerThumb"
          => StageOK([check[v] EXCEPT !.step = "verifyPSA", !.key = key])
    BY <1>0 DEF StageOK, Local
  <2> QED
    BY <2>1, <1>2, KeptEstablished, IdleEstablished DEF FetchIssuerThumb, Proceed, Refuse
<1>3. CASE Layer1Refused(v, now)
  BY <1>3, IdleEstablished DEF Layer1Refused, Refuse
<1>4. CASE ServeVanilla(v, now)
  BY <1>4, IdleEstablished DEF ServeVanilla, Accept
<1>5. CASE RefuseUnrooted(v, now)
  BY <1>5, IdleEstablished DEF RefuseUnrooted
<1>6. CASE StartLayer2(v, now)
  <2> DEFINE c == [check[v] EXCEPT !.step = "psa"]
  <2>1. StageOK(c)
    BY <1>0, <1>6 DEF StartLayer2, SpendForThisRequest, ForThisRequest, StageOK, Local
  <2>2. check' = [check EXCEPT ![v] = c]
    BY <1>6 DEF StartLayer2, TypeOK
  <2> QED
    BY <2>1, <2>2, KeptEstablished
<1>7. ASSUME NEW p \in Answers(PSADocs), FetchPSA(v, p)
      PROVE  Established'
  <2>1. check[v].step = "psa" /\ check[v].token.psa.pin \in {None, p}
          => StageOK([check[v] EXCEPT !.step = "issuerThumb", !.psa = p])
    BY <1>0 DEF StageOK, Local
  <2> QED
    BY <2>1, <1>7, KeptEstablished, IdleEstablished DEF FetchPSA, Proceed, Refuse
<1>8. CASE CheckPSA(v, now, revoked)
  <2> DEFINE c == [check[v] EXCEPT !.step = "grant"]
  <2>1. ASSUME check[v].step = "verifyPSA",
               VerifyPSA(check[v].psa, check[v].token.iss, check[v].key, now, View(revoked)),
               CaipEq(check[v].psa.root, check[v].token.sub)
        PROVE  StageOK(c)
    <3>1. check[v].psa \in PSADocs /\ check[v].token \in JWTs
      BY <1>0, <2>1 DEF LocalOK, Local, Answers
    <3>2. AddrEq(check[v].psa.root, check[v].token.sub)
      BY <3>1, <2>1, ResourceAssumption, VerifierAssumption, DocumentsAssumption
         DEF CaipEq, AddrEq
    <3>3. PSALinked(check[v])
      BY <3>2, <2>1 DEF PSALinked, VerifyPSA
    <3>4. /\ c.psa = check[v].psa /\ c.token = check[v].token
          /\ c.key = check[v].key /\ c.thumb = check[v].thumb /\ c.step = "grant"
      BY <1>0 DEF Local
    <3>5. PSALinked(c)
      BY <3>3, <3>4 DEF PSALinked
    <3> QED
      BY <3>4, <3>5, <2>1, <1>0 DEF StageOK
  <2> QED
    BY <2>1, <1>8, KeptEstablished, IdleEstablished DEF CheckPSA, Proceed, Refuse
<1>9. ASSUME NEW g \in Answers(GrantDocs), FetchGrant(v, g)
      PROVE  Established'
  <2> DEFINE c == [check[v] EXCEPT !.step = "verifyGrant", !.grant = g]
  <2>1. ASSUME check[v].step = "grant", g = check[v].token.grant PROVE StageOK(c)
    <3>1. /\ c.psa = check[v].psa /\ c.token = check[v].token /\ c.grant = g
          /\ c.key = check[v].key /\ c.thumb = check[v].thumb /\ c.step = "verifyGrant"
      BY <1>0 DEF Local
    <3>2. PSALinked(c)
      BY <3>1, <2>1, <1>0 DEF PSALinked, StageOK
    <3> QED
      BY <3>1, <3>2, <2>1, <1>0 DEF StageOK
  <2> QED
    BY <2>1, <1>9, KeptEstablished, IdleEstablished DEF FetchGrant, Proceed, Refuse
<1>10. CASE CheckGrantPassed(v, now, revoked)
  BY <1>10, IdleEstablished DEF CheckGrantPassed, Accept
<1>11. CASE CheckGrantRefused(v, now, revoked)
  BY <1>11, IdleEstablished DEF CheckGrantRefused, Refuse
<1>12. CASE RegistryUnavailable(v)
  BY <1>12, IdleEstablished DEF RegistryUnavailable, Refuse
<1> QED
  BY <1>1, <1>2, <1>3, <1>4, <1>5, <1>6, <1>7, <1>8, <1>9, <1>10, <1>11, <1>12
     DEF Progress

LEMMA PresentEstablished ==
  ASSUME TypeOK, Established, NEW v \in Requests, NEW t \in JWTs, NEW thumb \in AgentKeys,
         Present(v, t, thumb)
  PROVE  Established'
<1>1. StageOK([Idle EXCEPT !.step = "issuerKey", !.token = t, !.thumb = thumb])
  BY DEF StageOK, Idle, Layer2, PastPSA, PastThumb
<1> QED
  BY <1>1, KeptEstablished DEF Present, Proceed

LEMMA HangEstablished ==
  ASSUME TypeOK, Established, NEW v \in Requests, Hang(v)
  PROVE  Established'
<1>1. StageOK([Idle EXCEPT !.step = "hung", !.token = check[v].token])
  BY DEF StageOK, Idle, Layer2, PastPSA, PastThumb
<1>. QED BY <1>1, KeptEstablished DEF Hang, Proceed

LEMMA NextEstablished == TypeOK /\ Established /\ [Next]_vars => Established'
<1> SUFFICES ASSUME TypeOK, Established, [Next]_vars PROVE Established'
  OBVIOUS
<1>1. CASE \E v \in Requests : Progress(v)
  BY <1>1, ProgressEstablished
<1>2. CASE Arrive
  BY <1>2, PresentEstablished DEF Arrive
<1>3. CASE Restart
  BY <1>3 DEF Restart, RestartResource, Established, StageOK, Idle, Layer2,
              PastPSA, PastThumb
<1>4. CASE UNCHANGED verifierVars
  BY <1>4 DEF verifierVars, Established, StageOK, PSALinked
<1>5. CASE Stall
  BY <1>5, HangEstablished DEF Stall
<1> QED
  BY <1>1, <1>2, <1>3, <1>4, <1>5 DEF Next, Tick, Revoke, vars
-----------------------------------------------------------------------------
\* The invariant asks nothing of the world but its types: whoever moves clock
\* and registry, and whoever sends tokens of JWTs, keeps it.
LEMMA WorldMoves ==
  ASSUME IInv, UNCHANGED verifierVars, now' \in Nat, revoked' \subseteq Handles
  PROVE  IInv'
BY DEF IInv, TypeOK, LocalOK, Spending, InLayer2, Established, StageOK, PSALinked,
       verifierVars

LEMMA ArrivalMoves ==
  ASSUME IInv, NEW v \in Requests, NEW t \in JWTs, NEW thumb \in AgentKeys,
         Present(v, t, thumb), UNCHANGED world
  PROVE  IInv'
BY PresentTypes, PresentSpending, PresentEstablished DEF IInv

LEMMA RequestMoves ==
  ASSUME IInv, NEW v \in Requests, Progress(v)
  PROVE  IInv'
BY ProgressTypes, ProgressSpending, ProgressEstablished DEF IInv

LEMMA Invariance == Spec => []IInv
<1>1. Init => IInv
  BY InitTypes, InitSpending, InitEstablished DEF IInv
<1>2. IInv /\ [Next]_vars => IInv'
  BY NextTypes, NextSpending, NextEstablished DEF IInv
<1> QED
  BY <1>1, <1>2, PTL DEF Spec

\* What an acceptance adds to the history keeps the promise.
LEMMA ServeKeepsPromise ==
  ASSUME IInv, NEW v \in Requests, Accept(v), rsBoot' = rsBoot,
         check[v].token.cnf = check[v].thumb,
         KeyRooted[rsBoot] => Promise!ChainedThrough(Served(check[v]), check[v].key),
         \A n \in DOMAIN accepted : accepted[n].boot = rsBoot
           => accepted[n].token.jti # check[v].token.jti
  PROVE  Promise!Next
<1> DEFINE a == Served(check[v])
<1>1. /\ a.token = check[v].token /\ a.thumb = check[v].thumb /\ a.boot = rsBoot
      /\ a.key = check[v].key
  BY DEF Served
<1>2. accepted' = Append(accepted, a)
  BY DEF Accept
<1>3. Len(accepted') = Len(accepted) + 1 /\ accepted'[Len(accepted) + 1] = a
  BY Accepted DEF IInv
<1>4. Promise!Served(a)
  BY <1>1, <1>2 DEF Promise!Served, Promise!ByItsAgent, Promise!Unspent
<1> QED
  BY <1>3, <1>4 DEF Promise!Next, Promise!Serve

LEMMA ProgressKeepsPromise ==
  ASSUME IInv, NEW v \in Requests, Progress(v)
  PROVE  Promise!Next \/ UNCHANGED <<accepted, rsBoot>>
<1> USE DEF Doing
<1>1. CASE ServeVanilla(v, now)
  <2>1. /\ Accept(v) /\ rsBoot' = rsBoot /\ ~ KeyRooted[rsBoot]
        /\ check[v].token.cnf = check[v].thumb /\ check[v].token.jti \notin seen
    BY <1>1 DEF ServeVanilla, SpendForThisRequest, ForThisRequest
  <2> QED
    BY <2>1, ServeKeepsPromise DEF IInv, Spending
<1>2. CASE CheckGrantPassed(v, now, revoked)
  <2> DEFINE c == check[v]
             a == Served(c)
  <2>1. /\ Accept(v) /\ rsBoot' = rsBoot /\ c.step = "verifyGrant"
        /\ VerifyAgentGrant(c.grant, c.psa.root, c.token.agent, c.token.cnf, now,
                            View(revoked))
    BY <1>2 DEF CheckGrantPassed
  <2>2. InLayer2(v) /\ StageOK(c) /\ LocalOK(c)
    BY <2>1 DEF IInv, Established, TypeOK, InLayer2, Layer2, PastPSA, PastThumb
  <2>3. PSALinked(c) /\ c.token.cnf = c.thumb /\ c.grant = c.token.grant
        /\ c.token.psa.pin \in {None, c.psa}
    BY <2>1, <2>2 DEF StageOK, Layer2, PastPSA, PastThumb
  <2>4. c.psa # None /\ c.grant # None
    BY <2>1, <2>2 DEF LocalOK
  <2>5. /\ a.token = c.token /\ a.thumb = c.thumb /\ a.psa = c.psa
        /\ a.grant = c.grant /\ a.key = c.key
    BY DEF Served
  <2>6. VerifyRootSig(c.token.sub, AgentGrantDigest(c.grant), c.grant.sig)
    BY <2>1, <2>3 DEF VerifyAgentGrant, VerifyRootSig, PSALinked, AddrEq
  <2>7. c.grant.agent = c.token.agent /\ c.grant.thumb = c.thumb
    BY <2>1, <2>3 DEF VerifyAgentGrant
  <2>8. Promise!ChainedThrough(a, c.key)
    <3>1. Promise!PSADigest(c.psa) = PSADigest(c.psa)
      BY DEF Promise!PSADigest, PSADigest, Promise!HashedScope, HashedScope,
             Promise!Hashed, Hashed
    <3>. QED BY <2>3, <2>4, <2>5, <2>6, <2>7, <3>1
         DEF Promise!ChainedThrough, PSALinked, Promise!VerifyRootSig, VerifyRootSig,
             Promise!AddrEq, AddrEq, Promise!AgentGrantDigest, AgentGrantDigest
  <2> QED
    BY <2>1, <2>2, <2>3, <2>8, ServeKeepsPromise DEF IInv, Spending
<1> QED
  BY <1>1, <1>2
     DEF Progress, FetchIssuerKey, FetchIssuerThumb, Layer1Refused, RefuseUnrooted,
         StartLayer2, SpendForThisRequest, FetchPSA, CheckPSA, FetchGrant,
         CheckGrantRefused, RegistryUnavailable, Proceed, Refuse

LEMMA StepKeepsPromise ==
  ASSUME IInv, [Next]_vars
  PROVE  Promise!Next \/ UNCHANGED <<accepted, rsBoot>>
<1>1. CASE \E v \in Requests : Progress(v)
  BY <1>1, ProgressKeepsPromise
<1>2. CASE Restart
  BY <1>2 DEF Restart, RestartResource, Promise!Next, Promise!Forget
<1> QED
  BY <1>1, <1>2
     DEF Next, Arrive, Present, Stall, Hang, Proceed, Tick, Revoke, vars, verifierVars

\* Whatever tokens, keys and documents it is handed, in whatever order its
\* requests interleave and however often it restarts, the resource serves each
\* token once per boot, to the holder of its key, and when key-rooted only
\* along two documents that one root signed, the PSA covering the key that the
\* issuer served when asked the second time.  That the token was signed with a
\* key the PSA covers is no part of the promise, and does not hold (see
\* SignedByCoveredKey; tokens.go:222-294, 327-340; resd/main.go:102-139).
THEOREM ResourceImplementsAcceptance == Spec => AcceptanceSpec
<1>1. Init => Promise!Init
  BY DEF Init, VerifierInit, Promise!Init
<1>2. IInv /\ [Next]_vars => [Promise!Next]_<<accepted, rsBoot>>
  BY StepKeepsPromise
<1> QED
  BY <1>1, <1>2, Invariance, PTL DEF Spec, AcceptanceSpec, Promise!Spec

-----------------------------------------------------------------------------
\* What that promise is worth, told of the requests served so far.
NoneTwice == \A m, n \in DOMAIN accepted :
  accepted[m].boot = accepted[n].boot /\ accepted[m].token.jti = accepted[n].token.jti
    => m = n

AllWellFounded == \A n \in DOMAIN accepted :
  LET a == accepted[n] IN
    /\ Promise!ByItsAgent(a)
    /\ KeyRooted[a.boot] =>
         /\ Promise!ChainedThrough(a, a.key)
         /\ a.key = a.token.key => Promise!Chained(a)

LEMMA OneLonger ==
  ASSUME NEW S, NEW s \in Seq(S), NEW e, NEW t, t = Append(s, e)
  PROVE  /\ DOMAIN t = DOMAIN s \cup {Len(s) + 1}
         /\ \A n \in DOMAIN s : t[n] = s[n]
<1>1. \A n \in 1..Len(s) : s[n] \in S \cup {e}
  BY LenProperties
<1>2. s \in Seq(S \cup {e})
  BY <1>1, SeqDef
<1>3. /\ t \in Seq(S \cup {e}) /\ Len(t) = Len(s) + 1
      /\ \A n \in 1..Len(s) : t[n] = s[n]
  BY <1>2, AppendProperties
<1>. QED BY <1>2, <1>3, LenProperties

LEMMA PromiseStep ==
  ASSUME TypeOK, NoneTwice, AllWellFounded, Promise!Next
  PROVE  NoneTwice' /\ AllWellFounded'
<1>1. CASE Promise!Forget
  BY <1>1 DEF Promise!Forget, NoneTwice, AllWellFounded
<1>2. CASE Promise!Serve
  <2> DEFINE k == Len(accepted) + 1
             a == accepted'[k]
  <2>1. /\ accepted' = Append(accepted, a) /\ Len(accepted') = k
        /\ a.boot = rsBoot /\ Promise!ByItsAgent(a)
        /\ KeyRooted[rsBoot] => Promise!ChainedThrough(a, a.key)
        /\ \A n \in DOMAIN accepted : accepted[n].boot = rsBoot
             => accepted[n].token.jti # a.token.jti
    BY <1>2 DEF Promise!Serve, Promise!Served, Promise!Unspent
  <2>2. /\ DOMAIN accepted' = DOMAIN accepted \cup {k}
        /\ \A n \in DOMAIN accepted : accepted'[n] = accepted[n]
    <3> HIDE DEF a
    <3>. QED BY <2>1, OneLonger DEF TypeOK
  <2> HIDE DEF a, k
  <2>3. \A n \in DOMAIN accepted' : n \in DOMAIN accepted \/ (n = k /\ accepted'[n] = a)
    BY <2>2 DEF a
  <2>4. NoneTwice'
    BY <2>1, <2>2, <2>3 DEF NoneTwice
  <2>5. AllWellFounded'
    BY <2>1, <2>2, <2>3 DEF AllWellFounded, Promise!Chained
  <2>. QED BY <2>4, <2>5
<1>. QED BY <1>1, <1>2 DEF Promise!Next

\* One-time use over the whole history, for any number of concurrent requests:
\* between two starts of the resource no two served requests carried the same
\* jti (tokens.go:283-292; resd/main.go:221-233); every one was made by the
\* holder of the key its token names; and every one served in the key-rooted
\* mode has behind it the chain from the root through the key its second fetch
\* of the key set gave, the whole chain, down from the key that signed the
\* token, where both fetches gave the same key (tokens.go:236, 334).
THEOREM NoTokenServedTwice == Spec => [](NoneTwice /\ AllWellFounded)
<1>1. Init => NoneTwice /\ AllWellFounded
  BY DEF Init, VerifierInit, NoneTwice, AllWellFounded
<1>2. IInv /\ NoneTwice /\ AllWellFounded /\ [Next]_vars
        => NoneTwice' /\ AllWellFounded'
  <2> SUFFICES ASSUME IInv, NoneTwice, AllWellFounded, [Next]_vars
               PROVE  NoneTwice' /\ AllWellFounded'
    OBVIOUS
  <2>1. CASE Promise!Next
    BY <2>1, PromiseStep DEF IInv
  <2>2. CASE UNCHANGED <<accepted, rsBoot>>
    BY <2>2 DEF NoneTwice, AllWellFounded
  <2>. QED BY <2>1, <2>2, StepKeepsPromise
<1>. QED BY <1>1, <1>2, Invariance, PTL DEF Spec
=============================================================================
