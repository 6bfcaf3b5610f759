------------------------------- MODULE Consent ------------------------------
(***************************************************************************)
(* internal/consent under concurrent callers.                              *)
(*                                                                         *)
(* Create and Poll are one critical section each.  The three verdicts are  *)
(* not: ApproveRoutine, ApproveElevated and Deny look the code up in one   *)
(* critical section, check the tier and the signature outside the lock,    *)
(* and commit in another (ApproveElevated stores the signature in a third) *)
(* with any other call, and the deadline, free to come in between.         *)
(*                                                                         *)
(* calls[c] is the verdict caller c is delivering.  An early return leaves *)
(* no trace in the store, so a call that fails its checks is no step here. *)
(***************************************************************************)
EXTENDS ConsentStore

CONSTANTS Callers,   \* goroutines that deliver verdicts
          MaxTime    \* bound on the clock

ASSUME MaxTimeAssumption == MaxTime \in Nat

VARIABLE calls
vars == <<storeVars, calls>>

Call == [pc : {"idle", "sign", "commit"}, id : Ids \cup {NoId},
         to : {"approved", "denied"}, sig : Sig]
Idle == [pc |-> "idle", id |-> NoId, to |-> "denied", sig |-> NoSig]

TypeOK == StoreTypeOK /\ calls \in [Callers -> Call]

Init == StoreInit /\ calls = [c \in Callers |-> Idle]

\* A request is only created while the bounded clock can still outrun it.
Create(id, code, agent, ask, mission, tier) ==
  /\ now + Window < MaxTime
  /\ StoreCreate(id, NewRequest(code, agent, ask, mission, tier))
  /\ UNCHANGED <<now, calls>>

Poll(id) == /\ Known(id)
            /\ StorePoll(id)
            /\ UNCHANGED <<now, byCode, calls>>

Start(c, call) == /\ calls[c].pc = "idle"
                  /\ calls' = [calls EXCEPT ![c] = call]
                  /\ UNCHANGED storeVars

\* ApproveRoutine up to its transition: a click is refused for elevated.
ClickAnyTier(c, code) ==
  \E id \in Ids :
    /\ Lookup(code, id)
    /\ Start(c, [pc |-> "commit", id |-> id, to |-> "approved", sig |-> NoSig])
Click(c, code) ==
  \E id \in Ids :
    /\ Lookup(code, id)
    /\ byID[id].tier = "routine"
    /\ Start(c, [pc |-> "commit", id |-> id, to |-> "approved", sig |-> NoSig])

\* ApproveElevated up to its second critical section.
SignOff(c, code, root, sig) ==
  \E id \in Ids :
    /\ Lookup(code, id)
    /\ byID[id].tier = "elevated"
    /\ VerifyRootSig(root, ApprovalDigest(id, byID[id]), sig)
    /\ Start(c, [pc |-> "sign", id |-> id, to |-> "approved", sig |-> sig])

Deny(c, code) ==
  \E id \in Ids :
    /\ Lookup(code, id)
    /\ Start(c, [pc |-> "commit", id |-> id, to |-> "denied", sig |-> NoSig])

\* ApproveElevated stores the signature before it knows that the transition
\* will succeed.
StoreSignature(c) ==
  /\ calls[c].pc = "sign"
  /\ StoreStepUpSig(calls[c].id, calls[c].sig)
  /\ calls' = [calls EXCEPT ![c].pc = "commit"]
  /\ UNCHANGED <<now, byCode>>

Commit(c) ==
  /\ calls[c].pc = "commit"
  /\ Transition(calls[c].id, calls[c].to)
  /\ calls' = [calls EXCEPT ![c] = Idle]
  /\ UNCHANGED <<now, byCode>>

Tick == /\ now < MaxTime
        /\ now' = now + 1
        /\ UNCHANGED <<byID, byCode, calls>>

\* A root may sign the digest of any request that exists, its own or not.
SomeSignature ==
  [by : Roots, over : {ApprovalDigest(id, byID[id]) : id \in {i \in Ids : Known(i)}}]

Next ==
  \/ \E id \in Ids, code \in Codes, agent \in Agents, ask \in Asks,
        mission \in Missions, tier \in Tiers :
       Create(id, code, agent, ask, mission, tier)
  \/ \E id \in Ids : Poll(id)
  \/ \E c \in Callers, code \in Codes : Click(c, code) \/ Deny(c, code)
  \/ \E c \in Callers, code \in Codes, root \in Addrs, sig \in SomeSignature :
       SignOff(c, code, root, sig)
  \/ \E c \in Callers : StoreSignature(c) \/ Commit(c)
  \/ Tick

Spec == Init /\ [][Next]_vars

\* A started call runs to its end; the clock does not stop.
Fairness == /\ \A c \in Callers : WF_vars(StoreSignature(c) \/ Commit(c))
            /\ WF_vars(Tick)
FairSpec == Spec /\ Fairness

-----------------------------------------------------------------------------
\* I3: no elevated request is ever approved without a root signature over
\* that very request's digest, whichever of click, signature, denial and
\* deadline interleave and however codes collide (consent.go:150-187).
ElevatedNeedsSignature ==
  \A id \in Ids :
    Known(id) /\ byID[id].state = "approved" /\ byID[id].tier = "elevated"
      => Binds(byID[id].stepUpSig, id)

\* A verdict in flight always settles its request: whatever it races with,
\* the request it was looked up for does not stay pending, even when a later
\* request has taken its code (consent.go:150-195).
VerdictSettlesRequest ==
  \A c \in Callers, id \in Ids :
    calls[c].pc # "idle" /\ calls[c].id = id
      ~> Known(id) /\ byID[id].state # "pending"
=============================================================================
