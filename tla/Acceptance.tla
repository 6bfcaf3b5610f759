----------------------------- MODULE Acceptance -----------------------------
(***************************************************************************)
(* What a resource promises of the requests it serves, whatever the person *)
(* servers, the agents and the network do (DESIGN.md, Layers 1 and 2):     *)
(* each token is served once, to the holder of the key it names, and under *)
(* key-rooting only along a chain of two documents that one root signed,   *)
(* for the key that the issuer serves when it is asked for the second      *)
(* time.  That this is the key that signed the token is not promised: an   *)
(* issuer may serve another key by then.                                   *)
(*                                                                         *)
(* The promise of single use lasts until the resource forgets: it holds    *)
(* between two restarts, and the resource may be restarted in the other    *)
(* mode.                                                                   *)
(***************************************************************************)
EXTENDS Attest, Sequences

CONSTANT KeyRooted  \* boot -> whether the resource requires the chain
VARIABLES history,  \* the acceptances, in order
          boot      \* how often the resource has started

Init == history = <<>> /\ boot = 1

\* The holder of the key that the token confirms made the request.
ByItsAgent(a) == a.token.cnf = a.thumb

\* Root, the PS's key, token, agent key: each link names the next, and the root
\* signed the two that are its own.
ChainedThrough(a, key) ==
  /\ a.psa # None /\ a.grant # None
  /\ a.token.psa.pin \in {None, a.psa}
  /\ VerifyRootSig(a.psa.root, PSADigest(a.psa), a.psa.sig)
  /\ a.psa.issuer = a.token.iss
  /\ key \in a.psa.keys
  /\ AddrEq(a.psa.root, a.token.sub)
  /\ VerifyRootSig(a.token.sub, AgentGrantDigest(a.grant), a.grant.sig)
  /\ a.grant = a.token.grant
  /\ a.grant.agent = a.token.agent
  /\ a.grant.thumb = a.thumb

\* The whole chain: the key the PSA covers is the one that signed the token.
Chained(a) == ChainedThrough(a, a.token.key)

Unspent(a) == \A n \in DOMAIN history :
  history[n].boot = boot => history[n].token.jti # a.token.jti

Served(a) == /\ history' = Append(history, a)
             /\ a.boot = boot
             /\ ByItsAgent(a)
             /\ KeyRooted[boot] => ChainedThrough(a, a.key)
             /\ Unspent(a)

Serve == /\ Len(history') = Len(history) + 1
         /\ Served(history'[Len(history) + 1])
         /\ UNCHANGED boot

Forget == boot' = boot + 1 /\ UNCHANGED history

Next == Serve \/ Forget
Spec == Init /\ [][Next]_<<history, boot>>
=============================================================================
