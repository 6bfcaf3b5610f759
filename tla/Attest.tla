------------------------------- MODULE Attest -------------------------------
(***************************************************************************)
(* internal/attest: the two documents a root signs, what the signature     *)
(* binds, and the checks the person server makes before it admits one.     *)
(*                                                                         *)
(* A digest is the set of fields it hashes: the root as a 20-byte address  *)
(* and the scope as the numbers its strings stand for (so the spelling of  *)
(* either is lost), everything else as written, the signature and the      *)
(* transport-only agent key not at all.  A content hash covers the whole   *)
(* document, so it is the document itself.                                 *)
(***************************************************************************)
EXTENDS Wei, Signatures

CONSTANTS PSADocs,     \* the PersonServerAuthorizations that anyone may present
          GrantDocs,   \* the AgentGrants that anyone may present
          Issuer,      \* this person server's issuer URL
          None         \* no document, no address, no key

\* Documents spell addresses and amounts, and nothing is no document.
ASSUME DocumentsAssumption ==
  /\ \A doc \in PSADocs : doc.root \in Addrs /\ doc.scope \in Scope
  /\ \A doc \in GrantDocs : doc.root \in Addrs /\ doc.agent \in Agents
  /\ None \notin PSADocs /\ None \notin GrantDocs /\ None \notin Addrs

PSADigest(p) ==
  [root |-> Canon[p.root], issuer |-> p.issuer, keys |-> p.keys,
   scope |-> HashedScope(p.scope), nbf |-> p.nbf, naf |-> p.naf, nonce |-> p.nonce]

AgentGrantDigest(g) ==
  [root |-> Canon[g.root], agent |-> g.agent, thumb |-> g.thumb,
   mission |-> g.mission, nbf |-> g.nbf, naf |-> g.naf, nonce |-> g.nonce]

InWindow(doc, time) == doc.nbf <= time /\ time <= doc.naf

\* The registry answers for the raw (root, nonce) pair.
Live(doc, revoked) == <<doc.root, doc.nonce>> \notin revoked

\* A PSA whose digest cannot be computed is refused.
VerifyPSAUnsigned(p, issuer, key, time, revoked) ==
  /\ p.issuer = issuer
  /\ InWindow(p, time)
  /\ key \in p.keys
  /\ Live(p, revoked)
VerifyPSAUnrevoked(p, issuer, key, time, revoked) ==
  /\ p.issuer = issuer
  /\ InWindow(p, time)
  /\ key \in p.keys
  /\ HashableScope(p.scope)
  /\ VerifyRootSig(p.root, PSADigest(p), p.sig)
VerifyPSA(p, issuer, key, time, revoked) ==
  /\ p.issuer = issuer
  /\ InWindow(p, time)
  /\ key \in p.keys
  /\ HashableScope(p.scope)
  /\ VerifyRootSig(p.root, PSADigest(p), p.sig)
  /\ Live(p, revoked)

VerifyAgentGrantAnyRoot(g, root, agent, thumb, time, revoked) ==
  /\ g.agent = agent
  /\ g.thumb = thumb
  /\ InWindow(g, time)
  /\ g.sig # NoSig
  /\ g.sig.over = AgentGrantDigest(g)
  /\ Live(g, revoked)
VerifyAgentGrant(g, root, agent, thumb, time, revoked) ==
  /\ g.root = root
  /\ g.agent = agent
  /\ g.thumb = thumb
  /\ InWindow(g, time)
  /\ VerifyRootSig(g.root, AgentGrantDigest(g), g.sig)
  /\ Live(g, revoked)
=============================================================================
