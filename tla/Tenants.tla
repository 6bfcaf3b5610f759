------------------------------- MODULE Tenants ------------------------------
(***************************************************************************)
(* internal/store: the tenants of one person server and the development    *)
(* revocation registry.                                                    *)
(*                                                                         *)
(* A tenant is the address string its PSA spells: byRoot, grants and the   *)
(* registry are all keyed by the raw string.  psaOf[root] is               *)
(* byRoot[root].PSA, grantOf[root] is byRoot[root].grants.  Every operator *)
(* that primes a variable is one critical section of the Tenants mutex     *)
(* (Enroll holds it across PutGrant, so the two locks make one step).      *)
(***************************************************************************)
EXTENDS Attest

CONSTANT Revocable  \* the (root, nonce) pairs that roots may revoke

ASSUME RevocableAssumption ==
  \A handle \in Revocable : handle = <<handle[1], handle[2]>>

VARIABLES psaOf,        \* root -> the tenant's current PSA, None: no tenant
          grantOf,      \* root -> agent -> the tenant's grant for the agent
          byAgent,      \* agent -> root
          byGrantS256,  \* the grants ever enrolled, by content
          revoked       \* MemoryRegistry: the revoked (root, nonce) pairs
tenantVars == <<psaOf, grantOf, byAgent, byGrantS256, revoked>>

TenantsTypeOK ==
  /\ psaOf \in [Addrs -> PSADocs \cup {None}]
  /\ grantOf \in [Addrs -> [Agents -> GrantDocs \cup {None}]]
  /\ byAgent \in [Agents -> Addrs \cup {None}]
  /\ byGrantS256 \subseteq GrantDocs
  /\ revoked \subseteq Revocable

TenantsInit ==
  /\ psaOf = [root \in Addrs |-> None]
  /\ grantOf = [root \in Addrs |-> [agent \in Agents |-> None]]
  /\ byAgent = [agent \in Agents |-> None]
  /\ byGrantS256 = {}
  /\ revoked = {}

\* Nothing is persisted: a restart of psd starts from empty maps.
TenantsLost ==
  /\ psaOf' = [root \in Addrs |-> None]
  /\ grantOf' = [root \in Addrs |-> [agent \in Agents |-> None]]
  /\ byAgent' = [agent \in Agents |-> None]
  /\ byGrantS256' = {}
  /\ revoked' = {}

\* Tenants.Onboard: a known root gets its PSA replaced in place; grants and
\* log hang off the root and survive.
OnboardAfresh(p) ==
  /\ psaOf' = [psaOf EXCEPT ![p.root] = p]
  /\ grantOf' = [grantOf EXCEPT ![p.root] = [agent \in Agents |-> None]]
  /\ UNCHANGED <<byAgent, byGrantS256, revoked>>
OnboardTenant(p) ==
  /\ psaOf' = [psaOf EXCEPT ![p.root] = p]
  /\ UNCHANGED <<grantOf, byAgent, byGrantS256, revoked>>

\* Tenants.Enroll: one root per agent, whatever the registry says of the old
\* grant.
BoundElsewhere(agent, root) == byAgent[agent] \notin {None, root}
EnrollRebinding(agent, root, g) ==
  /\ byAgent' = [byAgent EXCEPT ![agent] = root]
  /\ grantOf' = [grantOf EXCEPT ![root][agent] = g]
  /\ byGrantS256' = byGrantS256 \cup {g}
  /\ UNCHANGED <<psaOf, revoked>>
EnrollAgent(agent, root, g) ==
  /\ ~ BoundElsewhere(agent, root)
  /\ byAgent' = [byAgent EXCEPT ![agent] = root]
  /\ grantOf' = [grantOf EXCEPT ![root][agent] = g]
  /\ byGrantS256' = byGrantS256 \cup {g}
  /\ UNCHANGED <<psaOf, revoked>>

\* MemoryRegistry.Revoke, reached by the root through the dev endpoint.
RevokeHandle(root, nonce) ==
  /\ revoked' = revoked \cup {<<root, nonce>>}
  /\ UNCHANGED <<psaOf, grantOf, byAgent, byGrantS256>>
=============================================================================
