------------------------------ MODULE Tiering -------------------------------
(***************************************************************************)
(* One tenant's scope and one ask, either of which may change at any time: *)
(* the scope with every PSA the tenant posts, the amount with every        *)
(* request an agent makes.  The two places of the code that compare them   *)
(* (Envelope) must agree whatever the two are, since no one of them is     *)
(* validated before it gets there.                                         *)
(***************************************************************************)
EXTENDS Envelope

CONSTANTS Scopes,   \* the scopes that PSAs may carry
          Amounts   \* the amounts that agents may ask for

ASSUME TieringAssumption == Scopes \subseteq Scope /\ Amounts \subseteq Amount

VARIABLES scope,    \* of the PSA in force
          amount    \* of the request at hand

Init == scope \in Scopes /\ amount \in Amounts

\* Tenants.Onboard of a root that has a tenant: the PSA is replaced.
Replace == scope' \in Scopes /\ UNCHANGED amount

\* Server.token: an agent asks for something else.
Ask == amount' \in Amounts /\ UNCHANGED scope

Next == Replace \/ Ask
Spec == Init /\ [][Next]_<<scope, amount>>

\* tierFor and Mint agree on every scope and amount (helpers.go:37-50,
\* tokens.go:173-189).
TiersAgree == TierAgreesWithMint(scope, amount)

\* The TTL clamp holds whatever overflows (tokens.go:129-134).
TTLsBounded == TTLWithinGrant(scope)
=============================================================================
