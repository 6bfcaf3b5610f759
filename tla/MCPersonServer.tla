--------------------------- MODULE MCPersonServer ---------------------------
(***************************************************************************)
(* Small person servers: two persons at most (root r1 with address a1,     *)
(* root r2 with a2), an agent or two, payments of 2 or 3 wei, caps of 2.   *)
(*                                                                         *)
(* Alice's PSA demands her signature above 1 wei; the PSA that replaces it *)
(* writes that threshold in hexadecimal, so none is enforced: a request's  *)
(* tier and the envelope it meets at the mint can disagree both ways.  Her *)
(* agent's grant is renewed under another mission.  Forged documents name  *)
(* her root under a stranger's signature.                                  *)
(* Both persons hold a grant for agent g1; g2 is Bob's.  a3 is a1 in       *)
(* another casing: Alice's root file spells it a1.                         *)
(***************************************************************************)
EXTENDS PersonServer, TLC

CONSTANTS a1, a2, a3, r1, r2, g1, g2, m1, m2

MCCanon == [a \in Addrs |-> IF a = a2 THEN r2 ELSE r1]
MCFileAddr == [r \in Roots |-> IF r = r1 THEN a1 ELSE a2]
OneKey == <<"psKey">>
TwoKeys == <<"psKey", "newKey">>

Wei(n) == [kind |-> "wei", wei |-> n]
HexWei(n) == [kind |-> "hex", wei |-> n]

PSAFile(root, nonce, above) ==
  [root |-> root, issuer |-> "ps", keys |-> {"psKey", "newKey"}, nonce |-> nonce,
   scope |-> [cap |-> Wei(2), stepUpAbove |-> above, maxTTL |-> 1],
   nbf |-> 0, naf |-> 1, sig |-> NoSig]
GrantFile(root, nonce, mission) ==
  [root |-> root, agent |-> None, thumb |-> None, pubKey |-> None,
   mission |-> mission, nbf |-> 0, naf |-> 1, nonce |-> nonce, sig |-> NoSig]
Agent1 == AgentFile(g1, "agentKey")
Agent2 == AgentFile(g2, "agentKey")

AlicePSA == SignPSA(r1, PSAFile(None, 1, Wei(1)))
AliceNewPSA == SignPSA(r1, PSAFile(None, 2, HexWei(1)))
RespelledPSA == SignPSA(r1, PSAFile(a3, 1, Wei(1)))
ForgedPSA == SignPSA(r2, PSAFile(a1, 3, Wei(0)))
BobPSA == SignPSA(r2, PSAFile(None, 1, Wei(1)))
AliceGrant == SignGrant(r1, GrantFile(None, 4, m1), Agent1)
AliceNewGrant == SignGrant(r1, GrantFile(None, 5, m2), Agent1)
ForgedGrant == SignGrant(r2, GrantFile(a1, 6, m1), Agent1)
BobGrant1 == SignGrant(r2, GrantFile(None, 4, m1), Agent1)
BobGrant2 == SignGrant(r2, GrantFile(None, 5, m1), Agent2)

AlicePSAs == {AlicePSA, AliceNewPSA, ForgedPSA}
AliceGrants == {AliceGrant, AliceNewGrant, ForgedGrant}
OnlyAlicePSA == {AlicePSA}
OnlyAliceGrant == {AliceGrant, ForgedGrant}
SpelledPSAs == {AlicePSA, RespelledPSA}
TwoPSAs == {AlicePSA, BobPSA, ForgedPSA}
TwoGrants == {AliceGrant, BobGrant1, BobGrant2, ForgedGrant}

SomeHandles == {Revocation(r1, nonce) : nonce \in {1, 4}}
AlicePSAHandle == {Revocation(r1, 1)}

TwoWei == {[amount |-> Wei(2)]}
TwoOrThreeWei == {[amount |-> Wei(n)] : n \in 2..3}
AnyHandlers == Permutations(Handlers)
=============================================================================
