------------------------------ MODULE MCChain -------------------------------
(***************************************************************************)
(* One person, one agent with two grants (the second under another         *)
(* transport key), a PSA and one that replaces it, both over the issuer    *)
(* keys of both boots, two presentations at once.                          *)
(***************************************************************************)
EXTENDS Chain, TLC

CONSTANTS a1, r1, g1

MCCanon == [a \in Addrs |-> r1]
MCFileAddr == [r \in Roots |-> a1]
MCFold == [a \in Addrs |-> a]
TwoKeys == <<"key1", "key2">>
Rooted == <<TRUE>>

Wei(n) == [kind |-> "wei", wei |-> n]

PSAFile(keys, nonce) ==
  [root |-> None, issuer |-> "ps", keys |-> keys, nonce |-> nonce,
   scope |-> [cap |-> Wei(2), stepUpAbove |-> Wei(2), maxTTL |-> 1],
   nbf |-> 0, naf |-> 0, sig |-> NoSig]
GrantFile(nonce, thumb, pubKey) ==
  [root |-> None, agent |-> g1, thumb |-> thumb, pubKey |-> pubKey,
   mission |-> "m1", nbf |-> 0, naf |-> 0, nonce |-> nonce, sig |-> NoSig]

PSA1 == SignPSA(r1, PSAFile({"key1", "key2"}, 1))
PSA2 == SignPSA(r1, PSAFile({"key1", "key2"}, 2))
Grant1 == SignGrant(r1, GrantFile(3, None, None), AgentFile(g1, "agentKey"))
Grant2 == SignGrant(r1, GrantFile(4, "agentKey", "otherKey"), None)

PSAs == {PSA1, PSA2}
Grants == {Grant1, Grant2}
Handles == {Revocation(r1, 1), Revocation(r1, 3)}
AnyRequests == Permutations(Requests)
OneAsk == {[resource |-> "rs", amount |-> Wei(2)]}
=============================================================================
