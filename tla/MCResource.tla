----------------------------- MODULE MCResource -----------------------------
(***************************************************************************)
(* A resource that is started key-rooted and restarted vanilla, and a      *)
(* world of two persons.  Beside Alice's honest token there is one that    *)
(* pins no content of her PSA, one in which the person server puts her     *)
(* identity on Bob's chain, one for another resource's audience, one       *)
(* without any chain and one signed with a key her PSA does not cover.     *)
(* The issuer's key may be another at every fetch.  a1 and a3 are one      *)
(* address in two casings; her grant spells it one way only.               *)
(***************************************************************************)
EXTENDS Resource, Wallet, TLC

CONSTANTS a1, a2, a3, r1, r2, g1

MCCanon == [a \in Addrs |-> IF a = a2 THEN r2 ELSE r1]
RootedThenVanilla == <<TRUE, FALSE>>
Rooted == <<TRUE>>

MCFileAddr == [r \in Roots |-> IF r = r1 THEN a1 ELSE a2]

NoWei == [kind |-> "absent", wei |-> 0]
AnyScope == [cap |-> NoWei, stepUpAbove |-> NoWei, maxTTL |-> 1]

PSAFile(root, nonce) ==
  [root |-> root, issuer |-> "ps", keys |-> {"k1"}, nonce |-> nonce,
   scope |-> AnyScope, nbf |-> 0, naf |-> 1, sig |-> NoSig]
GrantFile(nonce) ==
  [root |-> None, agent |-> None, thumb |-> None, pubKey |-> None,
   mission |-> "any", nbf |-> 0, naf |-> 1, nonce |-> nonce, sig |-> NoSig]

AlicePSA == SignPSA(r1, PSAFile(None, 1))
AliceNewPSA == SignPSA(r1, PSAFile(None, 3))
RespelledPSA == SignPSA(r1, PSAFile(a3, 1))
ForgedPSA == SignPSA(r2, PSAFile(a1, 1))
BobPSA == SignPSA(r2, PSAFile(None, 1))
AliceGrant == SignGrant(r1, GrantFile(2), AgentFile(g1, "agentKey"))
BobGrant == SignGrant(r2, GrantFile(2), AgentFile(g1, "agentKey"))

Honest ==
  [typ |-> "auth+jwt", iss |-> "ps", aud |-> "rs", jti |-> 1, agent |-> g1,
   cnf |-> "agentKey", iat |-> 0, exp |-> 1, sub |-> a1, key |-> "k1",
   psa |-> [at |-> a1, pin |-> AlicePSA], grant |-> AliceGrant]
Unpinned == [Honest EXCEPT !.jti = 2, !.psa.pin = None]
WrongIdentity == [Honest EXCEPT !.jti = 2, !.psa = [at |-> a2, pin |-> BobPSA],
                                !.grant = BobGrant]
Elsewhere == [Honest EXCEPT !.jti = 2, !.aud = "elsewhere"]
Vanilla == [Honest EXCEPT !.jti = 2, !.psa = None]

Uncovered == [Honest EXCEPT !.jti = 2, !.key = "k2"]

AllJWTs == {Honest, Unpinned, WrongIdentity, Elsewhere, Vanilla, Uncovered}
OnlyUncovered == {Uncovered}
OnlyHonest == {Honest}
AllPSAs == {AlicePSA, AliceNewPSA, RespelledPSA, ForgedPSA, BobPSA}
AllGrants == {AliceGrant, BobGrant}
OnlyAlicePSA == {AlicePSA}
OnlyAliceGrant == {AliceGrant}
PSAHandle == {Revocation(r1, 1)}
MCFold == [a \in Addrs |-> IF a = a2 THEN a2 ELSE a1]
=============================================================================
