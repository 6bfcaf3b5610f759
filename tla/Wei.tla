-------------------------------- MODULE Wei ---------------------------------
(***************************************************************************)
(* Amounts of wei as the JSON documents spell them, the scope of a PSA,    *)
(* and the two readings the code has of them: what the root's signature    *)
(* covers (PSADigest: orZero, then HexOrDecimal256 of go-ethereum) and     *)
(* what is enforced (bigOrZero: base 10 only).                             *)
(*                                                                         *)
(* A string is absent (""), wei (a decimal number, maybe negative), hex    *)
(* (0x and digits) or bad (neither).  The upper bound of uint256 is left   *)
(* out: beyond it a document cannot be signed either.                      *)
(***************************************************************************)
EXTENDS Integers

Amount == [kind : {"absent", "bad"}, wei : {0}]
            \cup [kind : {"wei"}, wei : Int] \cup [kind : {"hex"}, wei : Nat]
Scope == [cap : Amount, stepUpAbove : Amount, maxTTL : Int]

BigOrZero(amount) == IF amount.kind = "wei" THEN amount.wei ELSE 0

\* What is hashed, where the encoder accepts it: no negative uint256.
Hashable(amount) == amount.kind # "bad" /\ amount.wei >= 0
Hashed(amount) == amount.wei

HashableScope(scope) ==
  Hashable(scope.cap) /\ Hashable(scope.stepUpAbove) /\ scope.maxTTL >= 0
HashedScope(scope) == [cap |-> Hashed(scope.cap), maxTTL |-> scope.maxTTL,
                       stepUpAbove |-> Hashed(scope.stepUpAbove)]
=============================================================================
