------------------------------ MODULE Envelope ------------------------------
(***************************************************************************)
(* The arithmetic of a PSA's scope: which consent tier an ask falls in     *)
(* (server.tierFor), what Mint lets through (checkPaymentEnvelope), and    *)
(* how long a token may live (the TTL clamp of Mint).                      *)
(*                                                                         *)
(* Both the scope's strings and the ask's are enforced as bigOrZero reads  *)
(* them (Wei), which is not how the signature over the scope reads them.   *)
(* Durations are int64 nanoseconds in the code; here a count of ticks,     *)
(* TicksPerSecond to the second, that wraps around at HalfRange.           *)
(***************************************************************************)
EXTENDS Wei

CONSTANTS HalfRange,       \* a Duration is in -HalfRange .. HalfRange-1 (2^63)
          TicksPerSecond,  \* time.Second (10^9)
          Hour             \* seconds in the absolute ceiling (3600)

ASSUME EnvelopeAssumption ==
  /\ HalfRange \in Nat \ {0}
  /\ TicksPerSecond \in Nat \ {0}
  /\ Hour \in Nat \ {0}
  /\ Hour * TicksPerSecond < HalfRange

TierForAtThreshold(scope, amount) ==
  IF /\ amount.kind # "absent"
     /\ BigOrZero(scope.stepUpAbove) > 0
     /\ BigOrZero(amount) >= BigOrZero(scope.stepUpAbove)
  THEN "elevated" ELSE "routine"
TierFor(scope, amount) ==
  IF /\ amount.kind # "absent"
     /\ BigOrZero(scope.stepUpAbove) > 0
     /\ BigOrZero(amount) > BigOrZero(scope.stepUpAbove)
  THEN "elevated" ELSE "routine"

CheckPaymentEnvelopeNoStepUp(scope, amount, hasStepUp) ==
  \/ amount.kind = "absent"
  \/ /\ amount.kind = "wei"
     /\ BigOrZero(scope.cap) # 0 /\ amount.wei <= BigOrZero(scope.cap)
CheckPaymentEnvelopeNoCap(scope, amount, hasStepUp) ==
  LET threshold == BigOrZero(scope.stepUpAbove) IN
    \/ amount.kind = "absent"
    \/ /\ amount.kind = "wei"
       /\ threshold > 0 /\ amount.wei > threshold => hasStepUp
CheckPaymentEnvelope(scope, amount, hasStepUp) ==
  LET cap == BigOrZero(scope.cap)
      threshold == BigOrZero(scope.stepUpAbove)
  IN \/ amount.kind = "absent"
     \/ /\ amount.kind = "wei"
        /\ cap # 0 /\ amount.wei <= cap
        /\ threshold > 0 /\ amount.wei > threshold => hasStepUp

\* Two's-complement wrap-around of a product of int64s.
Wrap(n) == ((n + HalfRange) % (2 * HalfRange)) - HalfRange

MinOf(a, b) == IF a < b THEN a ELSE b

\* The lifetime, in ticks, of a token minted for the server's one hour.
TokenTTLNoHour(scope) == Wrap(scope.maxTTL * TicksPerSecond)
TokenTTL(scope) ==
  MinOf(Wrap(scope.maxTTL * TicksPerSecond), Hour * TicksPerSecond)

-----------------------------------------------------------------------------
\* Tiering and minting are written twice, in two packages, and must agree
\* under one and the same PSA: what tierFor lets a click approve, Mint never
\* refuses for want of a signature, and what it calls elevated Mint never
\* lets through without one (helpers.go:37-50, tokens.go:173-189).
TierAgreesWithMint(scope, amount) ==
  CheckPaymentEnvelope(scope, amount, FALSE)
    <=> /\ CheckPaymentEnvelope(scope, amount, TRUE)
        /\ TierFor(scope, amount) = "routine"

\* A token lives exactly as long as its grant and the hour allow; where the
\* multiplication by time.Second overflows it may be born expired, but never
\* outlives them.  A negative maximum cannot be signed (tokens.go:129-134;
\* psa.go:149).
TTLWithinGrant(scope) ==
  LET allowed == MinOf(scope.maxTTL, Hour) * TicksPerSecond IN
    scope.maxTTL >= 0 =>
      /\ TokenTTL(scope) <= allowed
      /\ scope.maxTTL * TicksPerSecond < HalfRange => TokenTTL(scope) = allowed
=============================================================================
