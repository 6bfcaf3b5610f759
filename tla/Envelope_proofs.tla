--------------------------- MODULE Envelope_proofs --------------------------
(***************************************************************************)
(* The envelope for every scope, every amount and every width of Duration. *)
(* Nothing is asked of a scope but that it holds integers: the theorems    *)
(* hold of a capless, a negative and an overflowing one.                   *)
(***************************************************************************)
EXTENDS Tiering, TLAPS

\* tierFor and checkPaymentEnvelope agree whatever the cap, the threshold and
\* the amount, negative and unparsable ones included.
LEMMA TieringAgreesWithMint ==
  ASSUME NEW s \in Scope, NEW a \in Amount
  PROVE  TierAgreesWithMint(s, a)
BY DEF TierAgreesWithMint, CheckPaymentEnvelope, TierFor, BigOrZero, Scope, Amount

\* Wrap-around never makes a natural number larger, and leaves alone one that
\* fits.
LEMMA WrapBelow ==
  ASSUME NEW n \in Nat
  PROVE  /\ Wrap(n) \in Int /\ Wrap(n) <= n
         /\ n < HalfRange => Wrap(n) = n
<1> DEFINE m == n + HalfRange
           w == 2 * HalfRange
<1>1. m \in Nat /\ w \in Nat \ {0}
  BY EnvelopeAssumption
<1>2. n < HalfRange => m < w
  BY EnvelopeAssumption
<1>3. Wrap(n) = (m % w) - HalfRange /\ m - HalfRange = n
  BY EnvelopeAssumption DEF Wrap
<1> HIDE DEF m, w
<1>4. m % w \in Int /\ m % w <= m
  BY <1>1
<1>5. m < w => m % w = m
  BY <1>1
<1>. QED BY <1>1, <1>2, <1>3, <1>4, <1>5, EnvelopeAssumption

\* No token outlives its grant or the hour, even where the multiplication by
\* time.Second overflows; where it does not, a token lives that long.
LEMMA TTLAlwaysWithinGrant ==
  ASSUME NEW s \in Scope
  PROVE  TTLWithinGrant(s)
<1> DEFINE n == s.maxTTL * TicksPerSecond
           allowed == MinOf(s.maxTTL, Hour) * TicksPerSecond
<1> SUFFICES ASSUME s.maxTTL >= 0
             PROVE  /\ TokenTTL(s) <= allowed
                    /\ n < HalfRange => TokenTTL(s) = allowed
    BY DEF TTLWithinGrant
<1>1. s.maxTTL \in Nat /\ n \in Nat
  BY EnvelopeAssumption DEF Scope
<1>2. /\ Wrap(n) \in Int /\ Wrap(n) <= n
      /\ n < HalfRange => Wrap(n) = n
  BY <1>1, WrapBelow
<1>3. allowed = MinOf(n, Hour * TicksPerSecond)
  <2>1. CASE s.maxTTL < Hour
    BY <1>1, <2>1, EnvelopeAssumption DEF MinOf
  <2>2. CASE ~ s.maxTTL < Hour
    BY <1>1, <2>2, EnvelopeAssumption DEF MinOf
  <2>. QED BY <2>1, <2>2
<1>4. TokenTTL(s) = MinOf(Wrap(n), Hour * TicksPerSecond)
  BY DEF TokenTTL
<1>5. Hour * TicksPerSecond \in Nat
  BY EnvelopeAssumption
<1> HIDE DEF n, allowed
<1>. QED BY <1>1, <1>2, <1>3, <1>4, <1>5 DEF MinOf

-----------------------------------------------------------------------------
InRange == scope \in Scope /\ amount \in Amount

LEMMA StaysInRange == Spec => []InRange
<1>1. Init => InRange
  BY TieringAssumption DEF Init, InRange
<1>2. InRange /\ [Next]_<<scope, amount>> => InRange'
  BY TieringAssumption DEF InRange, Next, Replace, Ask
<1>. QED BY <1>1, <1>2, PTL DEF Spec

\* Whichever PSA is posted and whatever is asked, what tierFor lets a click
\* approve Mint does not refuse for want of a signature, and what it calls
\* elevated Mint never lets through without one (helpers.go:37-50,
\* tokens.go:173-189).
THEOREM TiersAlwaysAgree == Spec => []TiersAgree
<1>1. InRange => TiersAgree
  BY TieringAgreesWithMint DEF InRange, TiersAgree
<1>. QED BY <1>1, StaysInRange, PTL

\* Whichever PSA is posted, no token under it outlives its grant or the hour
\* (tokens.go:129-134).
THEOREM TTLsAlwaysBounded == Spec => []TTLsBounded
<1>1. InRange => TTLsBounded
  BY TTLAlwaysWithinGrant DEF InRange, TTLsBounded
<1>. QED BY <1>1, StaysInRange, PTL
=============================================================================
