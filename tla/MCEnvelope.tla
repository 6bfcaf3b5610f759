----------------------------- MODULE MCEnvelope -----------------------------
(***************************************************************************)
(* Every scope and every amount around the boundaries, with a Duration of  *)
(* 6 bits: 3 ticks to the second and an hour of 2 seconds.  The TTLs lie   *)
(* on both sides of 0, of the hour and of each of the places up to 64      *)
(* seconds where the product wraps around or crosses zero.                 *)
(***************************************************************************)
EXTENDS Tiering

TTLs == -2 .. 3 \cup 10 .. 12 \cup 21 .. 22 \cup 31 .. 33 \cup 42 .. 43
          \cup 53 .. 54 \cup 63 .. 65
NoNumber == [kind : {"absent", "bad"}, wei : {0}]
SmallScopes == LET strings == NoNumber \cup [kind : {"wei"}, wei : -1 .. 3]
                                       \cup [kind : {"hex"}, wei : 1 .. 2]
               IN [cap : strings, stepUpAbove : strings, maxTTL : TTLs]
SmallAmounts == NoNumber \cup [kind : {"wei"}, wei : -2 .. 4]
                         \cup [kind : {"hex"}, wei : {2}]
=============================================================================
