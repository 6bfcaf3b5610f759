--------------------------- MODULE ConsentDecision --------------------------
(***************************************************************************)
(* What the consent store promises: each request opens once, undecided,    *)
(* with a deadline; it is decided at most once, and only while its window  *)
(* is open; the moment the window closes an undecided request is lost, for *)
(* all observers at once; and no outcome is ever taken back.               *)
(*                                                                         *)
(* Nothing is said of codes, callers, locks or polling: an agent's polling *)
(* has no part in the decision.                                            *)
(***************************************************************************)
EXTENDS Integers

CONSTANTS Ids, Window
VARIABLES clock, deadline, outcome
vars == <<clock, deadline, outcome>>

Verdicts == {"approved", "denied"}

Init == /\ clock = 0
        /\ deadline = [id \in Ids |-> 0]
        /\ outcome = [id \in Ids |-> "none"]

Open(id) ==
  /\ outcome[id] = "none"
  /\ outcome' = [outcome EXCEPT ![id] = "pending"]
  /\ deadline' = [deadline EXCEPT ![id] = clock + Window]
  /\ UNCHANGED clock

Decide(id, verdict) ==
  /\ outcome[id] = "pending"
  /\ outcome' = [outcome EXCEPT ![id] = verdict]
  /\ UNCHANGED <<clock, deadline>>

\* Time passes, and every undecided request now past its deadline expires.
Pass ==
  /\ clock' = clock + 1
  /\ outcome' = [id \in Ids |->
                   IF outcome[id] = "pending" /\ clock' > deadline[id]
                     THEN "expired" ELSE outcome[id]]
  /\ UNCHANGED deadline

Next == \/ \E id \in Ids : Open(id)
        \/ \E id \in Ids, verdict \in Verdicts : Decide(id, verdict)
        \/ Pass

Spec == Init /\ [][Next]_vars
=============================================================================
