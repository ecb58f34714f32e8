------------------------------ MODULE Tournament ------------------------------
(***************************************************************************)
(* What an optimization campaign promises: every candidate is judged once, *)
(* strategy after strategy; the winners are chosen among the accepted, all *)
(* verdicts being in; and the campaign is closed once, accepted only for a *)
(* winner.                                                                 *)
(***************************************************************************)
EXTENDS Naturals

CONSTANTS
  Candidates,
  Turn,       \* candidate -> when its strategy is run
  Admissible  \* the sets of candidates that may win together

Verdicts == {"EXPERIMENTAL_ACCEPTED", "REJECTED", "INCONCLUSIVE", "SKIPPED"}
Outcomes == {"EXPERIMENTAL_ACCEPTED", "REJECTED", "INCONCLUSIVE"}

VARIABLES
  verdict,  \* candidate -> its verdict, "OPEN" before it
  chosen,   \* whether the winners are chosen
  winners,
  outcome   \* of the campaign, "ACTIVE" before it

vars == << verdict, chosen, winners, outcome >>

Init ==
  /\ verdict = [c \in Candidates |-> "OPEN"]
  /\ chosen = FALSE /\ winners = {}
  /\ outcome = "ACTIVE"

Judge(c, v) ==
  /\ ~chosen /\ verdict[c] = "OPEN"
  /\ \A e \in Candidates : Turn[e] < Turn[c] => verdict[e] # "OPEN"
  /\ verdict' = [verdict EXCEPT ![c] = v]
  /\ UNCHANGED << chosen, winners, outcome >>

Choose(W) ==
  /\ ~chosen
  /\ \A c \in Candidates : verdict[c] # "OPEN"
  /\ \A c \in W : verdict[c] = "EXPERIMENTAL_ACCEPTED"
  /\ chosen' = TRUE /\ winners' = W
  /\ UNCHANGED << verdict, outcome >>

Close(o) ==
  /\ chosen /\ outcome = "ACTIVE"
  /\ o = "EXPERIMENTAL_ACCEPTED" => winners # {}
  /\ outcome' = o
  /\ UNCHANGED << verdict, chosen, winners >>

Next ==
  \/ \E c \in Candidates, v \in Verdicts : Judge(c, v)
  \/ \E W \in Admissible : Choose(W)
  \/ \E o \in Outcomes : Close(o)

Spec == Init /\ [][Next]_vars
=============================================================================
