---------------------------- MODULE AttemptLedger ----------------------------
(***************************************************************************)
(* What a durable quality execution promises to the rest of the system: a  *)
(* ledger of attempts, at most one of them open, each closed once and for  *)
(* ever, and no attempt after one that completed.                          *)
(***************************************************************************)
EXTENDS Naturals

CONSTANT MaxAttempts

Terminal == {"COMPLETED", "FAILED", "TIMED_OUT", "ORPHANED"}

VARIABLES
  outcome,  \* attempt -> "NONE", "OPEN" or how it ended
  latest    \* the attempt last opened, 0 before the first

vars == << outcome, latest >>

Init == outcome = [a \in 1 .. MaxAttempts |-> "NONE"] /\ latest = 0

Open(a) ==
  /\ a > latest
  /\ latest # 0 => outcome[latest] \in Terminal \ {"COMPLETED"}
  /\ outcome' = [outcome EXCEPT ![a] = "OPEN"]
  /\ latest' = a

Close(end) ==
  /\ latest # 0 /\ outcome[latest] = "OPEN"
  /\ outcome' = [outcome EXCEPT ![latest] = end]
  /\ UNCHANGED latest

Next == (\E a \in 1 .. MaxAttempts : Open(a)) \/ (\E end \in Terminal : Close(end))

Spec == Init /\ [][Next]_vars
=============================================================================
