--------------------------- MODULE ProfileApproval ---------------------------
(***************************************************************************)
(* The profiling of one target by the llama.cpp loop (live.py): a driver   *)
(* persists an attempt with an exact request, a human leaves a one-time    *)
(* receipt, a driver spends it and calls the ROCm server once.  A task     *)
(* that authorizes raw rocprofv3 needs no receipt.                         *)
(*                                                                         *)
(* Drivers take no lock here: each works on the attempts it has read and   *)
(* writes the whole list back.  How an attempt ends is the environment's   *)
(* choice.                                                                 *)
(***************************************************************************)
EXTENDS Naturals, Sequences, FiniteSets

CONSTANTS
  Drivers,             \* processes that run the loop
  Targets,             \* the baseline, and the experiments
  MaxProfileFailures   \* bound of the model: attempts without a usable profile

ASSUME FailuresAssumption == MaxProfileFailures \in Nat

VARIABLES
  profiles,   \* state/profiles/TARGET.json: target -> statuses of its attempts
  receipts,   \* target -> receipt of each attempt
  rawProfile, \* state/raw-profiles/TARGET.json: target -> its last raw attempt
  seen,       \* driver -> the attempts it has read
  transports  \* target -> calls of rocm_profile_workload made for each attempt

profileVars == << profiles, receipts, rawProfile, seen, transports >>

AttemptStatus ==
  { "awaiting_approval", "transport_started", "transport_failed",
    "evidence_inconclusive", "succeeded" }

MaxProfileAttempts == MaxProfileFailures + 1

Retryable == { "transport_failed", "evidence_inconclusive" }

\* Attempts of all targets that ended without a usable profile.
Failures ==
  { f \in Targets \X (1 .. MaxProfileAttempts) :
      f[2] \in DOMAIN profiles[f[1]] /\ profiles[f[1]][f[2]] \in Retryable }

Succeeded(attempts) == \E n \in DOMAIN attempts : attempts[n] = "succeeded"

\* _create_profile_attempt
WithNewAttempt(attempts) == Append(attempts, "awaiting_approval")

\* The attempts as a driver leaves them before it looks for a receipt.
Requested(attempts) ==
  IF attempts = << >> \/ attempts[Len(attempts)] \in Retryable
  THEN WithNewAttempt(attempts) ELSE attempts

ProfileInit ==
  /\ profiles = [t \in Targets |-> << >>]
  /\ receipts = [t \in Targets |-> [n \in 1 .. MaxProfileAttempts |-> "none"]]
  /\ rawProfile = [t \in Targets |-> "none"]
  /\ seen = [d \in Drivers |-> << >>]
  /\ transports = [t \in Targets |-> [n \in 1 .. MaxProfileAttempts |-> 0]]

\* Some attempt of the target succeeded, or raw evidence is stored: whoever
\* asks for a profile has it at once.
ProfileComplete(t) == rawProfile[t] = "done" \/ Succeeded(profiles[t])

\* A driver without a usable profile persists an attempt unless one is open,
\* and goes on with the attempts it then holds.
OpenAttempt(d, t) ==
  LET attempts == Requested(profiles[t])
  IN  /\ ~ProfileComplete(t)
      /\ Len(attempts) <= MaxProfileAttempts
      /\ profiles' = [profiles EXCEPT ![t] = attempts]
      /\ seen' = [seen EXCEPT ![d] = attempts]
      /\ UNCHANGED << receipts, rawProfile, transports >>

\* The receipt of the attempt that a driver with these attempts works on.
Receipt(t, attempts) == receipts[t][Len(attempts)]

\* approve: one receipt for each persisted request.
Approve(t) ==
  \E n \in DOMAIN profiles[t] :
    /\ receipts[t][n] = "none"
    /\ receipts' = [receipts EXCEPT ![t][n] = "granted"]
    /\ UNCHANGED << profiles, rawProfile, seen, transports >>

\* Mutant: the receipt is spent after the call.
SpendReceipt_Keeps(d, t) == UNCHANGED profileVars

\* The receipt read as unspent is stored as consumed.
SpendReceipt(d, t) ==
  /\ receipts' = [receipts EXCEPT ![t][Len(seen[d])] = "consumed"]
  /\ UNCHANGED << profiles, rawProfile, seen, transports >>

\* The driver's whole list replaces the stored one.
Write(d, t, attempts) ==
  /\ profiles' = [profiles EXCEPT ![t] = attempts]
  /\ seen' = [seen EXCEPT ![d] = attempts]

AnnounceTransport(d, t) ==
  /\ Write(d, t, [seen[d] EXCEPT ![Len(seen[d])] = "transport_started"])
  /\ UNCHANGED << receipts, rawProfile, transports >>

\* The call to the ROCm server, and what is stored when it returns: a failure
\* together with the attempt that replaces it, evidence by itself.
CallServer(d, t, status) ==
  LET n == Len(seen[d])
      ended == [seen[d] EXCEPT ![n] = status]
  IN  /\ status \in Retryable =>
           Cardinality(Failures) < MaxProfileFailures /\ n < MaxProfileAttempts
      /\ Write(d, t, IF status = "transport_failed" THEN WithNewAttempt(ended) ELSE ended)
      /\ transports' = [transports EXCEPT ![t][n] = @ + 1]
      /\ UNCHANGED << receipts, rawProfile >>

\* Evidence with problems asks for a new approval.
RequestAgain(d, t) ==
  /\ Write(d, t, WithNewAttempt(seen[d]))
  /\ UNCHANGED << receipts, rawProfile, transports >>

\* The raw profiler: its attempt is stored first, and whatever happens to it
\* is terminal evidence.
StartRaw(t) ==
  /\ ~ProfileComplete(t)
  /\ rawProfile' = [rawProfile EXCEPT ![t] = "started"]
  /\ UNCHANGED << profiles, receipts, seen, transports >>

FinishRaw(t) ==
  /\ rawProfile' = [rawProfile EXCEPT ![t] = "done"]
  /\ UNCHANGED << profiles, receipts, seen, transports >>

Forget(d) ==
  /\ seen' = [seen EXCEPT ![d] = << >>]
  /\ UNCHANGED << profiles, receipts, rawProfile, transports >>

ProfileTypeOK ==
  /\ profiles \in [Targets -> Seq(AttemptStatus)]
  /\ receipts \in [Targets -> [1 .. MaxProfileAttempts -> {"none", "granted", "consumed"}]]
  /\ rawProfile \in [Targets -> {"none", "started", "done"}]
  /\ seen \in [Drivers -> Seq(AttemptStatus)]
  /\ transports \in [Targets -> [1 .. MaxProfileAttempts -> Nat]]
=============================================================================
