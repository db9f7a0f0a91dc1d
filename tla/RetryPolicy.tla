---------------------------- MODULE RetryPolicy ----------------------------
(***************************************************************************)
(* The retry decision of src/src/worker/retry-policy.ts: after a failed    *)
(* attempt an event is either scheduled again after a "full jitter" delay  *)
(* or given up.  Delays are counted in abstract ticks of the clock.        *)
(***************************************************************************)
EXTENDS Integers

CONSTANTS
  MaxAttempts,   \* WORKER_MAX_ATTEMPTS
  BaseDelay,     \* WORKER_RETRY_BASE_MS
  MaxDelay       \* WORKER_RETRY_MAX_MS

(* What workerConfig refuses to start without (worker.config.ts, 18-32).   *)
ASSUME RetryAssumption ==
  /\ MaxAttempts \in Nat \ {0}
  /\ BaseDelay \in Nat \ {0}
  /\ MaxDelay \in Nat
  /\ MaxDelay >= BaseDelay

(* newAttemptCount: the count stored with either decision.                 *)
NewAttemptCount(current) == current + 1

IsDlqOneLater(current) == NewAttemptCount(current) > MaxAttempts

IsDlq(current) == NewAttemptCount(current) >= MaxAttempts

(* cap = min(maxDelayMs, baseDelayMs * 2 ** (newAttemptCount - 1))         *)
DelayCap(current) ==
  LET exponential == BaseDelay * 2 ^ (NewAttemptCount(current) - 1)
  IN  IF exponential < MaxDelay THEN exponential ELSE MaxDelay

(* floor(random * cap) with 0 <= random < 1: the cap itself is excluded.   *)
Delays(current) == {delay \in 0 .. (MaxDelay - 1) : delay < DelayCap(current)}
=============================================================================
