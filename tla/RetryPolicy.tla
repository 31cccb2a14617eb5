----------------------------- MODULE RetryPolicy -----------------------------
(***************************************************************************)
(* backend/src/services/RetryService.ts: one executeWithRetry.  A timeout  *)
(* abandons an attempt without stopping it, so that the function may run   *)
(* several times at once and take effect after the result was reported.    *)
(***************************************************************************)
EXTENDS Integers, FiniteSets

CONSTANTS
    Configs     \* records maxAttempts, initialDelay, maxDelay, strategy, jitterType,
                \* backoffMultiplier, timeout (is one set), onlyListed (retryableErrors is set)

VARIABLES
    config,
    pc,         \* "running", "waiting", "succeeded", "failed"
    attempt,
    delay,      \* drawn for the wait
    running     \* attempts whose function has not returned

retryVars == <<config, pc, attempt, delay, running>>

(* What the error lists make of an error: named as final, named as          *)
(* retryable, or not named.  A timeout can be any of them.                  *)
ErrorKinds == {"final", "retryable", "unnamed"}

(* isRetryableError                                                         *)
IsRetryable(kind) == kind = "retryable" \/ (kind = "unnamed" /\ ~config.onlyListed)

fib[n \in Nat] == IF n <= 1 THEN 1 ELSE IF n = 2 THEN 2 ELSE fib[n - 1] + fib[n - 2]

BaseDelay(n) ==
    LET raw == CASE config.strategy = "EXPONENTIAL" ->
                        config.initialDelay * config.backoffMultiplier ^ (n - 1)
                 [] config.strategy = "LINEAR"    -> config.initialDelay * n
                 [] config.strategy = "FIXED"     -> config.initialDelay
                 [] config.strategy = "FIBONACCI" -> config.initialDelay * fib[n]
    IN  IF raw < config.maxDelay THEN raw ELSE config.maxDelay

(* applyJitter: the values a delay d can be drawn from, after rounding.     *)
Jittered(d) ==
    CASE config.jitterType = "NONE"  -> {d}
      [] config.jitterType = "FULL"  -> 0..d
      [] config.jitterType = "EQUAL" -> ((d + 1) \div 2)..d
      [] config.jitterType = "DECORRELATED" -> ((d + 1) \div 3)..(3 * d)

Init ==
    /\ config \in Configs
    /\ pc = "running"
    /\ attempt = 1
    /\ delay = 0
    /\ running = {1}

(* The function of the present attempt returns.                             *)
Succeed ==
    /\ pc = "running"
    /\ attempt \in running
    /\ pc' = "succeeded"
    /\ running' = running \ {attempt}
    /\ UNCHANGED <<config, attempt, delay>>

(* The catch block: give up, or draw a delay and wait.                      *)
Handle(kind) ==
    IF IsRetryable(kind) /\ attempt < config.maxAttempts
      THEN pc' = "waiting" /\ delay' \in Jittered(BaseDelay(attempt))
      ELSE pc' = "failed" /\ UNCHANGED delay

Throw(kind) ==
    /\ pc = "running"
    /\ attempt \in running
    /\ running' = running \ {attempt}
    /\ Handle(kind)
    /\ UNCHANGED <<config, attempt>>

MutRaceLast ==
    /\ pc = "running"
    /\ config.timeout
    /\ attempt \notin running
    /\ \E kind \in ErrorKinds : Handle(kind)
    /\ UNCHANGED <<config, attempt, running>>
(* executeWithTimeout: the timer wins the race, the function runs on.       *)
Timeout ==
    /\ pc = "running"
    /\ config.timeout
    /\ \E kind \in ErrorKinds : Handle(kind)
    /\ UNCHANGED <<config, attempt, running>>

(* sleep is over: the next attempt.                                         *)
Retry ==
    /\ pc = "waiting"
    /\ pc' = "running"
    /\ attempt' = attempt + 1
    /\ delay' = 0
    /\ running' = running \cup {attempt + 1}
    /\ UNCHANGED config

(* An abandoned function ends; nobody hears of it.                          *)
LateReturn(a) ==
    /\ a \in running
    /\ a < attempt \/ pc # "running"
    /\ running' = running \ {a}
    /\ UNCHANGED <<config, pc, attempt, delay>>

Next ==
    \/ Succeed
    \/ \E kind \in ErrorKinds : Throw(kind)
    \/ Timeout
    \/ Retry
    \/ \E a \in running : LateReturn(a)

(* The timers of the process fire.  The function is promised nothing.       *)
Fairness == WF_retryVars(Timeout) /\ WF_retryVars(Retry)
Spec == Init /\ [][Next]_retryVars /\ Fairness

-----------------------------------------------------------------------------
(* With a timeout, a result is reported even if no call ever returns.       *)
EndsDespiteHangs == config.timeout => <>(pc \in {"succeeded", "failed"})
=============================================================================
