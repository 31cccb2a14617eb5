------------------------------- MODULE Circuit -------------------------------
(***************************************************************************)
(* The steps of one circuit of                                             *)
(* backend/src/services/CircuitBreakerService.ts as operators on its       *)
(* record.  The modules of the services that call through a circuit extend *)
(* this one.                                                               *)
(***************************************************************************)
EXTENDS Integers, Sequences

CONSTANTS
    failureThreshold, successThreshold,
    timeout,            \* from an opening to the next attempt
    monitoringPeriod    \* the age at which a failure stops counting

NewCircuit == [state |-> "CLOSED", failures |-> 0, successes |-> 0,
               failureTimestamps |-> <<>>, nextAttemptTime |-> 0]

(* getCircuitState: looking at the state forgets the old failures.          *)
Cleaned(c, t) ==
    LET recent(stamp) == t - stamp < monitoringPeriod
        kept == SelectSeq(c.failureTimestamps, recent)
    IN  [c EXCEPT !.failureTimestamps = kept, !.failures = Len(kept)]

Refuses(c, t) == c.state = "OPEN" /\ t < c.nextAttemptTime

(* execute, up to the call: an OPEN circuit whose time has come lets it in. *)
Admitted(c, t) ==
    [Cleaned(c, t) EXCEPT !.state = IF @ = "OPEN" THEN "HALF_OPEN" ELSE @]

MutKeepSuccesses(c, t) ==
    [c EXCEPT !.state = "OPEN", !.nextAttemptTime = t + timeout]
(* openCircuit: a trial starts with no successes.                           *)
Opened(c, t) ==
    [c EXCEPT !.state = "OPEN", !.nextAttemptTime = t + timeout, !.successes = 0]

(* recordSuccess: counted in every state but CLOSED.                        *)
Succeeded(c) ==
    LET n == c.successes + 1
    IN  IF c.state = "HALF_OPEN" /\ n >= successThreshold
          THEN [c EXCEPT !.state = "CLOSED", !.failures = 0, !.successes = 0,
                         !.failureTimestamps = <<>>]
          ELSE [c EXCEPT !.successes = IF c.state = "CLOSED" THEN 0 ELSE n]

(* recordFailure: in OPEN it is only counted.                               *)
Failed(c, t) ==
    LET e == [c EXCEPT !.failureTimestamps = Append(@, t), !.failures = @ + 1]
    IN  IF \/ e.state = "HALF_OPEN"
           \/ e.state = "CLOSED" /\ e.failures >= failureThreshold
          THEN Opened(e, t) ELSE e

(* reset, by hand.                                                          *)
ResetCircuit(c) ==
    [c EXCEPT !.state = "CLOSED", !.failures = 0, !.successes = 0,
              !.failureTimestamps = <<>>, !.nextAttemptTime = 0]
=============================================================================
