--------------------------- MODULE CircuitBreaker ---------------------------
(***************************************************************************)
(* backend/src/services/CircuitBreakerService.ts: one circuit and the calls*)
(* under way through it, whose answers come when the circuit may have      *)
(* changed, or be gone; with CircuitBreakerMonitorService.ts watching it.  *)
(***************************************************************************)
EXTENDS Circuit

CONSTANTS
    Call,
    NoCircuit,          \* the map has no entry
    alertInterval,      \* 5 minutes
    highFailures,       \* 3, of the 5 that open a circuit
    maxAlertHistory,
    MaxTime, MaxOpens   \* bounds on time and on the openings by hand

VARIABLES
    now,
    circuit,        \* the entry of the map
    calls,          \* "idle", "flying", or "orphan": its circuit was removed
    opens,          \* how often open() was called
    alertHistory,   \* the monitor's, as records of state and timestamp
    outage          \* history of one that is not over: when the circuit opened
                    \* last, and how many calls answered well since

breakerVars == <<now, circuit, calls, opens, alertHistory, outage>>

Quiet == [since |-> 0, good |-> 0]

Init ==
    /\ now = 0
    /\ circuit = NoCircuit
    /\ calls = [c \in Call |-> "idle"]
    /\ opens = 0
    /\ alertHistory = <<>>
    /\ outage = Quiet

Exists == circuit # NoCircuit
GetOrCreate == IF Exists THEN circuit ELSE NewCircuit

(* execute: the circuit is looked at and the call leaves, or is refused.    *)
Execute(c) ==
    /\ calls[c] = "idle"
    /\ IF Refuses(GetOrCreate, now)
         THEN circuit' = Cleaned(circuit, now) /\ UNCHANGED calls
         ELSE /\ circuit' = Admitted(GetOrCreate, now)
              /\ calls' = [calls EXCEPT ![c] = "flying"]
    /\ UNCHANGED <<now, opens, alertHistory, outage>>

(* What an answer makes of the outage.                                      *)
Noted(ok) ==
    IF circuit'.state = "CLOSED" THEN Quiet
    ELSE IF circuit.state # "OPEN" /\ circuit'.state = "OPEN" THEN [since |-> now, good |-> 0]
    ELSE IF ok THEN [outage EXCEPT !.good = @ + 1]
    ELSE outage

(* execute, after the await: the record of a removed circuit is lost.       *)
Answer(c, ok) ==
    /\ calls[c] # "idle"
    /\ calls' = [calls EXCEPT ![c] = "idle"]
    /\ circuit' = IF calls[c] = "orphan" THEN circuit
                  ELSE IF ok THEN Succeeded(circuit) ELSE Failed(circuit, now)
    /\ outage' = IF calls[c] = "orphan" THEN outage ELSE Noted(ok)
    /\ UNCHANGED <<now, opens, alertHistory>>

Reset ==
    /\ Exists
    /\ circuit' = ResetCircuit(circuit)
    /\ outage' = Quiet
    /\ UNCHANGED <<now, calls, opens, alertHistory>>

Open ==
    /\ Exists
    /\ opens < MaxOpens
    /\ opens' = opens + 1
    /\ circuit' = Opened(circuit, now)
    /\ outage' = [since |-> now, good |-> 0]
    /\ UNCHANGED <<now, calls, alertHistory>>

Remove ==
    /\ Exists
    /\ circuit' = NoCircuit
    /\ calls' = [c \in Call |-> IF calls[c] = "flying" THEN "orphan" ELSE calls[c]]
    /\ outage' = Quiet
    /\ UNCHANGED <<now, opens, alertHistory>>

IsOpen ==
    /\ Exists
    /\ circuit' = Cleaned(circuit, now)
    /\ UNCHANGED <<now, calls, opens, alertHistory, outage>>

-----------------------------------------------------------------------------
(* checkAllCircuits: the statistics are read without forgetting old failures.*)
Alarming ==
    /\ Exists
    /\ circuit.state = "CLOSED" => circuit.failures >= highFailures

RecentAlert ==
    \E i \in DOMAIN alertHistory :
        /\ alertHistory[i].state = circuit.state
        /\ now - alertHistory[i].timestamp < alertInterval

(* generateAlert: the oldest alert goes when the history is full.           *)
Recorded(alert) ==
    LET h == Append(alertHistory, alert)
    IN  IF Len(h) > maxAlertHistory THEN Tail(h) ELSE h

CheckAllCircuits ==
    /\ Alarming /\ ~RecentAlert
    /\ alertHistory' = Recorded([state |-> circuit.state, timestamp |-> now])
    /\ UNCHANGED <<now, circuit, calls, opens, outage>>

ClearAlertHistory ==
    /\ alertHistory # <<>>
    /\ alertHistory' = <<>>
    /\ UNCHANGED <<now, circuit, calls, opens, outage>>

Tick ==
    /\ now < MaxTime
    /\ now' = now + 1
    /\ UNCHANGED <<circuit, calls, opens, alertHistory, outage>>

Next ==
    \/ \E c \in Call : Execute(c) \/ \E ok \in BOOLEAN : Answer(c, ok)
    \/ Reset \/ Open \/ Remove \/ IsOpen
    \/ CheckAllCircuits \/ ClearAlertHistory
    \/ Tick

Spec == Init /\ [][Next]_breakerVars

-----------------------------------------------------------------------------
(* An outage runs its course.  From the opening on nobody is let in before   *)
(* the timeout is over, and everybody from then on: answers that come late   *)
(* while it is OPEN do not move that time.  Answers close the circuit only   *)
(* in HALF_OPEN and only when successThreshold calls have answered well      *)
(* since it opened last.  Who those calls were the code does not ask: an     *)
(* answer to a call of before the opening counts towards closing, and a late *)
(* failure in HALF_OPEN opens the circuit anew.                              *)
Answered == \E c \in Call : calls[c] = "flying" /\ calls'[c] = "idle"
OutageRunsItsCourse ==
    Exists /\ circuit.state # "CLOSED" =>
        /\ Refuses(circuit, now) <=> now < outage.since + timeout
        /\ Answered /\ circuit'.state = "CLOSED" =>
              circuit.state = "HALF_OPEN" /\ outage.good + 1 >= successThreshold
=============================================================================
