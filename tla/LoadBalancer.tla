---------------------------- MODULE LoadBalancer ----------------------------
(***************************************************************************)
(* backend/src/services/RPCLoadBalancer.ts: calls that fail over between   *)
(* providers, and the health checks that re-arm their own timer.  Whether  *)
(* a provider works is up to it.                                           *)
(***************************************************************************)
EXTENDS Integers, Sequences

CONSTANTS
    Provider, Caller,
    InitProviders,      \* in the order of their priorities
    ResponseTimes,      \* what an answer can take
    maxFailures,
    NoProvider

VARIABLES
    providers,          \* the list; a provider added later comes last
    isHealthy, failures, responseTime,
    timer,              \* of the health checks: "armed", "checking", "off"
    probes,             \* the providers a check under way still waits for
    target, attempts,   \* of each call: the provider asked, the attempts left
    works               \* the environment: which providers answer

statVars == <<isHealthy, failures, responseTime>>
callVars == <<target, attempts>>
lbVars == <<providers, statVars, timer, probes, callVars, works>>

Listed == {providers[i] : i \in DOMAIN providers}

Init ==
    /\ providers = InitProviders
    /\ isHealthy = [p \in Provider |-> TRUE]
    /\ failures = [p \in Provider |-> 0]
    /\ responseTime = [p \in Provider |-> 0]
    /\ timer = "off"
    /\ probes = {}
    /\ target = [c \in Caller |-> NoProvider]
    /\ attempts = [c \in Caller |-> 0]
    /\ works \in [Provider -> BOOLEAN]

MutKeepFailures(p, success, time) ==
    IF success
      THEN /\ responseTime' = [responseTime EXCEPT ![p] = time]
           /\ isHealthy' = [isHealthy EXCEPT ![p] = failures[p] < maxFailures]
           /\ UNCHANGED failures
      ELSE LET n == IF failures[p] < maxFailures THEN failures[p] + 1 ELSE failures[p]
           IN  /\ failures' = [failures EXCEPT ![p] = n]
               /\ isHealthy' = [isHealthy EXCEPT ![p] = @ /\ n < maxFailures]
               /\ UNCHANGED responseTime
(* updateProviderStats, of a provider still in the list.  The count stops   *)
(* at maxFailures, beyond which nothing tells counts apart.                 *)
UpdateProviderStats(p, success, time) ==
    IF success
      THEN /\ responseTime' = [responseTime EXCEPT ![p] = time]
           /\ failures' = [failures EXCEPT ![p] = 0]
           /\ isHealthy' = [isHealthy EXCEPT ![p] = TRUE]
      ELSE LET n == IF failures[p] < maxFailures THEN failures[p] + 1 ELSE failures[p]
           IN  /\ failures' = [failures EXCEPT ![p] = n]
               /\ isHealthy' = [isHealthy EXCEPT ![p] = @ /\ n < maxFailures]
               /\ UNCHANGED responseTime

Noted(p, success) ==
    IF p \in Listed
      THEN \E time \in ResponseTimes : UpdateProviderStats(p, success, time)
      ELSE UNCHANGED statVars

(* getBestProvider: the first of the fastest healthy ones.  A provider that *)
(* never answered has the time 0, and a failure does not change the time.   *)
Best ==
    LET healthy == {i \in DOMAIN providers : isHealthy[providers[i]]}
        better(i, j) ==
            \/ responseTime[providers[i]] < responseTime[providers[j]]
            \/ responseTime[providers[i]] = responseTime[providers[j]] /\ i < j
    IN  IF healthy = {} THEN NoProvider
        ELSE providers[CHOOSE i \in healthy : \A j \in healthy \ {i} : better(i, j)]

MakeRPCCall(c) ==
    /\ target[c] = NoProvider /\ attempts[c] = 0
    /\ Best # NoProvider
    /\ target' = [target EXCEPT ![c] = Best]
    /\ attempts' = [attempts EXCEPT ![c] = Len(providers) - 1]
    /\ UNCHANGED <<providers, statVars, timer, probes, works>>

(* The answer; after a failure the loop goes on to the best provider of now.*)
Answer(c) ==
    LET p == target[c]
    IN  /\ p # NoProvider
        /\ Noted(p, works[p])
        /\ target' = [target EXCEPT ![c] = NoProvider]
        /\ attempts' = IF works[p] THEN [attempts EXCEPT ![c] = 0] ELSE attempts
        /\ UNCHANGED <<providers, timer, probes, works>>

NextAttempt(c) ==
    /\ target[c] = NoProvider /\ attempts[c] > 0
    /\ IF Best = NoProvider
         THEN attempts' = [attempts EXCEPT ![c] = 0] /\ UNCHANGED target
         ELSE /\ target' = [target EXCEPT ![c] = Best]
              /\ attempts' = [attempts EXCEPT ![c] = @ - 1]
    /\ UNCHANGED <<providers, statVars, timer, probes, works>>

(* start, and the timer: every provider of the list is asked at once.       *)
Start ==
    /\ timer = "off"
    /\ timer' = "checking"
    /\ probes' = Listed
    /\ UNCHANGED <<providers, statVars, callVars, works>>

CheckHealth ==
    /\ timer = "armed"
    /\ timer' = "checking"
    /\ probes' = Listed
    /\ UNCHANGED <<providers, statVars, callVars, works>>

ProbeAnswer(p) ==
    /\ timer = "checking"
    /\ p \in probes
    /\ probes' = probes \ {p}
    /\ Noted(p, works[p])
    /\ UNCHANGED <<providers, timer, callVars, works>>

(* All have answered: the timer is armed again, even after a stop, which    *)
(* clears an armed timer and cannot clear one that is not armed yet.        *)
Rearm ==
    /\ timer = "checking" /\ probes = {}
    /\ timer' = "armed"
    /\ UNCHANGED <<providers, statVars, probes, callVars, works>>

Stop ==
    /\ timer = "armed"
    /\ timer' = "off"
    /\ UNCHANGED <<providers, statVars, probes, callVars, works>>

AddProvider(p) ==
    /\ p \notin Listed
    /\ providers' = Append(providers, p)
    /\ isHealthy' = [isHealthy EXCEPT ![p] = TRUE]
    /\ failures' = [failures EXCEPT ![p] = 0]
    /\ responseTime' = [responseTime EXCEPT ![p] = 0]
    /\ UNCHANGED <<timer, probes, callVars, works>>

RemoveProvider(p) ==
    /\ p \in Listed
    /\ LET other(q) == q # p IN providers' = SelectSeq(providers, other)
    /\ UNCHANGED <<statVars, timer, probes, callVars, works>>

(* A provider breaks down or comes back.                                    *)
Turn(p) ==
    /\ works' = [works EXCEPT ![p] = ~@]
    /\ UNCHANGED <<providers, statVars, timer, probes, callVars>>

Checking == CheckHealth \/ (\E p \in Provider : ProbeAnswer(p)) \/ Rearm

Next ==
    \/ \E c \in Caller : MakeRPCCall(c) \/ Answer(c) \/ NextAttempt(c)
    \/ Start \/ CheckHealth \/ Rearm \/ Stop
    \/ \E p \in Provider : ProbeAnswer(p) \/ AddProvider(p) \/ RemoveProvider(p) \/ Turn(p)

(* The timers of the process fire and its requests are answered or time out.*)
Fairness == WF_lbVars(Checking)

Spec == Init /\ [][Next]_lbVars /\ Fairness

-----------------------------------------------------------------------------
(* startHealthChecks: while the checks run, a provider of the list that     *)
(* works again is used again, and stays in use, whatever failed before.     *)
RecoveredIsUsed ==
    \A p \in Provider :
        <>[](works[p] /\ p \in Listed /\ timer # "off") => <>[]isHealthy[p]
=============================================================================
