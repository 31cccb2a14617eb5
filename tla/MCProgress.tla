----------------------------- MODULE MCProgress -----------------------------
(***************************************************************************)
(* What the backend must eventually do, for TLC: the load balancer, the    *)
(* retries, the execution of tasks and the watchers, which share no state, *)
(* so that a behavior looks at one of them.  Each is fair to its own part  *)
(* only: timers fire, and a live process goes on.                          *)
(***************************************************************************)
EXTENDS Monitors, Sequences, TLAPS

CONSTANTS a, b, none

VARIABLES
    part,           \* the one looked at
    providers, answering, failures, responseTime, timer, probes,    \* LoadBalancer
    target, attempts, works,
    config, pc, attempt, delay, unfinished,                \* RetryPolicy
    active, gone, execs, used, job, attemptsMade, stalls,           \* TaskExecution
    deadLetters, step, host, life, executing, workers, untold

lbVars == <<providers, answering, failures, responseTime, timer, probes,
            target, attempts, works>>
retryVars == <<config, pc, attempt, delay, unfinished>>
execVars == <<active, gone, execs, used, job, attemptsMade, stalls,
              deadLetters, step, host, life, executing, workers, untold>>
progressVars == <<part, lbVars, retryVars, execVars, monitorVars>>

Bal == INSTANCE LoadBalancer WITH
    Provider <- {a, b}, Caller <- {none}, InitProviders <- <<a, b>>, ResponseTimes <- {1, 2},
    maxFailures <- 2, NoProvider <- none, isHealthy <- answering

Backoff(strategy, jitter, timed, listed) ==
    [maxAttempts |-> 3, initialDelay |-> 2, maxDelay |-> 3, strategy |-> strategy,
     jitterType |-> jitter, backoffMultiplier |-> 2, timeout |-> timed, onlyListed |-> listed]
Untimed == Backoff("FIXED", "NONE", FALSE, FALSE)
Ret == INSTANCE RetryPolicy WITH
    Configs <- {Untimed} \cup
               {Backoff("EXPONENTIAL", j, TRUE, l) :
                   j \in {"NONE", "FULL", "EQUAL", "DECORRELATED"}, l \in BOOLEAN} \cup
               {Backoff(s, "EQUAL", TRUE, FALSE) : s \in {"LINEAR", "FIXED", "FIBONACCI"}},
    running <- unfinished

(* Two processes, a task and one row.  Dependencies only decide whether a   *)
(* row is made, which here may happen or not in any case.                   *)
Exe == INSTANCE TaskExecution WITH
    Node <- {a, b}, Task <- {"t1"}, Exec <- {"e"}, Dependency <- {},
    Handled <- {"t1"}, Concurrency <- 1, Attempts <- 2, MaxStalls <- 1,
    NoExec <- none, NoNode <- none, running <- executing

ProgressInit ==
    /\ part \in {"balancer", "retries", "tasks", "watchers"}
    /\ Bal!Init /\ Ret!Init /\ Exe!Init /\ Init
    /\ part # "balancer" => \A p \in {a, b} : ~works[p]
    /\ part # "retries" => config = Untimed
    /\ part # "tasks" => active["t1"]
    /\ part # "watchers" => running["monitor"]

ProgressNext ==
    /\ UNCHANGED part
    /\ \/ part = "balancer" /\ Bal!Next /\ UNCHANGED <<retryVars, execVars, monitorVars>>
       \/ part = "retries" /\ Ret!Next /\ UNCHANGED <<lbVars, execVars, monitorVars>>
       \/ part = "tasks" /\ Exe!Next /\ UNCHANGED <<lbVars, retryVars, monitorVars>>
       \/ part = "watchers" /\ Next /\ UNCHANGED <<lbVars, retryVars, execVars>>

(* The fairness of the four, each while it is the one that runs.            *)
ProgressFairness ==
    /\ WF_lbVars(part = "balancer" /\ Bal!Checking)
    /\ WF_retryVars(part = "retries" /\ Ret!Timeout)
    /\ WF_retryVars(part = "retries" /\ Ret!Retry)
    /\ \A n \in {a, b} : WF_execVars(part = "tasks" /\ Exe!StartNode(n))
    /\ \A e \in {"e"} :
          /\ WF_execVars(part = "tasks" /\ \E n \in {a, b} : Exe!TakeJob(n, e))
          /\ WF_execVars(part = "tasks" /\ Exe!Proceed(e))
          /\ WF_execVars(part = "tasks" /\ Exe!HandlerFails(e))
          /\ WF_execVars(part = "tasks" /\ Exe!JobStalls(e))
    /\ WF_monitorVars(part = "watchers" /\ Checking)
    /\ WF_monitorVars(part = "watchers" /\ LagChecking)
    /\ WF_monitorVars(part = "watchers" /\ Monitoring)

ProgressSpec == ProgressInit /\ [][ProgressNext]_progressVars /\ ProgressFairness

(* LoadBalancer: a provider that works again is used again.                 *)
RecoveredIsUsed == Bal!RecoveredIsUsed

(* RetryPolicy: with a timeout, a result is reported whatever hangs.        *)
EndsDespiteHangs == Ret!EndsDespiteHangs

(* TaskExecution: every queued job ends, and its row tells how.             *)
JobsEnd == Exe!JobsEnd
RowsTellTheOutcome == Exe!RowsTellTheOutcome

-----------------------------------------------------------------------------
(* Beside the balancer, the retries and the watchers the tasks are those of *)
(* TaskExecution, whose invariant holds of any processes and executions.    *)
(* Hence: the row of an execution tells how its job ended.                  *)
THEOREM OutcomesStayTold == ProgressSpec => []RowsTellTheOutcome
<1>1. ProgressInit => Exe!Attempting
  BY Exe!AttemptsBegin DEF ProgressInit
<1>2. Exe!Attempting /\ [ProgressNext]_progressVars => Exe!Attempting'
  <2> SUFFICES ASSUME [ProgressNext]_progressVars PROVE Exe!Next \/ UNCHANGED Exe!execVars
    BY Exe!AttemptsGoOn
  <2> QED
    BY DEF ProgressNext, progressVars, execVars, Exe!execVars, Exe!taskVars, Exe!queueVars, Exe!nodeVars
<1>3. Exe!Attempting => RowsTellTheOutcome
  BY Exe!AttemptsTell DEF RowsTellTheOutcome
<1> QED
  BY <1>1, <1>2, <1>3, PTL DEF ProgressSpec
=============================================================================
