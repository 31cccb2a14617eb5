---------------------------- MODULE TaskExecution ----------------------------
(***************************************************************************)
(* backend/src/services/TaskSchedulerService.ts, the part that runs tasks: *)
(* a cron tick creates an execution and queues a job, a worker takes it,   *)
(* and the Bull queue retries it.  DistributedExecutionService.ts watches  *)
(* the workers.  A node is one life of a process: its id is never reused.  *)
(***************************************************************************)
EXTENDS Integers, FiniteSets, TLAPS

CONSTANTS
    Node, Task, Exec,
    Dependency,     \* the table: records with task, on and type
    Handled,        \* the tasks whose type has a handler
    Concurrency,    \* TASK_MAX_CONCURRENCY
    Attempts,       \* of MessageQueueService's defaultJobOptions
    MaxStalls,      \* how often Bull takes a job back from a dead worker
    NoExec, NoNode

VARIABLES
    active,         \* isActive of each task; a deleted one is in gone
    gone,
    execs,          \* rows: the task and the status, or NoExec
    used,           \* the ids given
    job,            \* of the queue: "none", "waiting", "active", "completed", "failed"
    attemptsMade, stalls,
    deadLetters,    \* the jobs sent to the dead-letter queue
    step, host,     \* where the work on an execution is, and the node it is on
    life,           \* of a node: "unborn", "up", "dead"
    running,        \* runningExecutions of each node
    workers,        \* rows: the status, the load, whether the heartbeat is recent
    untold          \* history: executions whose last failure could not be written

queueVars == <<job, attemptsMade, stalls, deadLetters>>
nodeVars == <<life, running, workers>>
taskVars == <<active, gone>>
execVars == <<taskVars, execs, used, queueVars, step, host, nodeVars, untold>>

Exists(e) == execs[e] # NoExec
SetStatus(e, status) == execs' = [execs EXCEPT ![e].status = status]
At(e, s) == step[e] = s /\ life[host[e]] = "up"
SetLoad(n, load) == workers' = [workers EXCEPT ![n].load = load]
Finished(t) == {e \in Exec : Exists(e) /\ execs[e].task = t /\ execs[e].status = "COMPLETED"}

(* checkTaskDependencies looks at COMPLETED executions only.                *)
CheckTaskDependencies(t) ==
    \A d \in Dependency : d.task = t /\ d.on \notin gone =>
        Finished(d.on) # {} /\ d.type # "FAILURE"

Init ==
    /\ active \in [Task -> BOOLEAN]
    /\ gone = {}
    /\ execs = [e \in Exec |-> NoExec]
    /\ used = {}
    /\ job = [e \in Exec |-> "none"]
    /\ attemptsMade = [e \in Exec |-> 0]
    /\ stalls = [e \in Exec |-> 0]
    /\ deadLetters = {}
    /\ step = [e \in Exec |-> "none"]
    /\ host = [e \in Exec |-> NoNode]
    /\ life = [n \in Node |-> "unborn"]
    /\ running = [n \in Node |-> {}]
    /\ workers = [n \in Node |-> [status |-> "none", load |-> 0, recent |-> FALSE]]
    /\ untold = {}

-----------------------------------------------------------------------------
(* Nodes.                                                                   *)

(* initializeWorkerNode, and cleanupOfflineWorkers of whatever rows of dead *)
(* nodes have been OFFLINE for a day.                                       *)
StartNode(n) ==
    /\ life[n] = "unborn"
    /\ life' = [life EXCEPT ![n] = "up"]
    /\ \E old \in SUBSET {m \in Node : life[m] = "dead" /\ workers[m].status = "OFFLINE"} :
          workers' = [m \in Node |->
              CASE m = n     -> [status |-> "ONLINE", load |-> 0, recent |-> TRUE]
                [] m \in old -> [workers[m] EXCEPT !.status = "none"]
                [] OTHER     -> workers[m]]
    /\ UNCHANGED <<taskVars, execs, used, queueVars, step, host, running, untold>>

(* The last node stays up.                                                  *)
Crash(n) ==
    /\ life[n] = "up" /\ \E m \in Node \ {n} : life[m] # "dead"
    /\ life' = [life EXCEPT ![n] = "dead"]
    /\ running' = [running EXCEPT ![n] = {}]
    /\ UNCHANGED <<taskVars, execs, used, queueVars, step, host, workers, untold>>

(* startHeartbeat: the status is not among what it writes.                  *)
Heartbeat(n) ==
    /\ life[n] = "up"
    /\ workers' = [workers EXCEPT ![n].recent = TRUE, ![n].load = Cardinality(running[n])]
    /\ UNCHANGED <<taskVars, execs, used, queueVars, step, host, life, running, untold>>

(* Five minutes without a heartbeat: the process is dead or blocked.        *)
HeartbeatAges(n) ==
    /\ workers[n].recent
    /\ workers' = [workers EXCEPT ![n].recent = FALSE]
    /\ UNCHANGED <<taskVars, execs, used, queueVars, step, host, life, running, untold>>

CheckWorkerHealth(n) ==
    /\ life[n] = "up"
    /\ workers' = [m \in Node |->
           IF workers[m].status = "ONLINE" /\ ~workers[m].recent
             THEN [workers[m] EXCEPT !.status = "OFFLINE"] ELSE workers[m]]
    /\ UNCHANGED <<taskVars, execs, used, queueVars, step, host, life, running, untold>>

-----------------------------------------------------------------------------
(* A tick of a cron job.                                                    *)

(* executeTask up to the row.                                               *)
CreateExecution(n, t, e) ==
    /\ life[n] = "up" /\ t \notin gone /\ active[t] /\ CheckTaskDependencies(t)
    /\ e \notin used
    /\ used' = used \cup {e}
    /\ execs' = [execs EXCEPT ![e] = [task |-> t, status |-> "PENDING"]]
    /\ step' = [step EXCEPT ![e] = "queueing"]
    /\ host' = [host EXCEPT ![e] = n]
    /\ UNCHANGED <<taskVars, queueVars, nodeVars, untold>>

(* queueTaskExecution; an error of the queue is only logged.                *)
QueueTaskExecution(e, ok) ==
    /\ At(e, "queueing")
    /\ job' = IF ok THEN [job EXCEPT ![e] = "waiting"] ELSE job
    /\ step' = [step EXCEPT ![e] = "none"]
    /\ UNCHANGED <<taskVars, execs, used, attemptsMade, stalls, deadLetters, host, nodeVars, untold>>

SetActive(t) ==
    /\ t \notin gone
    /\ active' = [active EXCEPT ![t] = ~@]
    /\ UNCHANGED <<gone, execs, used, queueVars, step, host, nodeVars, untold>>

(* deleteTask: the executions go with the task, the jobs stay.              *)
DeleteTask(t) ==
    /\ t \notin gone
    /\ gone' = gone \cup {t}
    /\ execs' = [e \in Exec |-> IF Exists(e) /\ execs[e].task = t THEN NoExec ELSE execs[e]]
    /\ UNCHANGED <<active, used, queueVars, step, host, nodeVars, untold>>

-----------------------------------------------------------------------------
(* processTaskExecution.                                                    *)

TakeJob(n, e) ==
    /\ life[n] = "up" /\ job[e] = "waiting"
    /\ Cardinality({f \in Exec : job[f] = "active" /\ host[f] = n}) < Concurrency
    /\ job' = [job EXCEPT ![e] = "active"]
    /\ step' = [step EXCEPT ![e] = "taken"]
    /\ host' = [host EXCEPT ![e] = n]
    /\ UNCHANGED <<taskVars, execs, used, attemptsMade, stalls, deadLetters, nodeVars, untold>>

(* The row is RUNNING and the load written; the execution is counted twice, *)
(* in the map and in the delta.  A missing row throws, as any error does.   *)
BeginExecution(e, ok) ==
    LET n == host[e]
    IN  /\ At(e, "taken")
        /\ IF Exists(e) /\ ok
             THEN /\ SetStatus(e, "RUNNING")
                  /\ running' = [running EXCEPT ![n] = @ \cup {e}]
                  /\ SetLoad(n, Cardinality(running'[n]) + 1)
                  /\ step' = [step EXCEPT ![e] = "handling"]
             ELSE /\ step' = [step EXCEPT ![e] = "caught"]
                  /\ UNCHANGED <<execs, running, workers>>
        /\ UNCHANGED <<taskVars, used, queueVars, host, life, untold>>

(* The handler is done: the row is COMPLETED, if that can be written.       *)
HandlerReturns(e, ok) ==
    /\ At(e, "handling")
    /\ Exists(e) => execs[e].task \in Handled
    /\ IF Exists(e) /\ ok
         THEN SetStatus(e, "COMPLETED") /\ step' = [step EXCEPT ![e] = "stored"]
         ELSE step' = [step EXCEPT ![e] = "caught"] /\ UNCHANGED execs
    /\ UNCHANGED <<taskVars, used, queueVars, host, nodeVars, untold>>

(* The counters of the task and of the worker are written in the same try:  *)
(* without one of their rows the execution that was COMPLETED fails.        *)
CountSuccess(e, ok) ==
    /\ At(e, "stored")
    /\ step' = [step EXCEPT ![e] =
           IF Exists(e) /\ workers[host[e]].status # "none" /\ ok THEN "returned" ELSE "caught"]
    /\ UNCHANGED <<taskVars, execs, used, queueVars, host, nodeVars, untold>>

MutNoTimer(e) ==
    /\ At(e, "handling")
    /\ Exists(e) => execs[e].task \notin Handled
    /\ step' = [step EXCEPT ![e] = "caught"]
    /\ UNCHANGED <<taskVars, execs, used, queueVars, host, nodeVars, untold>>
(* There is no handler, the handler throws, or executeWithTimeout rejects   *)
(* (the handler goes on, unheard).                                          *)
HandlerFails(e) ==
    /\ At(e, "handling")
    /\ step' = [step EXCEPT ![e] = "caught"]
    /\ UNCHANGED <<taskVars, execs, used, queueVars, host, nodeVars, untold>>

MutSwallow(e, ok) ==
    /\ At(e, "caught")
    /\ IF Exists(e) /\ ok THEN SetStatus(e, "FAILED") ELSE UNCHANGED execs
    /\ untold' = IF ok THEN untold \ {e} ELSE untold \cup {e}
    /\ step' = [step EXCEPT ![e] = "returned"]
    /\ UNCHANGED <<taskVars, used, queueVars, host, nodeVars>>
(* The catch block throws again, whether the row is FAILED, the counters    *)
(* after it are written or none of it can be.                               *)
StoreFailure(e, ok) ==
    /\ At(e, "caught")
    /\ IF Exists(e) /\ ok THEN SetStatus(e, "FAILED") ELSE UNCHANGED execs
    /\ untold' = IF ok THEN untold \ {e} ELSE untold \cup {e}
    /\ step' = [step EXCEPT ![e] = "threw"]
    /\ UNCHANGED <<taskVars, used, queueVars, host, nodeVars>>

(* Bull after a failed attempt, and the listener of MessageQueueService.    *)
FailJob(e, n, stalled) ==
    /\ attemptsMade' = [attemptsMade EXCEPT ![e] = n]
    /\ job' = [job EXCEPT ![e] = IF n >= Attempts \/ stalled THEN "failed" ELSE "waiting"]
    /\ deadLetters' = IF n >= Attempts THEN deadLetters \cup {e} ELSE deadLetters

(* The finally block, whose delta is again counted twice, and Bull's verdict*)
EndAttempt(e) ==
    LET n == host[e]
        size == Cardinality(running'[n])
    IN  /\ At(e, "returned") \/ At(e, "threw")
        /\ running' = [running EXCEPT ![n] = @ \ {e}]
        /\ SetLoad(n, IF size > 0 THEN size - 1 ELSE 0)
        /\ step' = [step EXCEPT ![e] = "none"]
        /\ IF step[e] = "returned"
             THEN /\ job' = [job EXCEPT ![e] = "completed"]
                  /\ UNCHANGED <<attemptsMade, deadLetters>>
             ELSE FailJob(e, attemptsMade[e] + 1, FALSE)
        /\ UNCHANGED <<taskVars, execs, used, stalls, host, life, untold>>

(* Bull finds the job of a dead worker.                                     *)
JobStalls(e) ==
    /\ job[e] = "active" /\ life[host[e]] = "dead"
    /\ \E n \in Node : life[n] = "up"
    /\ step' = [step EXCEPT ![e] = "none"]
    /\ IF stalls[e] < MaxStalls
         THEN /\ job' = [job EXCEPT ![e] = "waiting"]
              /\ stalls' = [stalls EXCEPT ![e] = @ + 1]
              /\ UNCHANGED <<attemptsMade, deadLetters>>
         ELSE /\ FailJob(e, attemptsMade[e] + 1, TRUE)
              /\ UNCHANGED stalls
    /\ UNCHANGED <<taskVars, execs, used, host, nodeVars, untold>>

(* What a live process does of itself: the database answers or fails.       *)
Proceed(e) ==
    \/ \E ok \in BOOLEAN : BeginExecution(e, ok) \/ CountSuccess(e, ok) \/ StoreFailure(e, ok)
    \/ EndAttempt(e)

Next ==
    \/ \E n \in Node : StartNode(n) \/ Crash(n) \/ Heartbeat(n) \/ HeartbeatAges(n)
                       \/ CheckWorkerHealth(n)
    \/ \E n \in Node, t \in Task, e \in Exec : CreateExecution(n, t, e)
    \/ \E e \in Exec, ok \in BOOLEAN : QueueTaskExecution(e, ok)
    \/ \E t \in Task : SetActive(t) \/ DeleteTask(t)
    \/ \E n \in Node, e \in Exec : TakeJob(n, e)
    \/ \E e \in Exec : Proceed(e) \/ HandlerFails(e) \/ JobStalls(e)
    \/ \E e \in Exec, ok \in BOOLEAN : HandlerReturns(e, ok)

(* A process comes up, a live node and the queue go on, and the timer of    *)
(* executeWithTimeout fires (so a handler ends or is abandoned).            *)
Fairness ==
    /\ \A n \in Node : WF_execVars(StartNode(n))
    /\ \A e \in Exec :
          /\ WF_execVars(\E n \in Node : TakeJob(n, e))
          /\ WF_execVars(Proceed(e))
          /\ WF_execVars(HandlerFails(e))
          /\ WF_execVars(JobStalls(e))
Spec == Init /\ [][Next]_execVars /\ Fairness

-----------------------------------------------------------------------------
(* Once the queue is done with a job, the row tells how it ended: the catch *)
(* block and Bull's retries agree, across the deletion of the task, errors  *)
(* of the database and a crash at any point.  Two failures leave whatever   *)
(* was written before: of a job that stalled too often, and of one whose    *)
(* last attempt could not write that it failed.  A job that is completed    *)
(* says so in any case.                                                     *)
RowsTellTheOutcome ==
    \A e \in Exec :
        /\ job[e] = "completed" /\ Exists(e) => execs[e].status = "COMPLETED"
        /\ job[e] = "failed" /\ Exists(e) /\ stalls[e] < MaxStalls /\ e \notin untold =>
               execs[e].status = "FAILED"
        /\ e \in deadLetters => job[e] = "failed"

(* Every queued job ends, whatever hangs, throws or crashes.                *)
JobsEnd == \A e \in Exec : job[e] = "waiting" ~> job[e] \in {"completed", "failed"}

(* "Number of currently running tasks"                                      *)
LoadIsRunning ==
    \A n \in Node : life[n] = "up" => workers[n].load = Cardinality(running[n])

(* A dependency on the failure of another task is met once that failed.     *)
FailureDependencyMet ==
    \A d \in Dependency, e \in Exec :
        /\ d.type = "FAILURE" /\ d.task \notin gone
        /\ Exists(e) /\ execs[e] = [task |-> d.on, status |-> "FAILED"] /\ job[e] = "failed"
        => CheckTaskDependencies(d.task)

-----------------------------------------------------------------------------
(* The proof.  A job is active exactly while a worker is on it; what the    *)
(* worker wrote last stands until Bull hears of it; and an execution        *)
(* nobody has queued has no job.                                            *)
Working == {"taken", "handling", "stored", "caught", "returned", "threw"}
Row == [task : Task, status : {"PENDING", "RUNNING", "COMPLETED", "FAILED"}]
ExecsTyped ==
    /\ execs = [e \in Exec |-> execs[e]]
    /\ job \in [Exec -> {"none", "waiting", "active", "completed", "failed"}]
    /\ stalls = [e \in Exec |-> stalls[e]]
    /\ step \in [Exec -> Working \cup {"none", "queueing"}]
    /\ deadLetters \subseteq Exec
Attempted(e) ==
    /\ Exists(e) => execs[e] \in Row
    /\ e \notin used => job[e] = "none" /\ step[e] = "none"
    /\ step[e] = "queueing" => job[e] = "none"
    /\ step[e] \in Working => job[e] = "active"
    /\ step[e] \in {"stored", "returned"} /\ Exists(e) => execs[e].status = "COMPLETED"
    /\ step[e] = "threw" /\ Exists(e) /\ e \notin untold => execs[e].status = "FAILED"
    /\ job[e] = "completed" /\ Exists(e) => execs[e].status = "COMPLETED"
    /\ job[e] = "failed" /\ Exists(e) /\ stalls[e] < MaxStalls /\ e \notin untold =>
           execs[e].status = "FAILED"
    /\ e \in deadLetters => job[e] = "failed"
Attempting == ExecsTyped /\ \A e \in Exec : Attempted(e)

(* What is stored of an execution is left as it was.                        *)
Rests(e) == /\ execs'[e] = execs[e] /\ job'[e] = job[e] /\ stalls'[e] = stalls[e]
            /\ step'[e] = step[e]
            /\ (e \in used' <=> e \in used) /\ (e \in deadLetters' <=> e \in deadLetters)
            /\ (e \in untold' <=> e \in untold)

LEMMA RestsAttempted ==
    ASSUME NEW e \in Exec, Attempted(e), Rests(e)
    PROVE  Attempted(e)'
BY DEF Attempted, Rests, Exists

(* A step of one execution leaves the others as they are.                   *)
LEMMA OneAttempted ==
    ASSUME Attempting, ExecsTyped', NEW e \in Exec, Attempted(e)', \A f \in Exec \ {e} : Rests(f)
    PROVE  Attempting'
<1>1. ASSUME NEW f \in Exec PROVE Attempted(f)'
  BY RestsAttempted DEF Attempting
<1> QED
  BY <1>1 DEF Attempting

LEMMA CreationAttempted ==
    ASSUME Attempting, NEW n \in Node, NEW t \in Task, NEW e \in Exec, CreateExecution(n, t, e)
    PROVE  Attempting'
<1> USE DEF Attempting, ExecsTyped
<1>1. /\ e \notin used /\ used' = used \cup {e}
      /\ execs' = [execs EXCEPT ![e] = [task |-> t, status |-> "PENDING"]]
      /\ step' = [step EXCEPT ![e] = "queueing"]
      /\ UNCHANGED <<job, stalls, deadLetters, untold>>
  BY DEF CreateExecution, queueVars
<1>2. /\ ExecsTyped'
      /\ \A f \in Exec \ {e} : Rests(f)
      /\ execs'[e] = [task |-> t, status |-> "PENDING"] /\ step'[e] = "queueing"
  BY <1>1 DEF Rests
<1>3. job'[e] = "none" /\ e \notin deadLetters'
  BY <1>1 DEF Attempted
<1>4. Attempted(e)'
  BY <1>1, <1>2, <1>3 DEF Attempted, Row, Exists, Working
<1> QED
  BY <1>2, <1>4, OneAttempted

LEMMA QueueingAttempted ==
    ASSUME Attempting, NEW e \in Exec, NEW ok \in BOOLEAN, QueueTaskExecution(e, ok)
    PROVE  Attempting'
<1> USE DEF Attempting, ExecsTyped
<1>1. /\ step[e] = "queueing" /\ step' = [step EXCEPT ![e] = "none"]
      /\ job' = IF ok THEN [job EXCEPT ![e] = "waiting"] ELSE job
      /\ UNCHANGED <<execs, stalls, used, deadLetters, untold>>
  BY DEF QueueTaskExecution, At
<1>2. /\ ExecsTyped'
      /\ \A f \in Exec \ {e} : Rests(f)
      /\ step'[e] = "none" /\ job'[e] \in {"none", "waiting"}
  BY <1>1 DEF Rests, Attempted
<1>3. Attempted(e)'
  BY <1>1, <1>2 DEF Attempted, Exists, Working
<1> QED
  BY <1>2, <1>3, OneAttempted

LEMMA DeletionAttempted ==
    ASSUME Attempting, NEW t \in Task, DeleteTask(t)
    PROVE  Attempting'
<1> USE DEF Attempting, ExecsTyped
<1>1. /\ execs' = [e \in Exec |-> IF Exists(e) /\ execs[e].task = t THEN NoExec ELSE execs[e]]
      /\ UNCHANGED <<job, stalls, step, used, deadLetters, untold>>
  BY DEF DeleteTask, queueVars
<1>2. ExecsTyped'
  BY <1>1
<1>3. ASSUME NEW e \in Exec PROVE Attempted(e)'
  <2>1. execs'[e] = NoExec \/ execs'[e] = execs[e]
    BY <1>1
  <2> QED
    BY <1>1, <2>1 DEF Attempted, Exists
<1> QED
  BY <1>2, <1>3

LEMMA TakingAttempted ==
    ASSUME Attempting, NEW n \in Node, NEW e \in Exec, TakeJob(n, e)
    PROVE  Attempting'
<1> USE DEF Attempting, ExecsTyped
<1>1. /\ job[e] = "waiting" /\ job' = [job EXCEPT ![e] = "active"]
      /\ step' = [step EXCEPT ![e] = "taken"]
      /\ UNCHANGED <<execs, stalls, used, deadLetters, untold>>
  BY DEF TakeJob
<1>2. /\ ExecsTyped'
      /\ \A f \in Exec \ {e} : Rests(f)
      /\ step'[e] = "taken" /\ job'[e] = "active"
  BY <1>1 DEF Rests, Working
<1>3. e \in used /\ e \notin deadLetters
  BY <1>1 DEF Attempted
<1>4. Attempted(e)'
  BY <1>1, <1>2, <1>3 DEF Attempted, Exists
<1> QED
  BY <1>2, <1>4, OneAttempted

(* A worker at its execution writes a status, or nothing, and goes on.      *)
LEMMA WorkAttempted ==
    ASSUME Attempting, NEW e \in Exec, NEW ok \in BOOLEAN,
           \/ BeginExecution(e, ok) \/ HandlerReturns(e, ok) \/ CountSuccess(e, ok)
           \/ HandlerFails(e) \/ StoreFailure(e, ok)
    PROVE  Attempting'
<1> USE DEF Attempting, ExecsTyped
<1> DEFINE Writes(s) == Exists(e) /\ execs' = [execs EXCEPT ![e].status = s]
           Moves(s) == step' = [step EXCEPT ![e] = s]
<1>1. /\ step[e] \in Working
      /\ UNCHANGED <<job, stalls, used, deadLetters>>
      /\ \/ Writes("RUNNING") /\ Moves("handling") /\ UNCHANGED untold
         \/ Writes("COMPLETED") /\ Moves("stored") /\ UNCHANGED untold
         \/ UNCHANGED <<execs, untold>> /\ Moves("caught")
         \/ step[e] = "stored" /\ UNCHANGED <<execs, untold>> /\ Moves("returned")
         \/ Writes("FAILED") /\ Moves("threw") /\ untold' = untold \ {e}
         \/ ~Exists(e) /\ UNCHANGED execs /\ Moves("threw") /\ untold' = untold \ {e}
         \/ UNCHANGED execs /\ Moves("threw") /\ untold' = untold \cup {e}
  <2>1. CASE BeginExecution(e, ok)
    BY <2>1 DEF BeginExecution, SetStatus, At, queueVars, Working
  <2>2. CASE HandlerReturns(e, ok)
    BY <2>2 DEF HandlerReturns, SetStatus, At, queueVars, Working
  <2>3. CASE CountSuccess(e, ok)
    BY <2>3 DEF CountSuccess, At, queueVars, Working
  <2>4. CASE HandlerFails(e)
    BY <2>4 DEF HandlerFails, At, queueVars, Working
  <2>5. CASE StoreFailure(e, ok)
    BY <2>5 DEF StoreFailure, SetStatus, At, queueVars, Working
  <2> QED
    BY <2>1, <2>2, <2>3, <2>4, <2>5
<1>2. /\ execs' = [f \in Exec |-> execs'[f]] /\ \A f \in Exec \ {e} : execs'[f] = execs[f]
      /\ ~Exists(e) => execs'[e] = execs[e]
  BY <1>1 DEF Exists
<1>3. /\ step' \in [Exec -> Working \cup {"none", "queueing"}]
      /\ \A f \in Exec \ {e} : step'[f] = step[f]
      /\ step'[e] \in {"handling", "stored", "caught", "returned", "threw"}
  BY <1>1 DEF Working
<1>4. job[e] = "active" /\ e \in used /\ e \notin deadLetters
  BY <1>1 DEF Attempted, Working
<1>5. ASSUME NEW s \in {"RUNNING", "COMPLETED", "FAILED"}, Writes(s)
      PROVE  execs'[e] \in Row /\ execs'[e].status = s
  BY <1>5 DEF Row, Exists, Attempted
<1> HIDE DEF Writes
<1>6. ASSUME Exists(e), Exists(e)'
      PROVE  /\ execs'[e] \in Row
             /\ step'[e] \in {"stored", "returned"} => execs'[e].status = "COMPLETED"
             /\ step'[e] = "threw" /\ e \notin untold' => execs'[e].status = "FAILED"
  <2>1. execs[e] \in Row /\ (step[e] = "stored" => execs[e].status = "COMPLETED")
    BY <1>6 DEF Attempted
  <2> QED
    BY <1>1, <1>5, <1>6, <2>1
<1>7. Exists(e)' => Exists(e)
  BY <1>2 DEF Exists
<1>8. Attempted(e)'
  BY <1>1, <1>3, <1>4, <1>6, <1>7 DEF Attempted, Working
<1>9. ExecsTyped' /\ \A f \in Exec \ {e} : Rests(f)
  BY <1>1, <1>2, <1>3 DEF Rests
<1> QED
  BY <1>8, <1>9, OneAttempted

(* Bull hears of a failed attempt: the job waits again, or is over; it      *)
(* fails with less than all its stalls only if the worker threw.            *)
LEMMA FailureAttempted ==
    ASSUME Attempting, NEW e \in Exec, NEW n, NEW stalled \in BOOLEAN, FailJob(e, n, stalled),
           step[e] \in Working \/ job[e] = "active",
           stalled => ~(stalls[e] < MaxStalls), ~stalled => step[e] = "threw",
           step' = [step EXCEPT ![e] = "none"], UNCHANGED <<execs, stalls, used, untold>>
    PROVE  Attempting'
<1> USE DEF Attempting, ExecsTyped
<1>1. job[e] = "active" /\ e \in used /\ e \notin deadLetters
  BY DEF Attempted
<1>2. /\ job' = [job EXCEPT ![e] = IF n >= Attempts \/ stalled THEN "failed" ELSE "waiting"]
      /\ deadLetters' = IF n >= Attempts THEN deadLetters \cup {e} ELSE deadLetters
  BY DEF FailJob
<1>3. /\ ExecsTyped'
      /\ \A f \in Exec \ {e} : Rests(f)
      /\ step'[e] = "none"
      /\ job'[e] = "failed" \/ (job'[e] = "waiting" /\ e \notin deadLetters' /\ ~stalled)
  BY <1>1, <1>2 DEF Rests
<1>4. job'[e] = "failed" /\ Exists(e) /\ stalls[e] < MaxStalls /\ e \notin untold =>
          execs[e].status = "FAILED"
  BY DEF Attempted
<1>5. Attempted(e)'
  BY <1>1, <1>3, <1>4 DEF Attempted, Exists, Working
<1> QED
  BY <1>3, <1>5, OneAttempted

LEMMA EndAttempted ==
    ASSUME Attempting, NEW e \in Exec, EndAttempt(e)
    PROVE  Attempting'
<1> USE DEF Attempting, ExecsTyped
<1>1. /\ step' = [step EXCEPT ![e] = "none"] /\ UNCHANGED <<execs, stalls, used, untold>>
      /\ step[e] \in {"returned", "threw"}
  BY DEF EndAttempt, At
<1>2. CASE step[e] = "returned"
  <2>1. job' = [job EXCEPT ![e] = "completed"] /\ UNCHANGED deadLetters
    BY <1>2 DEF EndAttempt
  <2>2. e \in used /\ e \notin deadLetters /\ (Exists(e) => execs[e].status = "COMPLETED")
    BY <1>2 DEF Attempted, Working
  <2>3. /\ ExecsTyped'
        /\ \A f \in Exec \ {e} : Rests(f)
        /\ step'[e] = "none" /\ job'[e] = "completed"
    BY <1>1, <2>1 DEF Rests
  <2>4. Attempted(e)'
    BY <1>1, <2>1, <2>2, <2>3 DEF Attempted, Exists, Working
  <2> QED
    BY <2>3, <2>4, OneAttempted
<1>3. CASE step[e] = "threw"
  <2>1. FailJob(e, attemptsMade[e] + 1, FALSE)
    BY <1>3 DEF EndAttempt
  <2> QED
    BY <1>1, <1>3, <2>1, FailureAttempted DEF Working
<1> QED
  BY <1>1, <1>2, <1>3

LEMMA StallAttempted ==
    ASSUME Attempting, NEW e \in Exec, JobStalls(e)
    PROVE  Attempting'
<1> USE DEF Attempting, ExecsTyped
<1>1. /\ job[e] = "active" /\ step' = [step EXCEPT ![e] = "none"] /\ UNCHANGED <<execs, used, untold>>
  BY DEF JobStalls
<1>2. CASE stalls[e] < MaxStalls
  <2>1. /\ job' = [job EXCEPT ![e] = "waiting"] /\ stalls' = [stalls EXCEPT ![e] = @ + 1]
        /\ UNCHANGED deadLetters
    BY <1>2 DEF JobStalls
  <2>2. /\ ExecsTyped'
        /\ \A f \in Exec \ {e} : Rests(f)
        /\ step'[e] = "none" /\ job'[e] = "waiting"
    BY <1>1, <2>1 DEF Rests
  <2>3. e \in used /\ e \notin deadLetters
    BY <1>1 DEF Attempted
  <2>4. Attempted(e)'
    BY <1>1, <2>1, <2>2, <2>3 DEF Attempted, Exists, Working
  <2> QED
    BY <2>2, <2>4, OneAttempted
<1>3. CASE ~(stalls[e] < MaxStalls)
  <2>1. FailJob(e, attemptsMade[e] + 1, TRUE) /\ UNCHANGED stalls
    BY <1>3 DEF JobStalls
  <2> QED
    BY <1>1, <1>3, <2>1, FailureAttempted
<1> QED
  BY <1>2, <1>3

LEMMA AttemptsBegin == Init => Attempting
BY DEF Init, Attempting, ExecsTyped, Attempted, Exists, Working

LEMMA AttemptsGoOn == Attempting /\ [Next]_execVars => Attempting'
<1> SUFFICES ASSUME Attempting, [Next]_execVars PROVE Attempting'
  OBVIOUS
<1>1. ASSUME UNCHANGED <<execs, used, job, stalls, deadLetters, step, untold>> PROVE Attempting'
  BY <1>1 DEF Attempting, ExecsTyped, Attempted, Exists
<1>2. ASSUME NEW n \in Node, StartNode(n) \/ Crash(n) \/ Heartbeat(n) \/ HeartbeatAges(n)
                               \/ CheckWorkerHealth(n)
      PROVE  Attempting'
  BY <1>1, <1>2 DEF StartNode, Crash, Heartbeat, HeartbeatAges, CheckWorkerHealth, queueVars
<1>3. ASSUME NEW t \in Task, SetActive(t) PROVE Attempting'
  BY <1>1, <1>3 DEF SetActive, queueVars
<1>4. CASE UNCHANGED execVars
  BY <1>1, <1>4 DEF execVars, queueVars
<1> QED
  BY <1>2, <1>3, <1>4, CreationAttempted, QueueingAttempted, DeletionAttempted, TakingAttempted,
     WorkAttempted, EndAttempted, StallAttempted DEF Next, Proceed

LEMMA AttemptsTell == Attempting => RowsTellTheOutcome
BY DEF Attempting, Attempted, RowsTellTheOutcome

(* The row of an execution tells how its job ended, whatever is deleted,    *)
(* hangs, stalls or crashes: for any nodes, tasks, attempts and stalls.     *)
THEOREM OutcomesAreTold == Spec => []RowsTellTheOutcome
BY AttemptsBegin, AttemptsGoOn, AttemptsTell, PTL DEF Spec
=============================================================================
