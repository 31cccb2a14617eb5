---------------------------- MODULE TaskScheduler ----------------------------
(***************************************************************************)
(* backend/src/services/TaskSchedulerService.ts, the part that keeps cron  *)
(* jobs for the tasks of the database, with the calls of routes/tasks.ts   *)
(* and the start of every process (TaskHandlerIntegration.ts, index.ts).   *)
(* Each await of a call is a point where other calls run.  Nothing keeps   *)
(* the processes apart: they share the database only.                      *)
(***************************************************************************)
EXTENDS Integers, FiniteSets

CONSTANTS
    Node, Task, Call,
    BuiltIn,        \* the tasks migrateExistingCronJobs adds, in any order
    Custom,         \* the kind of any other task
    MaxStarts,      \* bound on the starts of processes
    MaxChanges,     \* bound on the calls that change a task
    NoTask, Deleted, NoCall

VARIABLES
    tasks,          \* the table: a record with the kind and isActive, NoTask for an
                    \* id not given yet, Deleted for one that never is again
    boot,           \* of a process: "down", "loading", "migrating", "ready"
    left,           \* what its start has still to schedule (tasks) or add (kinds)
    cron,           \* running CronJob objects, for each process and task
    cronJobs,       \* the tasks the map of a process has a job for
    calls,          \* calls of the API under way
    starts, changes,
    spoiled         \* history: tasks with a change that overlapped another, was refused,
                    \* was not stored, or was made while another process was up

schedVars == <<tasks, boot, left, cron, cronJobs, calls, starts, changes, spoiled>>

Row(k, a) == [kind |-> k, isActive |-> a]
Rows == {t \in Task : tasks[t] \notin {NoTask, Deleted}}
Fresh == {t \in Task : tasks[t] = NoTask}
OnTask(n, t) == {c \in Call : calls[c] # NoCall /\ calls[c].node = n /\ calls[c].task = t}

Init ==
    /\ tasks = [t \in Task |-> NoTask]
    /\ boot = [n \in Node |-> "down"]
    /\ left = [n \in Node |-> {}]
    /\ cron = [n \in Node |-> [t \in Task |-> 0]]
    /\ cronJobs = [n \in Node |-> {}]
    /\ calls = [c \in Call |-> NoCall]
    /\ starts = 0
    /\ changes = 0
    /\ spoiled = {}

(* A write of the task by one process, of which no other one hears.         *)
Changed(n, t) ==
    spoiled' = IF \E m \in Node \ {n} : boot[m] # "down" THEN spoiled \cup {t} ELSE spoiled

(* scheduleTask after its write: a new CronJob, known under the task.       *)
CreateJob(n, t) ==
    /\ cron' = [cron EXCEPT ![n][t] = @ + 1]
    /\ cronJobs' = [cronJobs EXCEPT ![n] = @ \cup {t}]

MutForgetJob(n, t) ==
    /\ cron' = cron
    /\ cronJobs' = [cronJobs EXCEPT ![n] = @ \ {t}]
(* The job the map has for the task is stopped and removed from it.         *)
StopJob(n, t) ==
    /\ cron' = [cron EXCEPT ![n][t] = IF t \in cronJobs[n] THEN @ - 1 ELSE @]
    /\ cronJobs' = [cronJobs EXCEPT ![n] = @ \ {t}]

Down(n) ==
    /\ boot' = [boot EXCEPT ![n] = "down"]
    /\ left' = [left EXCEPT ![n] = {}]
    /\ cron' = [cron EXCEPT ![n] = [t \in Task |-> 0]]
    /\ cronJobs' = [cronJobs EXCEPT ![n] = {}]
    /\ calls' = [c \in Call |->
                    IF calls[c] # NoCall /\ calls[c].node = n THEN NoCall ELSE calls[c]]

-----------------------------------------------------------------------------
(* startServer: start, then migrateExistingCronJobs, then listening.        *)

Start(n) ==
    /\ boot[n] = "down" /\ starts < MaxStarts
    /\ starts' = starts + 1
    /\ boot' = [boot EXCEPT ![n] = "loading"]
    /\ left' = [left EXCEPT ![n] = {t \in Rows : tasks[t].isActive}]
    /\ spoiled' = IF \A m \in Node : boot[m] = "down" THEN {} ELSE spoiled
    /\ UNCHANGED <<tasks, cron, cronJobs, calls, changes>>

(* loadActiveTasks: the tasks read before, one after another.  A task       *)
(* deleted since makes the write fail, which ends the process.              *)
LoadTask(n, t) ==
    /\ boot[n] = "loading" /\ t \in left[n]
    /\ IF t \notin Rows
         THEN Down(n)
         ELSE /\ CreateJob(n, t)
              /\ left' = [left EXCEPT ![n] = @ \ {t}]
              /\ UNCHANGED <<boot, calls>>
    /\ UNCHANGED <<tasks, starts, changes, spoiled>>

Loaded(n) ==
    /\ boot[n] = "loading" /\ left[n] = {}
    /\ boot' = [boot EXCEPT ![n] = "migrating"]
    /\ left' = [left EXCEPT ![n] = BuiltIn]
    /\ UNCHANGED <<tasks, cron, cronJobs, calls, starts, changes, spoiled>>

(* migrateExistingCronJobs: addTask creates a new row each time.  Its       *)
(* second write finds the row, whose id nobody else has seen.               *)
Migrate(n, k) ==
    /\ boot[n] = "migrating" /\ k \in left[n]
    /\ \E t \in Fresh :
          /\ tasks' = [tasks EXCEPT ![t] = Row(k, TRUE)]
          /\ CreateJob(n, t)
          /\ Changed(n, t)
    /\ left' = [left EXCEPT ![n] = @ \ {k}]
    /\ UNCHANGED <<boot, calls, starts, changes>>

Migrated(n) ==
    /\ boot[n] = "migrating" /\ left[n] = {}
    /\ boot' = [boot EXCEPT ![n] = "ready"]
    /\ UNCHANGED <<tasks, left, cron, cronJobs, calls, starts, changes, spoiled>>

Exit(n) ==
    /\ boot[n] # "down"
    /\ Down(n)
    /\ UNCHANGED <<tasks, starts, changes, spoiled>>

-----------------------------------------------------------------------------
(* The API: POST /, PUT /:id and DELETE /:id of a process.                  *)

(* addTask: an inactive task has no job.                                    *)
AddTask(n, c, active) ==
    /\ boot[n] = "ready" /\ calls[c] = NoCall
    /\ \E t \in Fresh :
          /\ tasks' = [tasks EXCEPT ![t] = Row(Custom, active)]
          /\ calls' = IF active
                        THEN [calls EXCEPT ![c] = [node |-> n, task |-> t, step |-> "schedule"]]
                        ELSE calls
          /\ Changed(n, t)
    /\ UNCHANGED <<boot, left, cron, cronJobs, starts, changes>>

(* The first, synchronous part of updateTask and deleteTask.  A schedule    *)
(* the cron library refuses (any change of the time zone alone, too: the    *)
(* expression is then the empty string) fails here, the job being stopped.  *)
BeginChange(n, c, t, step) ==
    /\ boot[n] = "ready" /\ calls[c] = NoCall /\ t \in Rows
    /\ changes < MaxChanges /\ changes' = changes + 1
    /\ StopJob(n, t)
    /\ calls' = IF step = "refused" THEN calls
                ELSE [calls EXCEPT ![c] = [node |-> n, task |-> t, step |-> step]]
    /\ spoiled' = IF step = "refused" \/ OnTask(n, t) # {} THEN spoiled \cup {t} ELSE spoiled
    /\ UNCHANGED <<tasks, boot, left, starts>>

(* The write of updateTask: isActive is set, cleared or not among the       *)
(* updates; the row returned says whether to schedule.                      *)
StoreUpdate(c, active) ==
    LET n == calls[c].node
        t == calls[c].task
    IN  /\ calls[c] # NoCall /\ calls[c].step = "update"
        /\ IF t \notin Rows
             THEN /\ calls' = [calls EXCEPT ![c] = NoCall]
                  /\ UNCHANGED <<tasks, spoiled>>
             ELSE /\ Changed(n, t)
                  /\ tasks' = [tasks EXCEPT ![t].isActive = active]
                  /\ calls' = [calls EXCEPT ![c] = IF active THEN [@ EXCEPT !.step = "schedule"]
                                                   ELSE NoCall]
        /\ UNCHANGED <<boot, left, cron, cronJobs, starts, changes>>

(* scheduleTask, of addTask and updateTask: the write of nextRunAt fails    *)
(* when the task is gone.                                                   *)
Schedule(c) ==
    LET n == calls[c].node
        t == calls[c].task
    IN  /\ calls[c] # NoCall /\ calls[c].step = "schedule"
        /\ calls' = [calls EXCEPT ![c] = NoCall]
        /\ IF t \notin Rows THEN UNCHANGED <<cron, cronJobs>> ELSE CreateJob(n, t)
        /\ UNCHANGED <<tasks, boot, left, starts, changes, spoiled>>

(* The database refuses a write of a call: what it did before stands.  The  *)
(* job is stopped while the row remains, or the row is there and no job is. *)
WriteFails(c) ==
    /\ calls[c] # NoCall
    /\ calls' = [calls EXCEPT ![c] = NoCall]
    /\ spoiled' = spoiled \cup {calls[c].task}
    /\ UNCHANGED <<tasks, boot, left, cron, cronJobs, starts, changes>>

StoreDelete(c) ==
    /\ calls[c] # NoCall /\ calls[c].step = "delete"
    /\ Changed(calls[c].node, calls[c].task)
    /\ tasks' = [tasks EXCEPT ![calls[c].task] = Deleted]
    /\ calls' = [calls EXCEPT ![c] = NoCall]
    /\ UNCHANGED <<boot, left, cron, cronJobs, starts, changes>>

Next ==
    \/ \E n \in Node : Start(n) \/ Loaded(n) \/ Migrated(n) \/ Exit(n)
    \/ \E n \in Node, t \in Task : LoadTask(n, t)
    \/ \E n \in Node, k \in BuiltIn : Migrate(n, k)
    \/ \E n \in Node, c \in Call, active \in BOOLEAN : AddTask(n, c, active)
    \/ \E n \in Node, c \in Call, t \in Task :
          \E step \in {"update", "delete", "refused"} : BeginChange(n, c, t, step)
    \/ \E c \in Call, active \in BOOLEAN : StoreUpdate(c, active)
    \/ \E c \in Call : Schedule(c) \/ StoreDelete(c) \/ WriteFails(c)

Spec == Init /\ [][Next]_schedVars

-----------------------------------------------------------------------------
(* A process that was alone in changing a task, one call at a time and none *)
(* of them refused or left half stored, has one job for it when it is       *)
(* active and none otherwise.                                               *)
JobsFollowTasks ==
    \A n \in Node, t \in Task :
        boot[n] = "ready" /\ t \notin spoiled /\ OnTask(n, t) = {} =>
            cron[n][t] = IF t \in Rows /\ tasks[t].isActive THEN 1 ELSE 0

(* "Stop existing cron job if active": a task never has two jobs.           *)
OneJobPerTask == \A n \in Node, t \in Task : cron[n][t] <= 1

(* "Migrate existing CronService jobs": each is scheduled once.             *)
MigratedOnce ==
    \A t, u \in Rows : tasks[t].kind = tasks[u].kind /\ tasks[t].kind \in BuiltIn => t = u
=============================================================================
