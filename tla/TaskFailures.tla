---------------------------- MODULE TaskFailures ----------------------------
(***************************************************************************)
(* backend/src/services/TaskFailureHandlerService.ts: what becomes of a    *)
(* failed execution.  Nothing in the repository calls handleTaskFailure    *)
(* yet: the callers here hand it each failure once, with the count of the  *)
(* execution, as FailureContext asks.  The database and the queue may fail *)
(* at each call; most of those errors are only logged.                     *)
(***************************************************************************)
EXTENDS Integers, FiniteSets, Sequences

CONSTANTS
    Exec,           \* execution ids
    Policy,         \* the policies setRetryPolicy can set: maxRetries, retryable, final
    FirstPolicy,
    Marks,          \* the sets of words the errors have, of those categorizeError looks for
    NoExec

VARIABLES
    policy,         \* of the task type
    execs,          \* status and retryCount of a row, or NoExec
    queued,         \* executions with a retry job in the queue 'tasks'
    deadLetters,    \* executions sent to 'dead-letter-tasks'
    handling,       \* the call for a failed execution: its next step, error and policy
    faulty,         \* history: failures whose handling met an error
    followedBy      \* the automatic retries made of an execution

failVars == <<policy, execs, queued, deadLetters, handling, faulty, followedBy>>

Idle == [step |-> "idle"]

(* categorizeError: the first group with a word of the message decides.     *)
(* (includes('prisma') is of the stack.)                                    *)
Groups == <<
    <<{"timeout", "etimedout"}, "TIMEOUT">>,
    <<{"network", "enotfound", "econnrefused"}, "NETWORK_ERROR">>,
    <<{"database", "connection", "prisma"}, "DATABASE_ERROR">>,
    <<{"validation", "invalid", "schema"}, "VALIDATION_ERROR">>,
    <<{"permission", "unauthorized", "forbidden"}, "PERMISSION_DENIED">>,
    <<{"authentication", "unauthenticated"}, "AUTHENTICATION_FAILED">>,
    <<{"rate limit", "too many requests"}, "RATE_LIMITED">>,
    <<{"service unavailable", "503"}, "SERVICE_UNAVAILABLE">>,
    <<{"memory", "disk", "resource"}, "RESOURCE_UNAVAILABLE">>>>
CategorizeError(words) ==
    LET hit == {i \in DOMAIN Groups : Groups[i][1] \cap words # {}}
    IN  IF hit = {} THEN "UNKNOWN_ERROR"
        ELSE Groups[CHOOSE i \in hit : \A j \in hit : i <= j][2]

IsRetryableError(type, p) ==
    type \notin p.final /\ (type \in p.retryable \/ type = "UNKNOWN_ERROR")

Init ==
    /\ policy = FirstPolicy
    /\ execs \in [Exec -> {NoExec, [status |-> "RUNNING", retryCount |-> 0]}]
    /\ Cardinality({e \in Exec : execs[e] # NoExec}) = 1
    /\ queued = {}
    /\ deadLetters = {}
    /\ handling = [e \in Exec |-> Idle]
    /\ faulty = {}
    /\ followedBy = [e \in Exec |-> {}]

SetRetryPolicy(p) ==
    /\ policy' = p
    /\ UNCHANGED <<execs, queued, deadLetters, handling, faulty, followedBy>>

MutOneMore(e, words) ==
    LET type == CategorizeError(words)
    IN  /\ execs[e] # NoExec /\ execs[e].status = "RUNNING" /\ handling[e] = Idle
        /\ handling' = [handling EXCEPT ![e] =
               [step |-> IF ~IsRetryableError(type, policy) THEN "final"
                        ELSE IF execs[e].retryCount > policy.maxRetries THEN "bury" ELSE "retry",
                type |-> type, policy |-> policy]]
        /\ UNCHANGED <<policy, execs, queued, deadLetters, faulty, followedBy>>
(* An execution failed: handleTaskFailure reads the task and logs, and      *)
(* decides.  A failing log entry changes nothing.                           *)
HandleTaskFailure(e, words) ==
    LET type == CategorizeError(words)
    IN  /\ execs[e] # NoExec /\ execs[e].status = "RUNNING" /\ handling[e] = Idle
        /\ handling' = [handling EXCEPT ![e] =
               [step |-> IF ~IsRetryableError(type, policy) THEN "final"
                        ELSE IF execs[e].retryCount >= policy.maxRetries THEN "bury" ELSE "retry",
                type |-> type, policy |-> policy]]
        /\ UNCHANGED <<policy, execs, queued, deadLetters, faulty, followedBy>>

(* Any step of the handling fails: the rest of it does not happen.          *)
GiveUp(e) ==
    /\ handling[e] # Idle /\ handling[e].step # "done"
    /\ handling' = [handling EXCEPT ![e].step = "done"]
    /\ faulty' = faulty \cup {e}
    /\ UNCHANGED <<policy, execs, queued, deadLetters, followedBy>>

(* handleMaxRetriesExceeded: sendToDeadLetterQueue hides an error, and the  *)
(* row is closed in any case.                                               *)
SendToDeadLetterQueue(e, ok) ==
    /\ handling[e].step = "bury"
    /\ deadLetters' = IF ok THEN deadLetters \cup {e} ELSE deadLetters
    /\ faulty' = IF ok THEN faulty ELSE faulty \cup {e}
    /\ handling' = [handling EXCEPT ![e].step = "close"]
    /\ UNCHANGED <<policy, execs, queued, followedBy>>

(* scheduleRetry: a new row, then the job.                                  *)
CreateRetry(e, r) ==
    /\ handling[e].step = "retry" /\ execs[r] = NoExec
    /\ execs' = [execs EXCEPT ![r] = [status |-> "PENDING", retryCount |-> execs[e].retryCount + 1]]
    /\ handling' = [handling EXCEPT ![e].step = "publish"]
    /\ followedBy' = [followedBy EXCEPT ![e] = @ \cup {r}]
    /\ UNCHANGED <<policy, queued, deadLetters, faulty>>

PublishRetry(e) ==
    /\ handling[e].step = "publish"
    /\ queued' = queued \cup followedBy[e]
    /\ handling' = [handling EXCEPT ![e].step = "close"]
    /\ UNCHANGED <<policy, execs, deadLetters, faulty, followedBy>>

(* The last write of each case: the row of the failed execution.            *)
CloseExecution(e) ==
    /\ handling[e].step \in {"final", "close"}
    /\ execs' = [execs EXCEPT ![e].status = "FAILED"]
    /\ handling' = [handling EXCEPT ![e].step = "done"]
    /\ UNCHANGED <<policy, queued, deadLetters, faulty, followedBy>>

(* A worker takes the job of a retry (attempts: 1).                         *)
RunRetry(e) ==
    /\ e \in queued
    /\ queued' = queued \ {e}
    /\ execs' = [execs EXCEPT ![e].status = "RUNNING"]
    /\ UNCHANGED <<policy, deadLetters, handling, faulty, followedBy>>

Complete(e) ==
    /\ execs[e] # NoExec /\ execs[e].status = "RUNNING" /\ handling[e] = Idle
    /\ execs' = [execs EXCEPT ![e].status = "COMPLETED"]
    /\ UNCHANGED <<policy, queued, deadLetters, handling, faulty, followedBy>>

(* retryDeadLetterJob: an administrator's retry counts from zero; if the    *)
(* queue fails its row stays PENDING.                                       *)
RetryDeadLetterJob(e, r, ok) ==
    /\ e \in deadLetters /\ execs[r] = NoExec
    /\ execs' = [execs EXCEPT ![r] = [status |-> "PENDING", retryCount |-> 0]]
    /\ queued' = IF ok THEN queued \cup {r} ELSE queued
    /\ UNCHANGED <<policy, deadLetters, handling, faulty, followedBy>>

Next ==
    \/ \E p \in Policy : SetRetryPolicy(p)
    \/ \E e \in Exec, words \in Marks : HandleTaskFailure(e, words)
    \/ \E e \in Exec, ok \in BOOLEAN : SendToDeadLetterQueue(e, ok)
    \/ \E e, r \in Exec : CreateRetry(e, r)
    \/ \E e \in Exec : GiveUp(e) \/ PublishRetry(e) \/ CloseExecution(e) \/ RunRetry(e) \/ Complete(e)
    \/ \E e, r \in Exec, ok \in BOOLEAN : RetryDeadLetterJob(e, r, ok)

Spec == Init /\ [][Next]_failVars

-----------------------------------------------------------------------------
(* A failure handled without an error of the database or the queue comes to *)
(* the one end the policy of its time calls for: one retry, counted and in  *)
(* the queue or begun; a dead letter when the retries are spent; neither    *)
(* for a final error.  No fault adds an end, and the retries of a chain     *)
(* stop at the count of the policy they were decided under, however         *)
(* policies change between the failures.                                    *)
FailuresAreFollowedUp ==
    \A e \in Exec : handling[e] # Idle =>
        LET h == handling[e]
            again == IsRetryableError(h.type, h.policy)
            spent == execs[e].retryCount >= h.policy.maxRetries
        IN  /\ Cardinality(followedBy[e]) <= 1
            /\ followedBy[e] # {} => again /\ ~spent
            /\ e \in deadLetters => again /\ spent
            /\ h.step = "done" /\ e \notin faulty =>
                  /\ execs[e].status = "FAILED"
                  /\ again /\ ~spent => followedBy[e] # {}
                  /\ again /\ spent => e \in deadLetters
                  /\ \A r \in followedBy[e] :
                        /\ execs[r].retryCount = execs[e].retryCount + 1
                        /\ r \in queued \/ execs[r].status # "PENDING"
=============================================================================
