--------------------------- MODULE DeadLetterQueue ---------------------------
(***************************************************************************)
(* backend/src/services/DeadLetterQueueService.ts: the table of messages   *)
(* that failed, the retries asked for by the administrators of             *)
(* RetryController.ts, one by one or by queue, and the hourly cleanup.     *)
(* Every query of the database is a step of its own and may fail.          *)
(***************************************************************************)
EXTENDS Integers, Sequences, FiniteSets

CONSTANTS
    Message, Admin,
    NoMessage,
    maxRetention,       \* 7 days
    MaxTime, MaxRetries \* bounds

VARIABLES
    now,
    table,          \* the messages in dead_letter_queue
    created,        \* created_at
    dlqRetries,
    pc,             \* of each administrator: "idle", "listed", "handling", "removing", "counting"
    todo,           \* the messages a retryQueue read and has not retried
    current,
    handled,        \* history: messages the handler took effect on
    gone            \* history: why a message left: "handled", "deleted", "expired"

tableVars == <<table, created, dlqRetries>>
adminVars == <<pc, todo, current>>
dlqVars == <<now, tableVars, adminVars, handled, gone>>

Init ==
    /\ now = 0
    /\ table = {}
    /\ created = [m \in Message |-> 0]
    /\ dlqRetries = [m \in Message |-> 0]
    /\ pc = [a \in Admin |-> "idle"]
    /\ todo = [a \in Admin |-> {}]
    /\ current = [a \in Admin |-> NoMessage]
    /\ handled = {}
    /\ gone = [m \in Message |-> "no"]

AddMessage(m) ==
    /\ m \notin table /\ gone[m] = "no"
    /\ table' = table \cup {m}
    /\ created' = [created EXCEPT ![m] = now]
    /\ UNCHANGED <<now, dlqRetries, adminVars, handled, gone>>

Leave(ms, why) ==
    /\ table' = table \ ms
    /\ gone' = [m \in Message |-> IF m \in ms \cap table THEN why ELSE gone[m]]

GetMessage(m) == m \in table
GetMessagesByQueue == table

(* retryMessage, of one message or of the next one of a queue: the row is   *)
(* read, and its payload handed on if it is there.                          *)
RetryMessage(a, m) ==
    /\ pc[a] = "idle" \/ (pc[a] = "listed" /\ m \in todo[a])
    /\ dlqRetries[m] < MaxRetries
    /\ todo' = [todo EXCEPT ![a] = @ \ {m}]
    /\ IF GetMessage(m)
         THEN /\ pc' = [pc EXCEPT ![a] = "handling"]
              /\ current' = [current EXCEPT ![a] = m]
         ELSE /\ pc' = [pc EXCEPT ![a] = IF todo'[a] = {} THEN "idle" ELSE "listed"]
              /\ UNCHANGED current
    /\ UNCHANGED <<now, tableVars, handled, gone>>

RetryQueue(a) ==
    /\ pc[a] = "idle"
    /\ table # {}
    /\ pc' = [pc EXCEPT ![a] = "listed"]
    /\ todo' = [todo EXCEPT ![a] = GetMessagesByQueue]
    /\ UNCHANGED <<now, tableVars, current, handled, gone>>

MutRemoveFirst(a, ok, effect) ==
    /\ pc[a] = "handling"
    /\ ok => effect
    /\ handled' = IF effect THEN handled \cup {current[a]} ELSE handled
    /\ pc' = [pc EXCEPT ![a] = "removing"]
    /\ UNCHANGED <<now, tableVars, todo, current, gone>>
(* executeWithRetry returns; a failure may have taken effect.               *)
HandlerEnds(a, ok, effect) ==
    /\ pc[a] = "handling"
    /\ ok => effect
    /\ handled' = IF effect THEN handled \cup {current[a]} ELSE handled
    /\ pc' = [pc EXCEPT ![a] = IF ok THEN "removing" ELSE "counting"]
    /\ UNCHANGED <<now, tableVars, todo, current, gone>>

Done(a) ==
    /\ pc' = [pc EXCEPT ![a] = IF todo[a] = {} THEN "idle" ELSE "listed"]
    /\ current' = [current EXCEPT ![a] = NoMessage]

(* removeMessage; a failed DELETE is counted like a failed retry.           *)
RemoveHandled(a, ok) ==
    /\ pc[a] = "removing"
    /\ IF ok
         THEN Leave({current[a]}, "handled") /\ Done(a)
         ELSE /\ pc' = [pc EXCEPT ![a] = "counting"]
              /\ UNCHANGED <<table, current, gone>>
    /\ UNCHANGED <<now, created, dlqRetries, todo, handled>>

(* updateRetryCount: no row, no count; its own failure is only logged.      *)
UpdateRetryCount(a, ok) ==
    /\ pc[a] = "counting"
    /\ dlqRetries' = IF ok /\ current[a] \in table
                       THEN [dlqRetries EXCEPT ![current[a]] = @ + 1] ELSE dlqRetries
    /\ Done(a)
    /\ UNCHANGED <<now, table, created, todo, handled, gone>>

(* deleteDLQMessage and clearQueue, by hand.                                *)
RemoveMessage(m) ==
    /\ m \in table
    /\ Leave({m}, "deleted")
    /\ UNCHANGED <<now, created, dlqRetries, adminVars, handled>>

ClearQueue ==
    /\ table # {}
    /\ Leave(table, "deleted")
    /\ UNCHANGED <<now, created, dlqRetries, adminVars, handled>>

Expired == {m \in table : now - created[m] > maxRetention}

Cleanup ==
    /\ Expired # {}
    /\ Leave(Expired, "expired")
    /\ UNCHANGED <<now, created, dlqRetries, adminVars, handled>>

Tick ==
    /\ now < MaxTime
    /\ now' = now + 1
    /\ UNCHANGED <<tableVars, adminVars, handled, gone>>

Next ==
    \/ \E m \in Message : AddMessage(m) \/ RemoveMessage(m)
    \/ \E a \in Admin :
        \/ RetryQueue(a)
        \/ \E m \in Message : RetryMessage(a, m)
        \/ \E ok, effect \in BOOLEAN : HandlerEnds(a, ok, effect)
        \/ \E ok \in BOOLEAN : RemoveHandled(a, ok) \/ UpdateRetryCount(a, ok)
    \/ ClearQueue \/ Cleanup \/ Tick

Spec == Init /\ [][Next]_dlqVars

-----------------------------------------------------------------------------
(* A message is not lost: it stays until the handler took effect on it, or  *)
(* somebody deleted it, or its days were over, whoever else retries it.     *)
LeavesForAReason ==
    \A m \in Message :
        /\ gone[m] = "handled" => m \in handled
        /\ gone[m] = "expired" => now - created[m] > maxRetention
=============================================================================
