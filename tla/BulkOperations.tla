--------------------------- MODULE BulkOperations ---------------------------
(***************************************************************************)
(* One call of the bulk API: a handler of BulkOperationController.ts, the  *)
(* loops of BulkOperationService.ts and ErrorHandlingService.ts, and the   *)
(* bulk methods of WalletService.ts, TransactionService.ts and             *)
(* CommentService.ts for the items.  The items are written through the     *)
(* service's own client, not through the database transaction the batches  *)
(* run in: what a failed transaction did to the rows stays done.           *)
(***************************************************************************)
EXTENDS Integers, Sequences, FiniteSets

CONSTANTS
    N,                      \* items of the request
    maxConcurrency,         \* items of a batch
    TxAttempts, maxRetries, \* 3 of each in the code
    Calls,                  \* handlers looked at
    MaxCopies               \* bound on the copies counted

VARIABLES
    call,       \* [handler, continueOnError]
    rows,       \* of each item: [own, copies, edited]
    step,       \* "idle", "batch", "write", "commit", "backoff", "delay", "ended"
    at,         \* the next item
    good,       \* items done in this attempt
    attempt, retry,
    late,       \* the transaction is past its timeout
    cancelled, active,
    answer,     \* the status code, 0 before
    afterCancel \* history: items written after the call was cancelled

bulkVars == <<call, rows, step, at, good, attempt, retry, late, cancelled, active, answer, afterCancel>>

Items == 1..N
BatchStart(i) == ((i - 1) \div maxConcurrency) * maxConcurrency + 1
BatchEnds(i) == i = N \/ i % maxConcurrency = 0
WithinLastBatch(i) == i # BatchStart(i) /\ BatchStart(i) = BatchStart(N)

-----------------------------------------------------------------------------
(* What a bulk method does to the row of an item: the row afterwards, or    *)
(* Failed, for which the item counts as an error.                           *)

Failed == [own |-> FALSE, copies |-> -1, edited |-> FALSE]
Create(r) == [r EXCEPT !.copies = IF @ < MaxCopies THEN @ + 1 ELSE @]
Edit(r) == [r EXCEPT !.edited = TRUE]
Remove(r) == [r EXCEPT !.copies = 0]

CreateWalletItem(r) == Create(r)
UpdateWalletItem(r) == IF r.own /\ r.copies > 0 THEN Edit(r) ELSE Failed
DeleteWalletItem(r) == IF r.own /\ r.copies > 0 THEN Remove(r) ELSE Failed
CreateTransactionItem(r) == IF r.own THEN Create(r) ELSE Failed
UpdateTransactionItem(r) == IF r.own /\ r.copies > 0 THEN Edit(r) ELSE Failed
DeleteTransactionItem(r) == IF r.own THEN Remove(r) ELSE Failed
CreateCommentItem(r) == IF r.own THEN Create(r) ELSE Failed
DeleteCommentItem(r) == IF r.own /\ r.copies > 0 THEN Remove(r) ELSE Failed

(* The handlers: the rows their requests name exist before or not, whether  *)
(* a service checks the items first, and the code of success.               *)
Handler(creates, checks, code) == [creates |-> creates, checks |-> checks, code |-> code]
BulkCreateWallets == Handler(TRUE, TRUE, 201)
BulkUpdateWallets == Handler(FALSE, TRUE, 200)
BulkDeleteWallets == Handler(FALSE, FALSE, 200)
BulkCreateTransactions == Handler(TRUE, TRUE, 201)
BulkUpdateTransactions == Handler(FALSE, TRUE, 200)
BulkDeleteTransactions == Handler(FALSE, FALSE, 200)
BulkCreateComments == Handler(TRUE, TRUE, 201)
BulkDeleteComments == Handler(FALSE, TRUE, 200)

HandlerOf(h) ==
    CASE h = "createWallets" -> BulkCreateWallets [] h = "updateWallets" -> BulkUpdateWallets
      [] h = "deleteWallets" -> BulkDeleteWallets
      [] h = "createTransactions" -> BulkCreateTransactions
      [] h = "updateTransactions" -> BulkUpdateTransactions
      [] h = "deleteTransactions" -> BulkDeleteTransactions
      [] h = "createComments" -> BulkCreateComments [] h = "deleteComments" -> BulkDeleteComments

ItemOf(h, r) ==
    CASE h = "createWallets" -> CreateWalletItem(r) [] h = "updateWallets" -> UpdateWalletItem(r)
      [] h = "deleteWallets" -> DeleteWalletItem(r)
      [] h = "createTransactions" -> CreateTransactionItem(r)
      [] h = "updateTransactions" -> UpdateTransactionItem(r)
      [] h = "deleteTransactions" -> DeleteTransactionItem(r)
      [] h = "createComments" -> CreateCommentItem(r) [] h = "deleteComments" -> DeleteCommentItem(r)

(* analyzeError: the first group with a word of the message decides; the    *)
(* messages of the services name no cause, so that nearly all is retried.   *)
WordGroups == <<
    [words |-> {"timeout", "connection", "network", "econnreset"}, again |-> TRUE],
    [words |-> {"constraint", "duplicate", "foreign key", "unique"}, again |-> FALSE],
    [words |-> {"deadlock", "lock", "serialization"}, again |-> TRUE],
    [words |-> {"validation", "invalid", "required"}, again |-> FALSE],
    [words |-> {"unauthorized", "forbidden", "permission"}, again |-> FALSE],
    [words |-> {"limit", "quota", "rate limit"}, again |-> TRUE]>>
AnalyzeError(message) ==
    LET hit == {k \in DOMAIN WordGroups : WordGroups[k].words \cap message # {}}
    IN  hit = {} \/ WordGroups[CHOOSE k \in hit : \A j \in hit : k <= j].again

-----------------------------------------------------------------------------
Init ==
    /\ call \in [handler : Calls, continueOnError : BOOLEAN]
    /\ rows \in [Items -> [own : BOOLEAN, copies : {IF HandlerOf(call.handler).creates THEN 0 ELSE 1},
                           edited : {FALSE}]]
    /\ step = "idle" /\ at = 1 /\ good = {} /\ attempt = 1 /\ retry = 0
    /\ late = FALSE /\ cancelled = FALSE /\ active = FALSE
    /\ answer = 0 /\ afterCancel = 0

(* The request is well formed, and its items pass the service's checks,     *)
(* where it has some: executeBulkOperation starts.                          *)
Submit(valid, sound) ==
    /\ step = "idle"
    /\ IF valid /\ (HandlerOf(call.handler).checks => sound)
         THEN step' = "batch" /\ active' = TRUE /\ UNCHANGED answer
         ELSE step' = "ended" /\ answer' = 400 /\ UNCHANGED active
    /\ UNCHANGED <<call, rows, at, good, attempt, retry, late, cancelled, afterCancel>>

(* An error leaves the batches: the transaction is tried again, then the    *)
(* whole operation, then the caller is told.                                *)
Throw(message) ==
    CASE attempt < TxAttempts ->
             step' = "backoff" /\ UNCHANGED <<active, answer>>
      [] attempt = TxAttempts /\ AnalyzeError(message) /\ retry < maxRetries ->
             step' = "delay" /\ UNCHANGED <<active, answer>>
      [] OTHER -> step' = "ended" /\ active' = FALSE /\ answer' = 500

(* What an item's check throws continueOnError takes for a failed batch: it  *)
(* is thrown again before the next one, and forgotten after the last.       *)
Overlooked == cancelled /\ call.continueOnError /\ WithinLastBatch(at)

(* The check of the token before each batch and each item.                  *)
MutBatchOnly ==
    /\ step = "batch"
    /\ IF at > N THEN step' = "commit" /\ UNCHANGED <<active, answer>>
       ELSE IF cancelled /\ at = BatchStart(at) THEN Throw({})
       ELSE step' = "write" /\ UNCHANGED <<active, answer>>
    /\ UNCHANGED <<call, rows, at, good, attempt, retry, late, cancelled, afterCancel>>
StartItem ==
    /\ step = "batch"
    /\ IF at > N \/ Overlooked THEN step' = "commit" /\ UNCHANGED <<active, answer>>
       ELSE IF cancelled THEN Throw({})
       ELSE step' = "write" /\ UNCHANGED <<active, answer>>
    /\ UNCHANGED <<call, rows, at, good, attempt, retry, late, cancelled, afterCancel>>

(* An error of an item is kept to itself, and forgotten, unless every item  *)
(* of its batch failed.                                                     *)
WriteItem(up) ==
    LET row == IF up THEN ItemOf(call.handler, rows[at]) ELSE Failed
        done == IF row = Failed THEN good ELSE good \cup {at}
    IN  /\ step = "write"
        /\ rows' = IF row = Failed THEN rows ELSE [rows EXCEPT ![at] = row]
        /\ afterCancel' = IF cancelled /\ row # Failed THEN afterCancel + 1 ELSE afterCancel
        /\ good' = done
        /\ at' = at + 1
        /\ IF BatchEnds(at) /\ done \cap (BatchStart(at)..at) = {} /\ ~call.continueOnError
             THEN Throw({})
             ELSE step' = "batch" /\ UNCHANGED <<active, answer>>
        /\ UNCHANGED <<call, attempt, retry, late, cancelled>>

(* The transaction of a call that took too long cannot be committed.        *)
TransactionTimesOut ==
    /\ step \in {"batch", "write", "commit"} /\ ~late
    /\ late' = TRUE
    /\ UNCHANGED <<call, rows, step, at, good, attempt, retry, cancelled, active, answer, afterCancel>>

Commit ==
    /\ step = "commit"
    /\ IF late THEN Throw({"timeout"})
               ELSE /\ step' = "ended" /\ active' = FALSE
                    /\ answer' = HandlerOf(call.handler).code
    /\ UNCHANGED <<call, rows, at, good, attempt, retry, late, cancelled, afterCancel>>

(* The next attempt starts over with the first item.                        *)
TryAgain ==
    /\ \/ step = "backoff" /\ attempt' = attempt + 1 /\ UNCHANGED retry
       \/ step = "delay" /\ attempt' = 1 /\ retry' = retry + 1
    /\ step' = "batch" /\ at' = 1 /\ good' = {} /\ late' = FALSE
    /\ UNCHANGED <<call, rows, cancelled, active, answer, afterCancel>>

(* cancelOperation of the controller; the operation itself only notices at  *)
(* its next check, and then retries like after any other error.             *)
CancelOperation ==
    /\ active
    /\ cancelled' = TRUE /\ active' = FALSE
    /\ UNCHANGED <<call, rows, step, at, good, attempt, retry, late, answer, afterCancel>>

Working ==
    \/ StartItem \/ Commit \/ TryAgain
    \/ \E up \in BOOLEAN : WriteItem(up)

Next ==
    \/ \E valid, sound \in BOOLEAN : Submit(valid, sound)
    \/ Working \/ TransactionTimesOut \/ CancelOperation

Spec == Init /\ [][Next]_bulkVars /\ WF_bulkVars(Working)

-----------------------------------------------------------------------------
(* After cancelOperation only the item already under way is still written,  *)
(* whatever batches, attempts and retries are left.                         *)
CancelStops == afterCancel <= 1

(* "Execute operation within a database transaction": an attempt that did   *)
(* not commit leaves nothing behind, so that no item is created twice.      *)
CreatedOnce == \A i \in Items : rows[i].copies <= 1
=============================================================================
