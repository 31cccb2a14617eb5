----------------------------- MODULE MCRecords ------------------------------
(***************************************************************************)
(* The parts of the backend that keep rows and jobs, for TLC: wallets and  *)
(* transactions, accounts, bulk calls, the event indexer, the tasks.  But  *)
(* for wallets and transactions they share no state, so a behavior looks   *)
(* at one of them, and the state spaces add up instead of multiplying.     *)
(***************************************************************************)
EXTENDS Integers, Sequences, FiniteSets

CONSTANTS
    none, gone,                                             \* what is absent, or no more
    Address, Wallet, Contract, Thresholds, Recoveries,
    User, Request, Names, DefaultName, MaxTold,             \* of the wallets alone
    TxUser, TxRequest, TxNames, TxDefaultName, TxMaxTold,   \* beside a transaction
    TxCall, Faults, Fragments, Blank, MaxRelays,
    Account, Prefix, Login, Invite, Choices, Default, MaxInvitations,
    N, maxConcurrency, TxAttempts, maxRetries, MaxCopies, Calls,
    MaxLedger, MaxForks, EventCopies, batchSize, MaxCalls,
    Node, Task, TaskCall, BuiltIn, Custom, MaxStarts, MaxChanges,
    Rule, Check, DefaultRules, Slow, Quiet, MaxTime, MaxUpdates,
    Exec, Policy, FirstPolicy, Marks

(* What is absent is no row of a table and no call under way.               *)
Setting == [threshold : Thresholds, owners : SUBSET Address, recovery : Recoveries]
WalletRow == [by : User \cup TxUser, contract : Contract, active : BOOLEAN, set : Setting,
              name : Names \cup TxNames \cup {DefaultName, TxDefaultName}]
TxRow == [wallet : Wallet, signatures : Nat, executed : BOOLEAN, deleted : BOOLEAN,
          edited : BOOLEAN, comments : BOOLEAN]
TaskRow == [kind : BuiltIn \cup {Custom}, isActive : BOOLEAN]
TaskChange == [node : Node, task : Task, step : {"schedule", "update", "delete"}]
ExecRow == [status : {"PENDING", "RUNNING", "COMPLETED", "FAILED"}, retryCount : Nat]
ASSUME AbsentAssumption ==
    /\ none # gone /\ gone \notin TaskRow
    /\ none \notin WalletRow \cup TxRow \cup TaskRow \cup TaskChange \cup ExecRow \cup Fragments \cup {Blank}

ASSUME RecordsAssumption ==
    /\ Thresholds \subseteq Nat /\ IsFiniteSet(TxUser)
    /\ {MaxLedger, MaxForks, batchSize} \subseteq Nat /\ EventCopies \in Nat \ {0}
    /\ DefaultRules \subseteq Rule /\ "none" \notin Rule /\ MaxUpdates \in Nat /\ Quiet \in Nat
    /\ \A p \in Policy \cup {FirstPolicy} : p.maxRetries \in Nat

VARIABLES
    part,           \* the one looked at
    now,
    wallets, told, past, requests, tx, signed, calls, relays,             \* Wallets, Transactions
    users, preferences, walletSettings, invitations, logins, invites, keys, chosen,  \* Accounts
    call, rows, step, at, good, attempt, retry, late, cancelled, active, answer,     \* BulkOperations
    afterCancel,
    latest, fork, stored, lastLedger, isHealthy, isRunning, poll, from, goal, batch, \* EventIndexer
    fill, reorg, apiCalls, excused,
    tasks, boot, left, cron, cronJobs, changing, starts, changes, spoiled,           \* TaskScheduler
    rules, version, isActive, lastTriggered, monitoring, checks, alertedAt, alerts,  \* TaskMonitoring
    raced,
    policy, execs, queued, deadLetters, handling, faulty, followedBy                 \* TaskFailures

txVars == <<wallets, told, past, requests, tx, signed, calls, relays>>
accountVars == <<users, preferences, walletSettings, invitations, logins, invites, keys, chosen>>
bulkVars == <<call, rows, step, at, good, attempt, retry, late, cancelled, active, answer,
              afterCancel>>
indexVars == <<latest, fork, stored, lastLedger, isHealthy, isRunning, poll, from, goal, batch,
               fill, reorg, apiCalls, excused>>
schedVars == <<tasks, boot, left, cron, cronJobs, changing, starts, changes, spoiled>>
monVars == <<rules, version, isActive, lastTriggered, monitoring, checks, alertedAt, alerts, raced>>
failVars == <<policy, execs, queued, deadLetters, handling, faulty, followedBy>>
recordVars == <<part, now, txVars, accountVars, bulkVars, indexVars, schedVars, monVars, failVars>>

Wal == INSTANCE Wallets WITH NoRow <- none, Idle <- none

Tx == INSTANCE Transactions WITH
    User <- TxUser, Request <- TxRequest, Names <- TxNames, DefaultName <- TxDefaultName,
    MaxTold <- TxMaxTold, Call <- TxCall, NoRow <- none, Idle <- none, NoTx <- none,
    NoSignature <- none

Acc == INSTANCE Accounts WITH NoRow <- none, Idle <- none

Blk == INSTANCE BulkOperations

Idx == INSTANCE EventIndexer WITH MaxCopies <- EventCopies, calls <- apiCalls

Sch == INSTANCE TaskScheduler WITH
    Call <- TaskCall, NoTask <- none, Deleted <- gone, NoCall <- none, calls <- changing

Mon == INSTANCE TaskMonitoring WITH Idle <- none

Fls == INSTANCE TaskFailures WITH NoExec <- none

Parts == {"wallets", "transactions", "accounts", "bulk", "indexer", "scheduler", "monitoring",
          "failures"}

RecordsInit ==
    /\ part \in Parts
    /\ IF part = "wallets" THEN Wal!WalletsInit ELSE Tx!WalletsInit
    /\ Tx!TransactionsInit /\ Acc!Init /\ Idx!Init /\ Sch!Init /\ Mon!Init
    /\ \/ part = "bulk" /\ Blk!Init
       \/ /\ part # "bulk"
          /\ call = none /\ rows = none /\ step = none /\ at = none /\ good = none
          /\ attempt = none /\ retry = none /\ late = none /\ cancelled = none
          /\ active = none /\ answer = none /\ afterCancel = none
    /\ \/ part = "failures" /\ Fls!Init
       \/ /\ part # "failures"
          /\ policy = none /\ execs = none /\ queued = none /\ deadLetters = none
          /\ handling = none /\ faulty = none /\ followedBy = none

RecordsNext ==
    /\ UNCHANGED part
    /\ \/ /\ part = "wallets" /\ Wal!WalletsNext
          /\ UNCHANGED <<now, tx, signed, calls, relays, accountVars, bulkVars, indexVars, schedVars,
                        monVars, failVars>>
       \/ /\ part = "transactions" /\ Tx!Next
          /\ UNCHANGED <<now, accountVars, bulkVars, indexVars, schedVars, monVars, failVars>>
       \/ /\ part = "accounts" /\ Acc!Next
          /\ UNCHANGED <<now, txVars, bulkVars, indexVars, schedVars, monVars, failVars>>
       \/ /\ part = "bulk" /\ Blk!Next
          /\ UNCHANGED <<now, txVars, accountVars, indexVars, schedVars, monVars, failVars>>
       \/ /\ part = "indexer" /\ Idx!Next
          /\ UNCHANGED <<now, txVars, accountVars, bulkVars, schedVars, monVars, failVars>>
       \/ /\ part = "scheduler" /\ Sch!Next
          /\ UNCHANGED <<now, txVars, accountVars, bulkVars, indexVars, monVars, failVars>>
       \/ /\ part = "monitoring" /\ Mon!Next
          /\ UNCHANGED <<txVars, accountVars, bulkVars, indexVars, schedVars, failVars>>
       \/ /\ part = "failures" /\ Fls!Next
          /\ UNCHANGED <<now, txVars, accountVars, bulkVars, indexVars, schedVars, monVars>>

RecordsSpec == RecordsInit /\ [][RecordsNext]_recordVars

(* What TLC runs.                                                           *)
CONSTANTS a, b, c, d
SharedPrefix == [k \in {a, b} |-> c]    \* two accounts whose addresses begin alike
Once == [maxRetries |-> 1, retryable |-> {"TIMEOUT"}, final |-> {"VALIDATION_ERROR"}]
Twice == [maxRetries |-> 2, retryable |-> {"TIMEOUT", "DATABASE_ERROR"}, final |-> {"VALIDATION_ERROR"}]
Policies == {Once, Twice}
AllCalls == {"createWallets", "updateWallets", "deleteWallets", "createTransactions",
             "updateTransactions", "deleteTransactions", "createComments", "deleteComments"}

(* Beside a transaction only the threshold of its wallet changes, by an     *)
(* update (a handler's write is the same step), and the wallet has one      *)
(* owner; what follows an edited title or a comment, which nothing reads,   *)
(* is what follows without it.                                              *)
OnlyThresholdsChange ==
    part = "transactions" =>
        /\ \A r \in {a} : requests[r] # none =>
              requests[r].step = "deployed" /\ requests[r].arg.threshold = 2
        /\ wallets[d] # none =>
              /\ wallets[d].by = a /\ wallets[d].active /\ wallets[d].set.owners = {a}
              /\ requests[a] = none /\ past[d] \subseteq {"threshold"}
        /\ tx # none => ~tx.edited /\ ~tx.comments

(* Wallets: the handlers of the settings never run ahead of the chain.      *)
WalletRowsLagContracts == part = "wallets" => Wal!RowsLagContracts

(* Transactions: none is relayed on fewer intents to sign than it takes.    *)
TxRelayedOnIntents == part = "transactions" => Tx!RelayedOnIntents

(* Accounts: what a user has chosen stands.                                 *)
AccountChoiceStands == part = "accounts" => Acc!ChoiceStands

(* BulkOperations: a cancelled call finishes the item in hand at most.      *)
BulkCancelStops == part = "bulk" => Blk!CancelStops

(* EventIndexer: no ledger is passed over without a cause.                  *)
IndexerPassesNothing == part = "indexer" => Idx!NothingPassedOver

(* TaskScheduler: the jobs that run are those of the table.                 *)
SchedulerJobsFollow == part = "scheduler" => Sch!JobsFollowTasks

(* TaskMonitoring: no rule alerts twice within its quiet time.              *)
MonitorAlertsAreSpaced == [][part = "monitoring" => Mon!Spaced]_recordVars

(* TaskFailures: every failure comes to the end its policy calls for.       *)
FailuresFollowedUp == part = "failures" => Fls!FailuresAreFollowedUp
=============================================================================
