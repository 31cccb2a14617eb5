# Formal verification of soroban-multisig-safe

TLA+ specifications of the smart contracts and of the backend services of this
repository, the TLC configurations that check them on small instances, and TLAPS
proofs, for every value of the constants, of what the runs check of the wallet, of
the other contracts and of the backend. Paths below
are relative to `src/`; `lib.rs`, `treasury.rs` ... are files of
`contracts/soroban/src/`, a bare `XxxService.ts` is one of `backend/src/services/`.

- `tlc -workers 2 -config X.cfg M` checks a run; `tlapm M.tla` checks the proofs of
  `Sums`, `SafeProofs`, `ContractsProofs`, `ServicesProofs`, `RecordsProofs`,
  `DistributedLock`, `TaskExecution` and `MCProgress` (the contracts take a quarter of an hour, the others minutes).
- `PROJECT.json` lists the runs, the lines each definition models, the hazards,
  a seeded fault per property (the operators named `Mut...`, which no
  specification uses) and the theorems.

## 1. The system

| Part | State it keeps | Operations | Calls |
|---|---|---|---|
| Wallet (`lib.rs`) | signers and weights, owners, two thresholds, transactions and signatures, freeze, recovery, activity | submit, sign, execute; add, remove, reweight signers; freeze, unfreeze; request, cancel, execute recovery; emergency and time-lock recovery; heartbeat | the token contract a transaction names |
| Wallet proposals (`lib.rs` 587-900) | proposals, voters | create, vote, execute, clean up | the same balances |
| Wallet upgrade (`lib.rs` 1851-1990) | code hash, version | upgrade, migrate | the host |
| Weighted voting (`lib.rs` 2180-2250, 2551-2885) | voter weights, proposals, votes | set weights, create, vote, execute | none |
| Batched import (`lib.rs` 2890-3230) | imports, batches, rollback entries | start, process a batch, roll back | none |
| Treasury (`treasury.rs`) | managers, threshold, limits, time locks, proposals, counters, balances | propose, vote, execute, manage managers and configuration, deposit | token contracts |
| Escrow, vesting, payment splitter, staking, oracle, NFT marketplace, liquidity pool, bridge (one file each) | terms, balances, quorums | see the modules | token contracts |
| Lock, circuits, rate limits, dead letters, mail, prices (backend) | Redis keys; maps and queues of one process; tables | called around the work of other services; timers; administrators | Redis, PostgreSQL, mail, RPC nodes, CoinGecko |
| Wallets, transactions, accounts, bulk calls (backend) | rows of PostgreSQL through Prisma | HTTP handlers | the contracts (through a `StellarService` that only logs), the relay |
| Indexer and its watchers (backend) | cursor, events, alerts | poll, backfill, reorganisation; health, lag and resource loops | RPC node, PostgreSQL |
| Tasks (backend) | tasks, executions, cron jobs per process, a Bull queue, workers | routes, ticks, workers, failures, monitoring | Redis, PostgreSQL |
| Frontend (`frontend/src`) | view state | none of its contract calls is implemented yet | backend |

**How they interact.** The contracts do not call each other; each holds money or
decides something of its own and calls token contracts. Inside the wallet,
transactions, proposals, freeze, recovery and upgrade share storage:
transactions and proposals spend the same balances by different approval rules;
`OWNERS`/`THRESHOLD` and `SIGNERS`/`THRESHOLD_CONFIG` are two copies of who may
do what; signatures of freeze, unfreeze and upgrade are stored under the
sequence number of the current ledger. The backend keeps a copy of wallets and
transactions: a handler tells the contract, then writes the row. Its services
share the database and Redis, not memory; mail, the RPC failover and the token
service each go through circuits of their own (`Circuit`), and the
transactions of the database count signatures against the wallets' thresholds
(`Transactions` EXTENDS `Wallets`).

**What is hard.** Contract calls are atomic and totally ordered, so there are
no data races; the difficulty is in *sequences* of legal calls by different
people (a signer removed and re-added between two signatures, a limit lowered
between two withdrawals), in *deadlines* (each checked lazily by whoever calls
next), in *two copies* of one fact, in the *roll-back of failed calls* (a
signature stored before an `Err` is lost), and in *rounding and wrap-around*.
The backend has the other kind: every `await` between a check and its effect
lets other requests in, timers fire late, timeouts abandon work that goes on,
processes crash between two writes, and several processes act on one table.
`PROJECT.json` lists 40 hazards at their lines.

## 2. How the modules read the code

**Contracts.** A step is one invocation that returned `Ok`, or the close of a
ledger (`CloseLedger`, `Tick`). An invocation that returns `Err` or panics, a
failing token transfer included, has no step: the host discards everything it
wrote. There is one action per entry point, its guards are the early returns,
and whatever the entry point calls (execution inside the last signature, the
lazy end of a freeze, the lazy reset of counters) is part of it. Time is one
counter for both the ledger timestamp and the sequence number; periods are
scaled constants. `contracts/soroban/src/test.rs` calls the functions without
the host's roll-back; the models describe the deployed contract.

**Backend.** A step is what a request or timer does between two awaits; a
request between two steps is a record of what it has read. The database,
Redis, mail and RPC nodes are external, modelled by the calls the code makes:
each may fail where the code can see it fail. Loops and catch blocks are control and are kept; texts
and payloads are members of small sets; display and statistics are left out.

**Names.** Variables have the names of storage keys, columns and fields.
History variables are few and marked where declared (`settled` of a proposal, `asked`,
`requests` of the treasury, `executedAt`, `lapsed`, `spoiled`, `excused`,
`chosen`, `afterCancel`, `raced`, `past`, `untold`, `refused`, `outage`, `setups`): they record what happened so that a property can relate it
to what is stored.

**Conventions where the code is unfinished.**

- `lib.rs` is a mis-merged concatenation: functions are interrupted by pieces of
  others (`vote_for_proposal` is lines 661-671 and 753-808, `change_threshold_level`
  702-752 and 969-987) and some names are defined twice (`create_proposal`,
  `execute_proposal`). Each function is modelled by putting its own pieces
  together. The first and the second voting system are separate components.
  The types and keys of the second one and of the import (`VotingMechanism`,
  `Vote`, `ImportOperation`, `VOTES`, `IMPORT_OPS`, ...) are declared nowhere:
  these parts are modelled as what they are written to be. Vesting, splitter, pool
  and bridge are source files the crate does not include yet.
  `__init__` looks for no earlier call; the host calls no function whose name begins with two
  underscores at anybody's request, so it is the one call of a deployment.
  `contracts/Cargo.toml` turns no overflow checks on, so in a release build the
  `u32` sum of weights wraps (`WeightWord`).
- `schema.prisma` lacks relations `prisma generate` would need; tables are
  modelled as the services use them. The validators of `routes/wallet.ts`
  refuse the ids the database gives; handlers are modelled on those ids.
- `StellarService` logs instead of calling contracts: a call of it is a step of
  the modelled contract that always succeeds in the order the code makes it.
- `userRateLimiter`, the routers of `routes/v1`, `routes/v2` and `routes/tasks`
  and `TaskFailureHandlerService` are written but mounted or called nowhere;
  their modules say so and model the use their own code and tests describe.

### Modules

| Module | Models | Notes |
|---|---|---|
| `Vault` | what any custody component promises | abstract: a request is filed once, settled at most once, moves exactly its amount; nothing else moves money out |
| `MultisigSafe` | wallet core | 18 variables; `Execute` is shared by `SignTransaction` and `ExecuteTransaction` as in the code; 19 entry points, `__init__`, deposits, the close of a ledger |
| `SafeProposals`, `SafeUpgrade` | first proposal system; upgrade and migration | each EXTENDS the core and conjoins its own actions: one wallet, one balance, one freeze |
| `SafeExtensions` | the second voting system; the import | one part each; owners and freeze of the core change freely around them |
| `Treasury` | treasury | every entry point asks about the contract itself instead of its caller (`CallerIsManager`), as in the code; `initialize` may be called again by anyone, which is an action here |
| `Escrow` `Vesting` `PaymentSplitter` `Staking` `Oracle` `NftMarketplace` `LiquidityPool` `Bridge` | the stand-alone contracts | `initialize` is the choice among the terms in `Init` |
| `DistributedLock` | `withLock` of many processes | grant and its arrival are two steps; the renewal timer may be late; the lease counts down |
| `Circuit` | one circuit as operators on a record | extended by the four modules below it |
| `CircuitBreaker` | calls in flight through one circuit, the monitor's alerts | answers may meet a circuit that has changed or was reset |
| `RpcFailover` | `EnhancedRPCService` | circuits are named by the place a provider had when added |
| `EmailQueue` | mails and the fallback queue | the queue is drained by a loop whose awaits let other mails in |
| `Tokens` | prices, balances, discovery | two circuits, a cache; a price is the time it was the market's |
| `DeadLetterQueue` `RateLimits` | table of failed messages; one bucket | administrators act beside each other; read, check and write are separate |
| `Wallets` `Transactions` `Accounts` `BulkOperations` | handlers and rows | a wallet's row is also written by updates and bulk calls that tell no contract; `Transactions` EXTENDS `Wallets`; `BulkOperations` has both retry loops, batches, timeouts and cancellation |
| `EventIndexer` `Monitors` | poll, backfill, reorganisations, crashes; the three watchers | a ledger has one event; a fork replaces the last ledgers |
| `TaskScheduler` `TaskExecution` `TaskFailures` `TaskMonitoring` `TaskRoutes` | the task system | cron jobs per process; executions, Bull jobs and workers with crashes and stalls; policies; alert rules; order of the routes |
| `RetryPolicy` `LoadBalancer` | one `executeWithRetry`; provider choice and health checks | abandoned attempts go on and may take effect late |
| `Sums` | what sums over finite sets do when a term or a function value changes | lemmas about the folds the models use; no part of the system |
| `SafeProofs` `ContractsProofs` `ServicesProofs` `RecordsProofs` | theorems about the wallet with its proposals and upgrades, and about the compositions `MCContracts`, `MCServices`, `MCRecords` | those of the lock and of the executions stand in `DistributedLock` and `TaskExecution` |
| `MC...` | compositions, with assumptions on their constants; each `.cfg` gives the values | see below |

**Compositions.** Components that share state are composed by EXTENDS and run
together (the core with proposals and with upgrade, both in `MCSafe`, whose
specifications let one of them rest; transactions with wallets). Components that share none are put side by side with a variable that
selects one of them for a behaviour, so that state spaces add up: `MCContracts`
(`deployed`: treasury, eight contracts, votes, imports), `MCServices`
(`service`), `MCRecords` and `MCProgress` (`part`). A property
of such a module is the component's property under that selection.

**Refinements.** `MultisigSafe!IsAVault`, `SafeProposals!OneVault` and
`MCContracts!TreasuryIsAVault` instantiate `Vault` with expressions of the concrete
variables (a transaction or proposal is a filed request, executed means
settled). `OneVault` says that transactions and proposals *together*, drawing on the same
balances, are one vault.

## 3. What the components promise

| Component | What makes it correct | Stated as |
|---|---|---|
| Wallet | a transaction is paid once, on the weight of today's signers, for its own amount | `IsAVault`, `PaidWithQuorum` |
| | the last signature needed executes at once | `SigningSettles` |
| | no sequence of changes leaves a wallet that pays without a signature; the two copies of owners and threshold agree | `SomeSignatureNeeded`, `LegacyMirror` |
| | a freeze stops the signers; consent of two ledgers does not add up | `FreezeHolds`, `NoConsentSurvives` |
| | recovery waits: for its delay, or for silence | `RecoveryWaits`, `TimeLockNeedsSilence` |
| Proposals | a vote executes or nothing does; cleanup closes for good and never pays; a freeze stops votes; one vault with the transactions | `NoneWaitsForExecution`, `ProposalsStand`, `OneVault` |
| Weighted voting | a verdict has its majority of voices given in time by owners, once each | `ExecutedOnMajority` |
| Import | one that reports success recorded every item, and failures are counted | `OutcomeIsWhole` |
| Treasury | managers can reach the threshold; between two initializations the counters are the log and no rolling period carries more than twice its limit; locked withdrawals wait; a vault | `TreasuryLimitsHold`, `CallsAreBounded`, `TreasuryIsAVault` |
| Escrow | the reported state is where the money is; an award has its votes | `EscrowSettledOnce`, `CallsAreBounded` |
| Vesting, bridge, oracle, staking rewards | paid as vested, one tranche a milestone; nothing paid for an inbound transfer before its quorum; the median of submissions that agree; rewards at the rate | `OutcomesAreEarned`, `CallsAreBounded` (the feed moves slowly) |
| Splitter, staking, marketplace | what is owed is there, in any order of claims | `PayoutsCovered` |
| Pool | rounding never makes a share worth less | `CallsAreBounded` |
| Lock | two processes are inside only if a lease ran out under one | `AloneUntilExpiry` |
| Circuits | from its last opening a circuit refuses exactly until the timeout is over, whatever answers come late, and only enough successes since then close it; set-aside providers are those that fail | `BreakerOutageRunsItsCourse`, `RpcSetAside` |
| Mail, dead letters | a mail the circuit refused is kept until sent, too old or pushed out of a full queue (a direct call that fails is reported to its caller and not kept); a letter until handled, deleted or too old | `MailKeptUntilSent`, `LettersLeaveForAReason` |
| Rate limits | who is refused has used what the tier grants | `LimitRefusalEarned` |
| Prices | what is given out as fresh is recent | `TokenPricesAreRecent` |
| Wallet rows | the database runs ahead of the contract only by the updates and bulk creations that tell no contract | `WalletRowsLagContracts` |
| Relay | nothing is relayed on fewer intents to sign than it takes | `TxRelayedOnIntents` |
| Accounts | a late first login does not reset what a user chose | `AccountChoiceStands` |
| Bulk calls | a cancelled call writes the item in hand at most | `BulkCancelStops` |
| Indexer | the cursor passes over no event without a recorded cause | `IndexerPassesNothing` |
| Tasks | jobs are those of the table; rows tell how jobs ended, as far as the failure could be written; a failure has the one end its policy calls for; alerts are spaced | `SchedulerJobsFollow`, `RowsTellTheOutcome`, `FailuresFollowedUp`, `MonitorAlertsAreSpaced` |
| Progress | a node that recovered is used again; a retried call ends although attempts hang; queued jobs end across crashes; lasting trouble is alerted on until a webhook hangs | `RecoveredIsUsed`, `EndsDespiteHangs`, `JobsEnd`, `TroubleIsReported` |

## 4. Model checking

| Run (module, cfg) | Instance | Shows |
|---|---|---|
| `safe_signing` (MCSafe, MCSafe_signing) | 2 signers and a newcomer, weights 1-2 in a word of 4, thresholds 0-3, one transaction to a token or a plain account, freezes of 1; 248 thousand states | the core through every order of signing and configuring, cancelled and completed recovery requests |
| `safe_freeze` (MCSafe, MCSafe_freeze) | 2 signers, freezes of 2 and 3 (3 is refused), 4 instants, 2 replacement lists (one names an owner twice), 2 code hashes | freeze, thaw, upgrade and all recoveries, with everything else going on |
| `proposals_joint` (MCSafe, MCSafe_proposals) | 2 owners, one transaction, 2 proposals, one unit of money, a recovery to the threshold 0 | two approval paths compete for the one unit |
| `contracts` (MCContracts) | the treasury (2 managers, 2 proposals of all types, windows of 1, 2, 3, initialized up to twice), each stand-alone contract with several terms, votes, imports; 2 million states | the contracts |
| `services` (MCServices) | 2-3 processes, requests, mails, calls or administrators each | the services that guard others |
| `records` (MCRecords) | 2 requests, users, calls or processes each; beside a transaction only its wallet's threshold changes (`OnlyThresholdsChange`) | the services that keep rows and jobs |
| `progress` (MCProgress) | 2 nodes, 2 attempts, one task and its job, whose every write may fail, three watchers one at a time | what must eventually happen |
| `safe_owners_cannot_sign`, `upgrade_unfreeze_together`, `treasury_second_vote`, `relayed_when_met`, `task_routes` | smallest instances | disagreements of code and documents (below) |

**Why the bounds are enough.** Two signers and a newcomer are the fewest that
can leave, return and be reweighted while others keep a quorum; a word of 4 with
weights up to 2 makes the sum of three weights wrap. Duplicate entries in
an owner list and the threshold 0 are inputs because recovery accepts both. One
transaction and one unit of money suffice to pay twice or from another's share;
two proposals are needed for the cleanup limit of 1 and for two withdrawals in
one window. Times reach one instant beyond the longest period in play, so
*before*, *at* and *after* each deadline occur. Two withdrawals can overrun the
daily limit only, since limits must grow with their period; the three windows
share one definition. For the backend two actors give every order of two
awaits; three processes let one hold the lock, one wait and one come back
late; thresholds of circuits are 1 or 2, so that one failure is not enough
where the code says so; retries and attempts are 2, so that there is a first and a
last one. Every bound is a constant (`MaxTime`, `MaxTransactions`,
`MaxProposals`, `MaxFunds`, `MaxLedger`, `MaxForks`, `MaxRetries`, ...) and only
ever disables filing, depositing, another request or the passage of time.
`OnlyThresholdsChange` is a constraint of one run and cuts behaviours off: the
other wallet operations run in the same run under `part = "wallets"`.

**Deadlock** is checked in `safe_signing`, `proposals_joint`,
`safe_owners_cannot_sign` and `treasury_second_vote`. It is off in the others, where the system
may stop: an upgraded wallet takes no more steps of this code; a treasury
that is not among its own managers refuses every call once time has run out; a
settled escrow, an answered request, a crashed process or a finished call is done.

**Fairness.** None for the contracts: nothing in them schedules a call, and
whether anyone signs or cleans up is up to people. What can be said instead is
safety: `SigningSettles` and `NoneWaitsForExecution` (nothing is left pending
that could be done). In `progress` it is weak fairness of single steps that a
timer or a live event loop takes:

| Part | Fair | Because |
|---|---|---|
| Load balancer | the health check of a provider | each check arms its own `setTimeout` again, success or not (`RPCLoadBalancer.ts:186`) |
| Retries | the timeout of an attempt, the next attempt | `Promise.race` with a timer, then `setTimeout` (`RetryService.ts:273`); the attempt itself is *not* fair: it may hang for ever |
| Tasks | a node starts again; a waiting job is taken; a live worker takes its next step; a handler that does not succeed fails; a stalled job is noticed | Bull polls and runs its stall check by timers, handlers are bounded by the timer of `executeWithTimeout`; success and crashes are not fair. That somebody starts a process again is the one assumption about operation |
| Watchers | each loop's next step | `setTimeout` at the end of each round (`ResourceMonitor.ts:106`). A webhook is awaited before that without a timeout (`ResourceMonitor.ts:398`, `SyncLagAlertService.ts:242`): it answers, or it hangs and its loop takes no step any more. Both are behaviours, and the property says what is left of it |

Each is fair only in the behaviours whose `part` it is. `DistributedLock`
states that time passes, for its own specification; the run of it checks safety.

**Seeded faults.** Every property of a passing run has an operator `Mut...` that
changes a definition the way a plausible slip would (a guard dropped, a
copy not written, a counter not reset, an await moved) and violates the property under the
run's own configuration.

### Disagreements between code and documents

Checked by a run that finds the violation:

| Run | The document | The code |
|---|---|---|
| `upgrade_unfreeze_together` | unfreeze takes all owners (`docs/contracts.md:150`) | with two owners or more it never succeeds: `Err` takes each signature back (`lib.rs:1706`) |
| `safe_owners_cannot_sign` | a recovery should "Update signers and configuration" (`lib.rs:1469`) | it replaces `OWNERS` only; the new owners can neither submit nor sign |
| `treasury_second_vote` | "Second vote should execute the proposal" (`treasury_test.rs:209-217`) | the voter is always the contract itself, so there is no second vote (`treasury.rs:586`) |
| `relayed_when_met` | a transaction whose threshold is met is relayed (`RelayService.ts:44`) | signatures are counted and the count written in two round trips: the smaller count may be written last |
| `task_routes` | "Get metrics" (`routes/tasks.ts:408`) | `/:id`, registered before, serves `/metrics` |

Of the same kind, without a run of their own: an upgrade loses signatures as
unfreeze does (`lib.rs:1898`; `test.rs:330-343` expects the first call to fail and
the second to upgrade); time-lock recovery waits `RECOVERY_PERIOD`, 30 days
(`lib.rs:1465`), not the 180 of `docs/contracts.md:157`; `update_signer_weight`
lowers a weight without the check of `remove_signer` (`lib.rs:1018`), so that
the "deadlock protection" of `docs/contracts.md:103` is passed by reweighting.
Some modules also define what a comment or test promises and the code does not keep; no run checks
these definitions, and the models show the behaviour:

| Definition | What happens instead |
|---|---|
| `SafeExtensions!RollbackUndoes` | "Perform rollback": entries are stored in persistent storage and looked up in instance storage, so none is found (`lib.rs:3078`) |
| `SafeExtensions!OneImportAtATime` | two imports started before the first batch of either both go on (`lib.rs:2913`) |
| `Accounts!InvitedSee` | an invitation is linked only to a user found at that moment: who signs in later never sees it (`schema.prisma:79`) |
| `BulkOperations!CreatedOnce` | batches ignore the transaction they run in; a retry creates items again |
| `EmailQueue!QueuedOnce` | a mail the circuit refuses again is queued by the refusal and by the loop's error handler |
| `EventIndexer!StoredOnce` | poll and backfill may store one event twice |
| `Monitors!LagAlerted` | the lag watcher's current ledger is the indexer's own last one, or 0: the lag is never positive |
| `RateLimits!LimitIsKept`, `StatusShowsUse` | concurrent requests pass on one reading; the table the status shows is written only by refusals |
| `RpcFailover!OutageOpensCircuit` | failures are counted by a name that may belong to another provider by then |
| `TaskExecution!LoadIsRunning`, `FailureDependencyMet` | a begun execution is counted twice in the load; dependencies look at COMPLETED executions only |
| `TaskMonitoring!NeverTwice` | checks that overlap both alert |
| `TaskScheduler!OneJobPerTask`, `MigratedOnce` | two calls or two starting processes each add their own |

Visible in the models as behaviour: `execute_transaction` and `execute_proposal`
look at neither caller nor freeze (`FreezeHolds` and `ProposalsStand` say what is
left); signatures of removed signers stop counting and count again when they
return; old signers still rewrite the `OWNERS` a recovery installed;
`time_lock_recovery` validates neither list nor threshold; a freeze also blocks
the heartbeat that holds off time-lock recovery; any owner may set any owner's
voting weight; a vote and the execution share the last second; failed import items reuse numbers;
a treasury proposal may expire before its time lock ends; budget
allocations carry no lock; escrow votes split evenly strand the money;
the treasury, unlike the stand-alone contracts, may be initialized again, and by anyone
(`treasury.rs:281-374` looks neither for an earlier call nor for a signature):
managers and limits are replaced, counters and ids start anew while
proposals and the log stay, and a new proposal is not found while an old one has
its id (`Initialize`, `Found`); the bridge pays an inbound transfer again for
each confirmation past the minimum (`bridge.rs:204-209`, where line 176 says
"releases tokens when threshold met"); marketplace fees and royalties above the
price block a settlement; an oracle whose submissions deviate keeps its old feed;
the bridge's refund of an expired transfer may be claimed repeatedly; after a failed database call the wallet row
lags the contract for good.

Of the backend: `PUT /:walletId` hands its whole body to the update
(`WalletController.ts:167-169`), and `PUT` and `POST` of
`/api/bulk/wallets` write and create rows (`routes/bulkOperations.ts:39-46`,
`116-122`; `WalletService.ts:449-458`, `496`), all without a contract call: owner,
threshold, recovery and even the contract's address of a row may be anything
(`past` records it; `WalletRowsLagContracts` says that nothing else runs ahead).
Signatures of users who own nothing count towards the threshold although
`routes/transaction.ts:106` says "(signers only)", and `RelayService.ts:99` leaves
blank fragments out, so that a submission may carry fewer signatures than the
threshold that let it pass (`TxRelayedOnIntents` is about intents for that reason).
An execution whose COMPLETED was stored fails, and runs again, when one of the two counters
after it cannot be written (`TaskSchedulerService.ts:386-395`); when the catch block cannot
write, the row of a failed job stays as it was (`untold`). A webhook that hangs
ends the loop of the resource monitor. API versions are decided by headers and never by
the path: mounted at `/api`, the middleware does not see the prefix its pattern
looks for (`apiVersioning.ts:22-27` promises the path priority).

## 5. Proofs

The theorems hold for every value of the constants that the assumptions admit:
any finite set of addresses, any tokens, configurations `__init__` accepts,
amounts, periods, limits and numbers of requests. Every invariant and every action
property that a passing run checks is a theorem; the liveness properties of
`progress` are not.
Each proof finds an inductive invariant, shows that the initial states have it
and that each action keeps it (one step per action, one lemma where an action
moves much), and derives the property.

### The wallet (`SafeProofs`)

| Theorem | Statement | Argument |
|---|---|---|
| `Typing` | `Spec => []TypeOK` | inductive as it stands (`StepTyped`); one lemma per group of entry points, with `ExecuteTyped` and `SignTyped` for the shared paths |
| `SignatureNeeded` | `Spec => []SomeSignatureNeeded` | not inductive: a new threshold is bounded by the number of signers, which must be at most `MAX_OWNERS`. The strengthening `SignersFit` adds it; `ThresholdFitsSigners` bounds the new threshold |
| `Mirror` | `Spec => []LegacyMirror` | inductive with `TypeOK`; each configuration call writes both copies |
| `FreezeIsBounded` | `Spec => []FreezeBounded` | inductive; `FreezeMoves` says which calls move the deadline and how far |
| `FrozenMeansStopped` | `Spec => FreezeHolds` | an action property: every call that configures, submits or signs passes `PassFreezeCheck` |
| `RecoveryIsDelayed` | `Spec => RecoveryWaits` | only `ExecuteRecovery` and the two replacements write the address |
| `SilenceBeforeTimeLock` | `Spec => TimeLockNeedsSilence` | needs the invariant `PaidBeforeHeartbeat`: every payment was a heartbeat and heartbeats only move forward |
| `QuorumPays` | `Spec => PaidWithQuorum` | the weight checked is a remainder modulo `WeightWord`, the property speaks of the sum itself: a remainder is never larger |
| `SignaturesSettle` | `Spec => SigningSettles` | a signature that completes the quorum executes in the same call, and other calls leave signatures, signers and thresholds alone, hence every transaction's weight |
| `ConsentIsOneCall` | `UpgradeSpec => []NoConsentSurvives` | inductive as `NobodyWaits`: between calls no signature of freeze, unfreeze or upgrade is stored. Needs that the owner list names someone, which a call keeps if recovery lists do (the property's own condition): a count over a list, hence `Sums` |
| `SafeIsAVault` | `Spec => IsAVault` | refinement: `StepRefines` maps each call to a filing, a payment, a deposit or a stutter |
| `NoneWaits` | `AllSpec => []NoneWaitsForExecution` | inductive with `TypeOK`: only `VoteForProposal` moves the votes, and one that completes them executes; a cleanup closes |
| `CleanupAndFreezeStand` | `AllSpec => ProposalsStand` | needs `ClosedIsExpired`: what cleanup closed is past its time, and time does not run back, so no vote or execution finds it open |
| `OneVaultHolds` | `AllSpec => OneVault` | refinement: transactions and proposals are two vaults side by side with tagged ids (`FileLeft`, `FileRight`). `CoreIsJoint` lifts `StepRefines`; `GovernanceJoint` maps a creation to a filing, a completing vote and an execution to a payment, a cleanup to a stutter. Needs `PaidIsExecuted`: what is settled is marked executed, so no call settles it again |

### The other contracts (`ContractsProofs`)

`OneContract` says that a step belongs to the contract deployed; the rest is
contract by contract. The three theorems at the end combine them into what the
run checks.

| Theorem | Statement | Argument |
|---|---|---|
| `TreasuryTyped` | types, and `ThresholdFits` | inductive together with what the time locks need (`Governed`): no configured period is 0, and a proposal of a locked type is locked past its creation |
| `LocksAreWaitedOut` | `WithdrawalsWait` | from `Governed`, as every path to a payment looks at the lock and the expiry it was filed with |
| `TreasuryWithinLimits` | `[]TreasuryLimitsHold` | the counter of a window says nothing about an interval that crosses a reset, and one of `initialize` is another kind of reset. `Windowed` is said for each setup of the treasury: it assigns each logged withdrawal the start of its window: windows are a period apart, each withdrawal and those before it in its window were within its limit, and the counter is the sum over the last. A rolling period meets at most two windows (`WindowsKept`) |
| `TreasuryImplementsVault` | `TreasuryIsAVault` | refinement. A proposal's data never change once filed (`Filings`), and only `Executed` grows; a call does one of filing, paying, depositing or neither, reset of counters and roll-over included |
| `EscrowPaysOnce`, `AwardsAreVoted` | `[]EscrowSettledOnce`, `AwardHasItsVotes` | `EscrowKept` ties the state to the money; `Disputing` says the counters are the numbers of ballots and that a dispute still open is short of the votes |
| `InboundPaidOnQuorum` | `PaidOnQuorum` | `BridgeKept`: the confirmations counted are the validators noted, those that left included, and the payouts are a function of their number (`PaysFor`) |
| `WhatIsOwedIsHeld` | `[]PayoutsCovered` | the splitter's pot is deposits less withdrawals and the floors of the shares add up to at most the deposits (`Splitting`); the pool of stakes is their sum (`Pooled`); the marketplace's purse is the open bids and what is unpaid, and an offer's seller is the owner (`Marketed`, `OfferAt`) |
| `WhatIsPaidIsEarned` | `[]OutcomesAreEarned` | vesting is monotonic in time (`Vests`); what was claimed, is stored and would be settled now is within the rate (`Accrued`); the median and two deviations from it (`OracleKept`, `Near`); votes and weights in a poll are those of the voices heard, modulo the word (`Polled`, `Tallied`); rollback entries and errors count what an import did (`AllTold`, `Told`) |
| `CallsKeepTheirBounds` | `CallsAreBounded` | the two above, the oracle's deviation bound, and the pool: with `Filled` (nothing but shares holds the reserves) each division rounds in favour of who stays. First liquidity takes an integer square root, whose existence is shown by the least counterexample (`SquareRoot`) |

### The services (`ServicesProofs`, `DistributedLock`)

| Theorem | Statement | Argument |
|---|---|---|
| `LockTyping`, `LockExcludes` | `[]TypeOK`, `[]AloneUntilExpiry` | a process inside must be known to hold the key. `Held`: inside and not lapsed, its token is the one in Redis, and one key holds one token |
| `OutageRunsOut` | `BreakerOutageRunsItsCourse` | the history `outage` agrees with the circuit (`OnCourse`): an OPEN one waits for the timeout from that opening, one in HALF_OPEN has counted no more successes than came since |
| `SetAside` | `[]RpcSetAside` | flags and failure counts agree for every provider, listed or not, through the loops that add, remove and reset (`Agree`) |
| `MailIsKept` | `[]MailKeptUntilSent` | of what was refused; the mail in hand is the head of the list the loop took (`MailTyped`) |
| `LettersLeave` | `[]LettersLeaveForAReason` | who removes a letter has handled it; what is in the table has not left (`LettersTyped`) |
| `RefusalIsEarned` | `[]LimitRefusalEarned` | a bucket never claims more than was granted since its window began; `Counting` says the same of the copies requests hold between reading and writing, so a lost or late write only forgets use |
| `FreshIsRecent` | `[]TokenPricesAreRecent` | entries of the cache, and requests under way, are no older than `Patience` (`Cached`, `Asking`) |

### The records (`RecordsProofs`)

| Theorem | Statement | Argument |
|---|---|---|
| `ChoicesAreKept` | `[]AccountChoiceStands` | inductive with `Chosen` |
| `CancelledIsOver` | `[]BulkCancelStops` | `Cancelling`: while an item is being written none was written after the cancellation |
| `AlertsAreSpaced` | `MonitorAlertsAreSpaced` | `Watching`: unless a rule was replaced under a waiting check, the object in the map and the one a check holds are the same and know the last alert |
| `FailuresEnd` | `[]FailuresFollowedUp` | `FollowUp`, by the stage a handling has reached: nothing followed yet before it decides, one retry or one letter after, and no two handlings publish the same execution; the stage also says what a handling without a fault still owes |
| `RowsLag` | `[]WalletRowsLagContracts` | `Lagging`: the row of a wallet, and the change a request carries from the contract to the row, are each covered by the history of what its contract was told or by what was written past it (`Covers`, `CoversChange`) |
| `RelayedOnEnough` | `[]TxRelayedOnIntents` | `TxRows` and `Counting`: a count, written or under way, is never above the number of users who put in an intent, for their rows stay |
| `NothingIsPassedOver` | `[]IndexerPassesNothing` | `Indexed`: every ledger up to the cursor, before the batch of the round and outside the batch in hand is settled. A reorganisation behind the cursor excuses the ledgers it replaces |
| `JobsFollow` | `[]SchedulerJobsFollow` | `Follows(n, t)`, by the stage of process `n`'s start: for a task with which nothing went wrong (no write refused, no second call beside the first) it has what the table says, or knows what it lacks (a task still to be loaded, a call under way) |
| `OutcomesAreTold` (in `TaskExecution`), `OutcomesStayTold` (in `MCProgress`) | `[]RowsTellTheOutcome` | `Attempting`: a job is active exactly while a worker is on it, and between the worker's verdict and Bull's the row has what the worker wrote, or the failure to write is noted. Proved for any processes, tasks and executions; `MCProgress` takes the invariant over through its instance |

**Sums.** `MapThenSumSet` is a recursive function over sets and no
prover here can instantiate the library's induction theorems. `Sums` shows what is
needed by the least counterexample: a non-empty set of numbers has a least
element (`WFMin`, which is stated for a set and not for an operator), so the
least size of a set without a solution of the recursion would have one, and the
same for the order of summation not mattering. Its lemmas say how a sum changes
when a term is added, removed or changed and that it respects `<=`. Where a
module reaches the sum through its own instance of the community module
(`Ext!MapThenSumSet`), a lemma identifies the two.

**Assumptions.** Those of the modules: `InitAssumption` (what `__init__`
checks), `NumberAssumption`, `InputAssumption`, `ProposalAssumption`,
`UpgradeAssumption`, `LockAssumption`; of the compositions: `AbsentAssumption`
(the value for *nothing stored* is not a stored value), `ServicesAssumption`,
`RecordsAssumption`, and one per contract (`EscrowAssumption`, ...). They give
types, and say of quantities the code divides by, or takes as the size of a word
or a queue, that they are not 0. Each is evaluated by a passing run. Two say more than
the code checks. `PoolAssumption` bounds the pool's fee by the whole amount:
`initialize` stores any `fee_bps` (`liquidity_pool.rs:49`), and above 10000 the
property fails, for what is left of a swap after the fee is negative: with
reserves of 1 and 1 and a fee of 30000, who swaps 5 gets the 1 the pool has. And the property of the splitter is stated
for shares whose `u32` total does not wrap (`ShareWord`); `initialize` refuses only a
total of 0.

**What stays with TLC.** Liveness (`RecoveredIsUsed`, `EndsDespiteHangs`, `JobsEnd`,
`TroubleIsReported`) and `ENABLED` (`EveryManagerCanVote`) are out of the
prover's reach, and so are the violations, each of which is a behaviour.

## 6. Not modelled

Left out of modelled components: storage TTLs and their extension (the host
decides what expires), contract events, read-only views and pages, the
treasury's counter `active_proposals`, the pool's fee counters and swaps of a
third token, the oracle's timestamps and decimals, statistics and displays of
the backend, imports and exports of wallets (they only fail: a parsed string
meets an object, `JSON.stringify` a `BigInt`), `bulkAddOwners` and
`bulkRemoveOwners` (no route), the reassignment methods of
`DistributedExecutionService` (no caller), the rate-limit queue (constructed at
`index.ts:94`, filled by nobody).

Not modelled as components: rent and persistent data of `lib.rs`
(`top_up_rent` and `store_persistent_data` cannot succeed: a token client at the wallet's own address, a
balance never credited); database backup (external programs and files; its
hazard, a rejection of the scheduled `performBackup` that ends the process, is
listed without a property); heartbeat rows, cron mails, comments' single
queries, sockets, analytics, charts and exports, controllers and middleware that
only parse and delegate (no protocol of their own); the frontend, whose contract
calls are placeholders; schema, deployment and documents.
`PROJECT.json` gives the reason for each.

What could follow: invariants of the load balancer, the retries and the watchers
beside the liveness the run checks; the composition of the indexer with
the rows of `Transactions` once the backend reads its events.
