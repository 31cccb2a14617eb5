\* The rows and jobs of the backend: wallets, transactions, accounts, bulk calls, the indexer, tasks.
SPECIFICATION RecordsSpec
CONSTANTS
    a = a  b = b  c = c  d = d  none = none  gone = gone
    Address = {a, b}  Wallet = {d}  Contract = {c}  Thresholds = {1, 2}  Recoveries = {d}
    User = {a}  Request = {a, b}  Names = {a, b}  DefaultName = b  MaxTold = 3
    TxUser = {a, b}  TxRequest = {a}  TxNames = {a}  TxDefaultName = a  TxMaxTold = 2
    TxCall = {c, d}  Faults = TRUE  Fragments = {a}  Blank = b  MaxRelays = 1
    Account = {a, b}  Prefix <- SharedPrefix  Login = {c, d}  Invite = {a}
    Choices = {"x", "y"}  Default = "d"  MaxInvitations = 1
    N = 2  maxConcurrency = 2  TxAttempts = 2  maxRetries = 1  MaxCopies = 2  Calls <- AllCalls
    MaxLedger = 2  MaxForks = 1  EventCopies = 1  batchSize = 1  MaxCalls = 1
    Node = {a, b}  Task = {c, d}  TaskCall = {c, d}  BuiltIn = {a}  Custom = b
    MaxStarts = 2  MaxChanges = 2
    Rule = {a, b}  Check = {c, d}  DefaultRules = {a}  Slow = {a}  Quiet = 1
    MaxTime = 1  MaxUpdates = 1
    Exec = {a, b, c}  Policy <- Policies  FirstPolicy <- Once
    Marks = {{"timeout", "validation"}, {"prisma", "invalid"}, {"forbidden"}, {}}
CONSTRAINT OnlyThresholdsChange
INVARIANTS WalletRowsLagContracts TxRelayedOnIntents AccountChoiceStands BulkCancelStops
    IndexerPassesNothing SchedulerJobsFollow FailuresFollowedUp
PROPERTY MonitorAlertsAreSpaced
CHECK_DEADLOCK FALSE
