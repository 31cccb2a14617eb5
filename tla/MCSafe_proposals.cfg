\* Proposals beside a transaction: votes, freezes, expiry and cleanup, a threshold of 0 after a time-lock recovery.
SPECIFICATION ProposingSpec
CONSTANTS
    alice = alice  bob = bob  carol = carol  rescue = rescue
    usdc = usdc  account = account  v1 = v1  v2 = v2
    Address = {alice, bob}
    Token = {usdc}
    NoRequest = NoRequest
    InitSigners = {alice, bob}
    Levels <- AllTwo
    InitLevel = 2
    RecoveryDelay = 1
    InitRecovery = alice  InitRecoveryPath = alice  InitRecoveryKey = alice
    MAX_OWNERS = 2
    MIN_FREEZE_DURATION = 1  MAX_FREEZE_DURATION = 1
    FREEZE_THRESHOLD_RATIO = 3
    RECOVERY_PERIOD = 2  TIME_LOCK_PERIOD = 3
    WeightWord = 100
    Destinations = {usdc}
    Amounts = {1}
    Lifetimes = {1}
    Weights = {}
    FreezeDurations = {1}
    OwnerLists <- AliceOnce
    Thresholds = {0}
    RecoveryChoices = {alice}
    Deposits = {1}
    MaxFunds = 1
    MaxTransactions = 1
    MaxTime = 2
    MIN_PROPOSAL_DURATION = 1  MAX_PROPOSAL_DURATION = 1
    CLEANUP_THRESHOLD = 1
    Assets = {usdc}
    ProposalAmounts = {1}
    ProposalDurations = {1}
    MaxProposals = 2
    Wasm = {v1}  InitWasm = v1  CURRENT_VERSION = 1
INVARIANT NoneWaitsForExecution
PROPERTIES ProposalsStand OneVault
