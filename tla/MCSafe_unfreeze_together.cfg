\* Both owners ask to unfreeze in one ledger.
SPECIFICATION FreezingSpec
CONSTANTS
    alice = alice  bob = bob  carol = carol  rescue = rescue
    usdc = usdc  account = account  v1 = v1  v2 = v2
    Address = {alice, bob}
    Token = {}
    NoRequest = NoRequest
    InitSigners = {alice, bob}
    Levels <- OneTwoTwo
    InitLevel = 2
    RecoveryDelay = 1
    InitRecovery = alice  InitRecoveryPath = alice  InitRecoveryKey = alice
    MAX_OWNERS = 2
    MIN_FREEZE_DURATION = 1  MAX_FREEZE_DURATION = 1
    FREEZE_THRESHOLD_RATIO = 3
    RECOVERY_PERIOD = 1  TIME_LOCK_PERIOD = 2
    WeightWord = 100
    Destinations = {}
    Amounts = {1}
    Lifetimes = {1}
    Weights = {1}
    FreezeDurations = {1}
    OwnerLists = {}
    Thresholds = {1, 2}
    RecoveryChoices = {alice}
    Deposits = {}
    MaxFunds = 2
    MaxTransactions = 0
    MaxTime = 2
    Wasm = {v1, v2}
    InitWasm = v1
    CURRENT_VERSION = 1
    MIN_PROPOSAL_DURATION = 1  MAX_PROPOSAL_DURATION = 1
    CLEANUP_THRESHOLD = 1
    Assets = {}  ProposalAmounts = {}  ProposalDurations = {}  MaxProposals = 0
INVARIANT UnanimousUnfreeze
CHECK_DEADLOCK FALSE
