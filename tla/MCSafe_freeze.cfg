\* Freezes that are extended, run out or are lifted, upgrades, every recovery path, and what goes on meanwhile.
SPECIFICATION FreezingSpec
CONSTANTS
    alice = alice  bob = bob  carol = carol  rescue = rescue
    usdc = usdc  account = account  v1 = v1  v2 = v2
    Address = {alice, bob}
    Token = {usdc}
    NoRequest = NoRequest
    InitSigners = {alice, bob}
    Levels <- OneTwoTwo
    InitLevel = 2
    RecoveryDelay = 1
    InitRecovery = alice  InitRecoveryPath = alice  InitRecoveryKey = alice
    MAX_OWNERS = 3
    MIN_FREEZE_DURATION = 1  MAX_FREEZE_DURATION = 2
    FREEZE_THRESHOLD_RATIO = 1
    RECOVERY_PERIOD = 2  TIME_LOCK_PERIOD = 3
    WeightWord = 100
    Destinations = {usdc}
    Amounts = {1}
    Lifetimes = {2}
    Weights = {1}
    FreezeDurations = {2, 3}
    OwnerLists <- AllOrTwice
    Thresholds = {2}
    RecoveryChoices = {bob}
    Deposits = {1}
    MaxFunds = 1
    MaxTransactions = 1
    MaxTime = 3
    Wasm = {v1, v2}
    InitWasm = v1
    CURRENT_VERSION = 1
    MIN_PROPOSAL_DURATION = 1  MAX_PROPOSAL_DURATION = 1
    CLEANUP_THRESHOLD = 1
    Assets = {}  ProposalAmounts = {}  ProposalDurations = {}  MaxProposals = 0
INVARIANTS TypeOK NoConsentSurvives
PROPERTIES FreezeHolds RecoveryWaits TimeLockNeedsSilence
CHECK_DEADLOCK FALSE
