\* The owners a recovery installs are not signers.
SPECIFICATION SigningSpec
CONSTANTS
    alice = alice  bob = bob  carol = carol  rescue = rescue
    usdc = usdc  account = account  v1 = v1  v2 = v2
    Address = {alice, rescue}
    Token = {usdc}
    NoRequest = NoRequest
    InitSigners = {alice}
    Levels <- OneTwoTwo
    InitLevel = 1
    RecoveryDelay = 1
    InitRecovery = rescue  InitRecoveryPath = rescue  InitRecoveryKey = rescue
    MAX_OWNERS = 3
    MIN_FREEZE_DURATION = 1  MAX_FREEZE_DURATION = 2
    FREEZE_THRESHOLD_RATIO = 3
    RECOVERY_PERIOD = 1  TIME_LOCK_PERIOD = 2
    WeightWord = 100
    Destinations = {usdc}
    Amounts = {1}
    Lifetimes = {2}
    Weights = {1}
    FreezeDurations = {}
    OwnerLists <- RescueOrTwice
    Thresholds = {0, 1}
    RecoveryChoices = {rescue, alice}
    Deposits = {1}
    MaxFunds = 1
    MaxTransactions = 1
    MaxTime = 2
    MIN_PROPOSAL_DURATION = 1  MAX_PROPOSAL_DURATION = 1
    CLEANUP_THRESHOLD = 1
    Assets = {}  ProposalAmounts = {}  ProposalDurations = {}  MaxProposals = 0
    Wasm = {v1}  InitWasm = v1  CURRENT_VERSION = 1
INVARIANT OwnersCanSign
