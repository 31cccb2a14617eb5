\* Signing, paying, configuration and short freezes: two signers and a newcomer, one transaction.
SPECIFICATION SigningSpec
CONSTANTS
    alice = alice  bob = bob  carol = carol  rescue = rescue
    usdc = usdc  account = account  v1 = v1  v2 = v2
    Address = {alice, bob, carol}
    Token = {usdc}
    NoRequest = NoRequest
    InitSigners <- Pair
    Levels <- OneTwoTwo
    InitLevel = 2
    RecoveryDelay = 1
    InitRecovery = carol  InitRecoveryPath = carol  InitRecoveryKey = carol
    MAX_OWNERS = 3
    MIN_FREEZE_DURATION = 1  MAX_FREEZE_DURATION = 1
    FREEZE_THRESHOLD_RATIO = 3
    RECOVERY_PERIOD = 2  TIME_LOCK_PERIOD = 1
    WeightWord = 4
    Destinations = {usdc, account}
    Amounts = {0, 1}
    Lifetimes = {0}
    Weights = {1, 2}
    FreezeDurations = {1}
    OwnerLists = {}
    Thresholds = {0, 3}
    RecoveryChoices = {carol}
    Deposits = {1}
    MaxFunds = 1
    MaxTransactions = 1
    MaxTime = 1
    MIN_PROPOSAL_DURATION = 1  MAX_PROPOSAL_DURATION = 1
    CLEANUP_THRESHOLD = 1
    Assets = {}  ProposalAmounts = {}  ProposalDurations = {}  MaxProposals = 0
    Wasm = {v1}  InitWasm = v1  CURRENT_VERSION = 1
INVARIANTS SomeSignatureNeeded LegacyMirror
PROPERTIES PaidWithQuorum SigningSettles IsAVault
