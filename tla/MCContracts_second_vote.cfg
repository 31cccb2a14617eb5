\* Can every manager vote?
SPECIFICATION ContractsSpec
CONSTANTS
    x = x  y = y  z = z  none = none
    treasury = treasury  ann = ann  usdc = usdc
    Arbitrators = {x, y, z}  Terms <- EscrowTerms  EscrowTime = 2
    Schedules <- VestingSchedules  VestingTime = 5
    Payee = {x, y, z}  Splits <- TwoSplits  ShareWord = 8  Minima = {0, 2}  Payments = {0, 1, 5}
    MaxDeposited = 9
    Staker = {x, y}  Configs <- StakingConfigs  RewardUnit = 2  StakeSums = {1, 2}  Gifts = {1}
    MaxStake = 2  MaxHeld = 3  StakingTime = 4
    Provider = {x, y, z}  Prices = {100, 104, 109, 120}  min_providers = 2  max_deviation_bps = 800
    Person = {x, y}  MarketFees = {5000, 10000, 10001}  RoyaltyBps = {0, 5000, 5001}  Asked = {2, 4}
    AuctionPeriods = {0, 1}  MaxTokens = 2  AuctionTime = 1
    Lp = {x, y}  PoolFees = {0, 3000}  PoolSums = {1, 2, 5}  Floors = {0, 2}  MaxReserve = 8
    Validator = {x, y, z}  Chain = {x}  Inbound = {x}  minValidators = 2  transferTimeout = 1
    feeRate = 5000  Locks = {2, 4}  Payouts = {1, 2}  MaxLocks = 2  BridgeTime = 2
    Owner = {x, y}  Weights = {2, 4}  Periods = {0, 1, 3}
    MIN_VOTING_PERIOD = 1  MAX_VOTING_PERIOD = 2  Damping = 2  Word = 6  MaxPolls = 1  VotingTime = 2
    Totals = {0, 1, 3, 5}  MAX_IMPORT_ITEMS = 3  Batches = {0, 1, 2, 3}  IMPORT_BATCH_SIZE = 2
    MaxImports = 2
    Address = {treasury, ann}
    Self = treasury
    Asset = {usdc}
    InitManagers = {treasury, ann}
    InitThreshold = 2
    InitLimits <- TwoFourFive
    InitTimeLock <- LockTwo
    MAX_MANAGERS = 2
    Period <- OneTwoThree
    min_proposal_duration = 1  max_proposal_duration = 3
    Limits = {}
    TimeLocks = {}
    Setups = {}
    Motions <- OneParameter
    Durations = {3}
    Candidates = {}
    Deposits = {1}
    MaxFunds = 1
    MaxProposals = 1
    MaxTime = 2
    MaxSetups = 1
INVARIANTS SecondVoteCounts
