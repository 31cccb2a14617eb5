\* The services that guard others: lock, circuits, RPC failover, mail, dead letters, limits, prices.
SPECIFICATION ServicesSpec
CONSTANTS
    a = a  b = b  d = d  none = none
    Process = {a, b, d}
    TTL = 3  RENEWAL = 1
    NoOne = NoOne  Nobody = Nobody
    BreakerConfig <- Twice
    Call = {a, b}  alertInterval = 2  highFailures = 1  maxAlertHistory = 2  MaxOpens = 1
    failureThreshold = 1  successThreshold = 1  timeout = 1  monitoringPeriod = 2
    Provider = {a, b}  Caller = {a, d}  InitProviders <- TwoProviders
    unhealthyAfter = 2  MaxProviders = 2
    Mail = {a, b, d}  queueLimit = 2  keepFor = 1
    Message = {a, b}  Admin = {d, none}  maxRetention = 1  MaxRetries = 1
    Request = {a, b}  Rule <- TwoTiers  windowMs = 2  burstWindowMs = 2  MaxGrants = 3
    Ask = {a, b}  Token = {"USDC"}  PriceTTL = 1  Patience = 1  MaxFound = 1
    LongTime = 4  ShortTime = 2
INVARIANTS AloneUntilExpiry RpcSetAside MailKeptUntilSent LettersLeaveForAReason
    LimitRefusalEarned TokenPricesAreRecent
PROPERTY BreakerOutageRunsItsCourse
CHECK_DEADLOCK FALSE
