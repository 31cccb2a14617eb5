\* Is a transaction relayed once its threshold is met?
SPECIFICATION Spec
CONSTANTS
    User = {u, v}  Address = {u, v}  Wallet = {w}  Contract = {c}  Request = {r}
    Thresholds = {2}  Recoveries = {x}  Names = {n}  DefaultName = n
    NoRow = NoRow  Idle = Idle  MaxTold = 2
    Call = {c, d}  Faults = FALSE  Fragments = {f}  Blank = blank  NoTx = NoTx  NoSignature = NoSignature
    MaxRelays = 1
INVARIANT RelayedWhenMet
CHECK_DEADLOCK FALSE
