\* What the backend must eventually do, under the fairness of its timers and processes.
SPECIFICATION ProgressSpec
CONSTANTS
    a = a  b = b  none = none
    Resource = {"CPU", "DISK"}  syncLagWarning = 0  syncLagCritical = 1
    minSyncFrequency = 1  cacheTime = 1  MaxLedger = 3
    Started = {{"health"}, {"monitor"}, {"lag"}}
INVARIANTS RowsTellTheOutcome
PROPERTIES RecoveredIsUsed EndsDespiteHangs JobsEnd TroubleIsReported
CHECK_DEADLOCK FALSE
