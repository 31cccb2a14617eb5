------------------------------ MODULE Monitors ------------------------------
(***************************************************************************)
(* The three watchers index.ts starts beside the indexer: the loops of     *)
(* IndexerHealthChecker.ts, SyncLagAlertService.ts and ResourceMonitor.ts, *)
(* which read the network, the indexer's row and the machine, and write    *)
(* rows of the alert table.                                                *)
(***************************************************************************)
EXTENDS Integers, FiniteSets

CONSTANTS
    Resource,                           \* "CPU", "MEMORY", "DISK"
    syncLagWarning, syncLagCritical,    \* of both lag watchers, in ledgers
    minSyncFrequency, cacheTime,        \* in ticks
    MaxLedger,
    Started                             \* sets of watchers looked at together

ASSUME MonitorsAssumption ==
    /\ syncLagWarning < syncLagCritical /\ syncLagCritical < MaxLedger
    /\ minSyncFrequency > 0 /\ cacheTime > 0

VARIABLES
    rpcUp, dbUp,        \* whether the services answer
    latest, lastLedger, \* the network's ledger, and the row of the indexer:
    syncAge, checkAge,  \* ticks since lastSync, and since lastHealthCheck
    isHealthy,
    usage, readable,    \* of each resource: 0, 1 (warning) or 2 (critical)
    health,             \* the checker: [step, network, row]
    lag,                \* the alert service: [step, indexed]
    monitor,            \* the resource monitor: [step, metrics, left]
    running,            \* whether each runs; the checker itself has no such flag
    alerts              \* unacknowledged rows: [type, severity]

worldVars == <<rpcUp, dbUp, latest, usage, readable>>
rowVars == <<lastLedger, syncAge, checkAge, isHealthy>>
monitorVars == <<worldVars, rowVars, health, lag, monitor, running, alerts>>

Severity == {"WARNING", "CRITICAL"}
Alert(type, severity) == [type |-> type, severity |-> severity]
NoRow == [found |-> FALSE, ledger |-> 0, stale |-> FALSE]
Row == [found |-> dbUp, ledger |-> IF dbUp THEN lastLedger ELSE 0,
        stale |-> dbUp /\ syncAge > minSyncFrequency]
Quiet == [r \in Resource |-> 0]
Watchers == {"health", "lag", "monitor"}

(* The severity of a lag, "INFO" below both thresholds.                     *)
LagSeverity(l) ==
    CASE l > syncLagCritical -> "CRITICAL"
      [] l > syncLagWarning /\ l <= syncLagCritical -> "WARNING"
      [] OTHER -> "INFO"

Init ==
    /\ rpcUp = TRUE /\ dbUp = TRUE
    /\ latest = 1 /\ lastLedger = 1
    /\ syncAge = 0 /\ checkAge = cacheTime + 1      \* no check yet
    /\ isHealthy = TRUE
    /\ usage = Quiet /\ readable = [r \in Resource |-> TRUE]
    /\ \E on \in Started : running = [w \in Watchers |-> w \in on]
    /\ health = [step |-> IF running["health"] THEN "network" ELSE "off", network |-> 0, row |-> NoRow]
    /\ lag = [step |-> IF running["lag"] THEN "row" ELSE "off", indexed |-> 0]
    /\ monitor = [step |-> IF running["monitor"] THEN "measure" ELSE "off", metrics |-> Quiet,
                  left |-> {}]
    /\ alerts = {}

-----------------------------------------------------------------------------
(* The network, the machine, the indexer, and the users of the alerts.      *)

(* Only what a watcher that runs can see changes.                           *)
Network ==
    /\ \/ rpcUp' = ~rpcUp /\ UNCHANGED latest
       \/ latest < MaxLedger /\ latest' = latest + 1 /\ UNCHANGED rpcUp
    /\ running["health"] \/ running["lag"]
    /\ UNCHANGED <<dbUp, usage, readable, rowVars, health, lag, monitor, running, alerts>>

Database ==
    /\ dbUp' = ~dbUp
    /\ UNCHANGED <<rpcUp, latest, usage, readable, rowVars, health, lag, monitor, running, alerts>>

Machine(r) ==
    /\ running["monitor"]
    /\ \/ \E u \in 0..2 : usage' = [usage EXCEPT ![r] = u] /\ UNCHANGED readable
       \/ readable' = [readable EXCEPT ![r] = ~@] /\ UNCHANGED usage
    /\ UNCHANGED <<rpcUp, dbUp, latest, rowVars, health, lag, monitor, running, alerts>>

Tick ==
    /\ running["health"] \/ running["lag"]
    /\ syncAge' = IF syncAge > minSyncFrequency THEN syncAge ELSE syncAge + 1
    /\ checkAge' = IF checkAge > cacheTime THEN checkAge ELSE checkAge + 1
    /\ UNCHANGED <<worldVars, lastLedger, isHealthy, health, lag, monitor, running, alerts>>

(* updateLastLedger and updateIndexerHealth of the indexer's poll.          *)
IndexerPolls ==
    /\ rpcUp /\ dbUp /\ (running["health"] \/ running["lag"])
    /\ \E l \in lastLedger..latest :
          /\ lastLedger' = l
          /\ syncAge' = IF l > lastLedger THEN 0 ELSE syncAge
    /\ isHealthy' = TRUE
    /\ UNCHANGED <<worldVars, checkAge, health, lag, monitor, running, alerts>>

(* acknowledgeAlert; clearOldAlerts only removes acknowledged rows.         *)
AcknowledgeAlert(a) ==
    /\ a \in alerts /\ dbUp
    /\ alerts' = alerts \ {a}
    /\ UNCHANGED <<worldVars, rowVars, health, lag, monitor, running>>

-----------------------------------------------------------------------------
(* IndexerHealthChecker.                                                    *)

GetCurrentNetworkLedger ==
    /\ health.step = "network"
    /\ health' = [health EXCEPT !.step = "row", !.network = IF rpcUp THEN latest ELSE 0]
    /\ UNCHANGED <<worldVars, rowVars, lag, monitor, running, alerts>>

GetIndexerState ==
    /\ health.step = "row"
    /\ health' = [health EXCEPT !.step = "report", !.row = Row]
    /\ UNCHANGED <<worldVars, rowVars, lag, monitor, running, alerts>>

SyncLag == health.network - health.row.ledger

DetermineHealth(slow) ==
    SyncLag <= syncLagCritical /\ ~slow /\ ~health.row.stale

CheckAlerts(slow) ==
    {Alert("INDEXER_HEALTH", s) :
        s \in (({LagSeverity(SyncLag)} \cup (IF slow THEN {"WARNING"} ELSE {})
                \cup (IF health.row.stale THEN {"CRITICAL"} ELSE {})) \ {"INFO"})}

(* updateHealthStatus, checkAlerts, and the timer of the next check, which  *)
(* stop does not prevent: it only clears one that is set.                   *)
ReportHealth(slow) ==
    /\ health.step = "report"
    /\ IF dbUp
         THEN /\ isHealthy' = DetermineHealth(slow) /\ checkAge' = 0
              /\ alerts' = alerts \cup CheckAlerts(slow)
         ELSE UNCHANGED <<isHealthy, checkAge, alerts>>
    /\ health' = [step |-> "rest", network |-> 0, row |-> NoRow]
    /\ UNCHANGED <<worldVars, lastLedger, syncAge, lag, monitor, running>>

NextCheck ==
    /\ health.step = "rest"
    /\ health' = [health EXCEPT !.step = "network"]
    /\ UNCHANGED <<worldVars, rowVars, lag, monitor, running, alerts>>

-----------------------------------------------------------------------------
(* SyncLagAlertService: the current ledger is the indexer's own last one    *)
(* when a health check was recent, and 0 otherwise.                         *)

ReadIndexed ==
    /\ lag.step = "row"
    /\ lag' = IF dbUp THEN [step |-> "current", indexed |-> lastLedger]
                      ELSE [step |-> "rest", indexed |-> 0]
    /\ UNCHANGED <<worldVars, rowVars, health, monitor, running, alerts>>

CachedLedger == IF dbUp /\ checkAge <= cacheTime THEN lastLedger ELSE 0

(* A row that is stored is notified; so is the next round again at the mercy*)
(* of a webhook without a timeout.                                          *)
CheckSyncLag ==
    /\ lag.step = "current"
    /\ LET severity == LagSeverity(CachedLedger - lag.indexed)
       IN  IF dbUp /\ severity # "INFO"
             THEN /\ alerts' = alerts \cup {Alert("SYNC_LAG", severity)}
                  /\ \E s \in {"webhook", "hung"} : lag' = [step |-> s, indexed |-> 0]
             ELSE lag' = [step |-> "rest", indexed |-> 0] /\ UNCHANGED alerts
    /\ UNCHANGED <<worldVars, rowVars, health, monitor, running>>

LagWebhookAnswers ==
    /\ lag.step = "webhook"
    /\ lag' = [lag EXCEPT !.step = "rest"]
    /\ UNCHANGED <<worldVars, rowVars, health, monitor, running, alerts>>

NextLagCheck ==
    /\ lag.step = "rest" /\ running["lag"]
    /\ lag' = [lag EXCEPT !.step = "row"]
    /\ UNCHANGED <<worldVars, rowVars, health, monitor, running, alerts>>

-----------------------------------------------------------------------------
(* ResourceMonitor: a resource that cannot be read counts as unused.        *)

MutWarningFirst(u) == IF u >= 1 THEN "WARNING" ELSE IF u = 2 THEN "CRITICAL" ELSE "INFO"
CheckThresholds(u) == IF u = 2 THEN "CRITICAL" ELSE IF u >= 1 THEN "WARNING" ELSE "INFO"
Rank(r) == CHOOSE i \in 1..3 : <<"CPU", "MEMORY", "DISK">>[i] = r

(* The alerts of a round that are left; after the last one it is over.      *)
Handling(metrics, left) ==
    IF left = {} THEN [step |-> "rest", metrics |-> Quiet, left |-> {}]
                 ELSE [step |-> "handle", metrics |-> metrics, left |-> left]

GetMetrics ==
    LET metrics == [r \in Resource |-> IF readable[r] THEN usage[r] ELSE 0]
    IN  /\ monitor.step = "measure"
        /\ monitor' = Handling(metrics, {r \in Resource : CheckThresholds(metrics[r]) # "INFO"})
        /\ UNCHANGED <<worldVars, rowVars, health, lag, running, alerts>>

(* handleAlert, one alert after the other.  A row that cannot be stored     *)
(* does not keep the webhook from being called; a critical one waits for it.*)
HandleAlert(r) ==
    LET severity == CheckThresholds(monitor.metrics[r])
        rest == monitor.left \ {r}
    IN  /\ monitor.step = "handle" /\ r \in monitor.left
        /\ \A q \in monitor.left : Rank(r) <= Rank(q)
        /\ alerts' = IF dbUp THEN alerts \cup {Alert(r, severity)} ELSE alerts
        /\ \/ severity = "WARNING" /\ monitor' = Handling(monitor.metrics, rest)
           \/ severity = "CRITICAL" /\ monitor' = [monitor EXCEPT !.step = "webhook", !.left = rest]
           \/ severity = "CRITICAL" /\ monitor' = [step |-> "hung", metrics |-> Quiet, left |-> {}]
        /\ UNCHANGED <<worldVars, rowVars, health, lag, running>>

(* sendWebhookNotification: an answer or an error; without a timeout the    *)
(* call may also hang, and then the next round is never armed.              *)
WebhookAnswers ==
    /\ monitor.step = "webhook"
    /\ monitor' = Handling(monitor.metrics, monitor.left)
    /\ UNCHANGED <<worldVars, rowVars, health, lag, running, alerts>>

NextMeasure ==
    /\ monitor.step = "rest" /\ running["monitor"]
    /\ monitor' = [monitor EXCEPT !.step = "measure"]
    /\ UNCHANGED <<worldVars, rowVars, health, lag, running, alerts>>

(* gracefulShutdown.                                                        *)
StopWatching ==
    /\ \E w \in Watchers : running[w]
    /\ running' = [w \in Watchers |-> FALSE]
    /\ health' = IF health.step = "rest" THEN [health EXCEPT !.step = "off"] ELSE health
    /\ UNCHANGED <<worldVars, rowVars, lag, monitor, alerts>>

Checking ==
    \/ GetCurrentNetworkLedger \/ GetIndexerState \/ NextCheck
    \/ \E slow \in BOOLEAN : ReportHealth(slow)
LagChecking == ReadIndexed \/ CheckSyncLag \/ LagWebhookAnswers \/ NextLagCheck
Monitoring ==
    \/ GetMetrics \/ WebhookAnswers \/ NextMeasure
    \/ \E r \in Resource : HandleAlert(r)

Next ==
    \/ Network \/ Database \/ Tick \/ IndexerPolls \/ StopWatching
    \/ \E r \in Resource : Machine(r)
    \/ \E a \in alerts : AcknowledgeAlert(a)
    \/ Checking \/ LagChecking \/ Monitoring

(* Timers fire, and calls return or are given up, but for a webhook that    *)
(* hangs: with it its loop has ended.                                       *)
Fairness == WF_monitorVars(Checking) /\ WF_monitorVars(LagChecking) /\ WF_monitorVars(Monitoring)
Spec == Init /\ [][Next]_monitorVars /\ Fairness

-----------------------------------------------------------------------------
(* A machine that stays at a critical level and an indexer that stays       *)
(* critically far behind are reported, unless the process is stopped or the *)
(* sources stop answering: acknowledging a row does not silence the next.   *)
(* Of the machine that is so until a call of the webhook hangs; the lag is  *)
(* reported whatever hangs.                                                 *)
CriticalLag == dbUp /\ rpcUp /\ latest - lastLedger > syncLagCritical
TroubleIsReported ==
    /\ \A r \in Resource :
          <>[](dbUp /\ running["monitor"] /\ usage[r] = 2 /\ readable[r])
              => \/ []<>(Alert(r, "CRITICAL") \in alerts)
                 \/ <>(monitor.step = "hung")
    /\ <>[](CriticalLag /\ running["health"]) => []<>(Alert("INDEXER_HEALTH", "CRITICAL") \in alerts)

(* "Check sync lag and trigger alerts if needed": an indexer that stays     *)
(* critically far behind gets an alert of the alert service too.            *)
LagAlerted ==
    <>[](CriticalLag /\ running["lag"])
        => <>(\E s \in Severity : Alert("SYNC_LAG", s) \in alerts)
=============================================================================
