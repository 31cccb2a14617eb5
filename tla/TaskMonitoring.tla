--------------------------- MODULE TaskMonitoring ---------------------------
(***************************************************************************)
(* backend/src/services/TaskMonitoringService.ts: alert rules, evaluated   *)
(* every minute by checks that may overlap, while the API replaces rules.  *)
(* What the metrics say, and whether reading them works, is left open.     *)
(***************************************************************************)
EXTENDS Integers

CONSTANTS
    Rule, Check,
    DefaultRules,   \* of initializeDefaultAlertRules
    Slow,           \* rules of MISSED_EXECUTION, which ask the database
    Quiet,          \* five minutes, in ticks
    MaxTime, MaxUpdates,
    Idle

VARIABLES
    rules,          \* the rules in the map
    version,        \* which object the map has for a rule: updates replace it
    isActive,       \* of that object
    lastTriggered,  \* of every object; -1 is never
    monitoring,     \* the interval is set
    checks,         \* Idle, or what a check has still to look at and holds
    now,
    alertedAt, alerts,  \* history: the last alert of a rule, their number
    raced           \* history: rules replaced while a check held their object

monVars == <<rules, version, isActive, lastTriggered, monitoring, checks, now,
             alertedAt, alerts, raced>>
ruleVars == <<rules, version, isActive>>
alertVars == <<lastTriggered, alertedAt, alerts>>

None == "none"
Holding(r) == {c \in Check : checks[c] # Idle /\ checks[c].holds = r}

Init ==
    /\ rules = DefaultRules
    /\ version = [r \in Rule |-> 0]
    /\ isActive = [r \in Rule |-> TRUE]
    /\ lastTriggered = [r \in Rule |-> [v \in 0..MaxUpdates |-> -1]]
    /\ monitoring = FALSE
    /\ checks = [c \in Check |-> Idle]
    /\ now = 0
    /\ alertedAt = [r \in Rule |-> -1]
    /\ alerts = [r \in Rule |-> 0]
    /\ raced = {}

(* start and stop; a check under way goes on.                               *)
SetMonitoring ==
    /\ monitoring' = ~monitoring
    /\ UNCHANGED <<ruleVars, alertVars, checks, now, raced>>

(* performHealthChecks: the metrics were read, or the check ends here.      *)
BeginCheck(c) ==
    /\ monitoring /\ checks[c] = Idle
    /\ checks' = [checks EXCEPT ![c] = [todo |-> rules, holds |-> None, version |-> 0]]
    /\ UNCHANGED <<ruleVars, alertVars, monitoring, now, raced>>

(* triggerAlert, on the object a check holds.                               *)
TriggerAlert(r, v) ==
    IF lastTriggered[r][v] >= 0 /\ now - lastTriggered[r][v] < Quiet
      THEN UNCHANGED alertVars
      ELSE /\ lastTriggered' = [lastTriggered EXCEPT ![r][v] = now]
           /\ alertedAt' = [alertedAt EXCEPT ![r] = now]
           /\ alerts' = [alerts EXCEPT ![r] = @ + 1]

(* evaluateAlertRule of the rules that need no query, and the begin of the  *)
(* others.  A rule removed since is skipped, one added is visited.          *)
Evaluate(c, r, holds) ==
    /\ checks[c] # Idle /\ checks[c].holds = None /\ r \in checks[c].todo
    /\ IF r \in rules /\ isActive[r] /\ r \in Slow
         THEN /\ checks' = [checks EXCEPT ![c].todo = @ \ {r}, ![c].holds = r,
                                          ![c].version = version[r]]
              /\ UNCHANGED alertVars
         ELSE /\ checks' = [checks EXCEPT ![c].todo = @ \ {r}]
              /\ IF r \in rules /\ isActive[r] /\ holds
                   THEN TriggerAlert(r, version[r]) ELSE UNCHANGED alertVars
    /\ UNCHANGED <<ruleVars, monitoring, now, raced>>

(* The query for missed executions has answered.                            *)
EvaluateMissed(c, missed) ==
    /\ checks[c] # Idle /\ checks[c].holds # None
    /\ IF missed THEN TriggerAlert(checks[c].holds, checks[c].version) ELSE UNCHANGED alertVars
    /\ checks' = [checks EXCEPT ![c].holds = None]
    /\ UNCHANGED <<ruleVars, monitoring, now, raced>>

EndCheck(c) ==
    /\ checks[c] # Idle /\ checks[c].holds = None /\ checks[c].todo = {}
    /\ checks' = [checks EXCEPT ![c] = Idle]
    /\ UNCHANGED <<ruleVars, alertVars, monitoring, now, raced>>

(* addAlertRule, under an id of its own.                                    *)
AddAlertRule(r) ==
    /\ r \notin rules /\ alerts[r] = 0 /\ version[r] = 0
    /\ r \notin DefaultRules /\ isActive[r]
    /\ rules' = rules \cup {r}
    /\ checks' = [c \in Check |-> IF checks[c] = Idle THEN Idle
                                  ELSE [checks[c] EXCEPT !.todo = @ \cup {r}]]
    /\ UNCHANGED <<version, isActive, alertVars, monitoring, now, raced>>

(* removeAlertRule; the id is not given again.                              *)
RemoveAlertRule(r) ==
    /\ r \in rules
    /\ rules' = rules \ {r}
    /\ isActive' = [isActive EXCEPT ![r] = FALSE]
    /\ UNCHANGED <<version, alertVars, monitoring, checks, now, raced>>

MutFreshObject(r, active) ==
    /\ r \in rules /\ version[r] < MaxUpdates
    /\ version' = [version EXCEPT ![r] = @ + 1]
    /\ isActive' = [isActive EXCEPT ![r] = active]
    /\ raced' = IF Holding(r) # {} THEN raced \cup {r} ELSE raced
    /\ UNCHANGED <<rules, lastTriggered, monitoring, checks, now, alertedAt, alerts>>
(* updateAlertRule: a copy with the updates takes the place of the object.  *)
UpdateAlertRule(r, active) ==
    /\ r \in rules /\ version[r] < MaxUpdates
    /\ version' = [version EXCEPT ![r] = @ + 1]
    /\ isActive' = [isActive EXCEPT ![r] = active]
    /\ lastTriggered' = [lastTriggered EXCEPT ![r][version[r] + 1] = lastTriggered[r][version[r]]]
    /\ raced' = IF Holding(r) # {} THEN raced \cup {r} ELSE raced
    /\ UNCHANGED <<rules, monitoring, checks, now, alertedAt, alerts>>

Tick ==
    /\ now < MaxTime
    /\ now' = now + 1
    /\ UNCHANGED <<ruleVars, alertVars, monitoring, checks, raced>>

Next ==
    \/ SetMonitoring
    \/ Tick
    \/ \E c \in Check : BeginCheck(c) \/ EndCheck(c)
    \/ \E c \in Check, r \in Rule, holds \in BOOLEAN : Evaluate(c, r, holds)
    \/ \E c \in Check, missed \in BOOLEAN : EvaluateMissed(c, missed)
    \/ \E r \in Rule : AddAlertRule(r) \/ RemoveAlertRule(r)
    \/ \E r \in Rule, active \in BOOLEAN : UpdateAlertRule(r, active)

Spec == Init /\ [][Next]_monVars

-----------------------------------------------------------------------------
(* "Already triggered within last 5 minutes": overlapping checks and        *)
(* replaced rules never alert twice in that time, unless a rule is replaced *)
(* while a check waits for the database with the object it replaces.        *)
Spaced ==
    \A r \in Rule : alerts'[r] # alerts[r] /\ r \notin raced =>
        alertedAt[r] = -1 \/ now - alertedAt[r] >= Quiet

(* The same without the exception.                                          *)
NeverTwice ==
    [][\A r \in Rule : alerts'[r] # alerts[r] =>
          alertedAt[r] = -1 \/ now - alertedAt[r] >= Quiet]_monVars
=============================================================================
