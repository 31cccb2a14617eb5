--------------------------- MODULE RecordsProofs ---------------------------
(***************************************************************************)
(* What MCRecords.tla checks, proved for every value of the constants: the *)
(* accounts, the bulk calls, the alerts, the failures, the wallets and     *)
(* transactions, the indexer and the scheduler, in turn.                   *)
(***************************************************************************)
EXTENDS MCRecords, SequenceTheorems, FiniteSetTheorems, TLAPS

(* A behavior looks at one part from its beginning to its end.              *)
LEMMA OnePart ==
    ASSUME [RecordsNext]_recordVars
    PROVE  /\ part' = part
           /\ part = "wallets" => Wal!WalletsNext \/ UNCHANGED txVars
           /\ part = "transactions" => Tx!Next \/ UNCHANGED txVars
           /\ part = "accounts" => Acc!Next \/ UNCHANGED accountVars
           /\ part = "bulk" => Blk!Next \/ UNCHANGED bulkVars
           /\ part = "indexer" => Idx!Next \/ UNCHANGED indexVars
           /\ part = "scheduler" => Sch!Next \/ UNCHANGED schedVars
           /\ part = "monitoring" => Mon!Next \/ UNCHANGED <<now, monVars>>
           /\ part = "failures" => Fls!Next \/ UNCHANGED failVars
  BY DEF RecordsNext, recordVars, txVars, accountVars, bulkVars, indexVars, schedVars, monVars,
         failVars

(***************************************************************************)
(* Accounts                                                                *)
(***************************************************************************)
Chosen ==
    /\ preferences = [x \in Account |-> preferences[x]]
    /\ chosen = [x \in Account |-> chosen[x]]
    /\ Acc!ChoiceStands
ChoicesKept == part = "accounts" => Chosen

LEMMA ChoicesStay ==
    ASSUME Chosen, Acc!Next
    PROVE  Chosen'
<1>1. CASE UNCHANGED <<preferences, chosen>>
  BY <1>1 DEF Chosen, Acc!ChoiceStands
<1>2. ASSUME NEW l \in Login, Acc!CreatePreferences(l)
      PROVE  Chosen'
  <2> DEFINE k == logins[l].account
  <2>1. /\ preferences' = [preferences EXCEPT ![k] = IF @ = none THEN Default ELSE @]
        /\ UNCHANGED chosen
    BY <1>2 DEF Acc!CreatePreferences
  <2> HIDE DEF k
  <2>2. \A x \in Account : preferences[x] # none => preferences'[x] = preferences[x]
    BY <2>1 DEF Chosen
  <2>3. preferences' = [x \in Account |-> preferences'[x]]
    BY <2>1 DEF Chosen
  <2> QED
    BY <2>1, <2>2, <2>3 DEF Chosen, Acc!ChoiceStands
<1>3. ASSUME NEW x \in Account, NEW choice, Acc!UpdatePreferences(x, choice)
      PROVE  Chosen'
  <2>1. /\ preferences' = [preferences EXCEPT ![x] = choice]
        /\ chosen' = [chosen EXCEPT ![x] = choice]
    BY <1>3 DEF Acc!UpdatePreferences
  <2> QED
    BY <2>1 DEF Chosen, Acc!ChoiceStands
<1> QED
  BY <1>1, <1>2, <1>3 DEF Acc!Next, Acc!GenerateChallenge, Acc!VerifyChallenge, Acc!CreateUser,
     Acc!LoginFails, Acc!Restart, Acc!UpdateWalletSettings, Acc!FindInvitee, Acc!CreateInvitation

(* A first login that is still under way never sets back what its user has   *)
(* chosen since, however many logins of one account overlap.                 *)
THEOREM ChoicesAreKept == RecordsSpec => []AccountChoiceStands
<1>1. RecordsInit => ChoicesKept
  BY DEF RecordsInit, Acc!Init, ChoicesKept, Chosen, Acc!ChoiceStands
<1>2. ChoicesKept /\ [RecordsNext]_recordVars => ChoicesKept'
  <2> SUFFICES ASSUME ChoicesKept, [RecordsNext]_recordVars, part' = "accounts"
               PROVE  Chosen'
    BY DEF ChoicesKept
  <2>1. part = "accounts" /\ Chosen /\ (Acc!Next \/ UNCHANGED accountVars)
    BY OnePart DEF ChoicesKept
  <2>2. CASE UNCHANGED accountVars
    BY <2>1, <2>2 DEF Chosen, Acc!ChoiceStands, accountVars
  <2> QED
    BY <2>1, <2>2, ChoicesStay
<1>3. ChoicesKept => AccountChoiceStands
  BY DEF ChoicesKept, Chosen, AccountChoiceStands
<1> QED
  BY <1>1, <1>2, <1>3, PTL DEF RecordsSpec

(***************************************************************************)
(* Bulk operations                                                         *)
(***************************************************************************)
(* Before it is cancelled a call has written nothing after that, and no     *)
(* item but the one in hand is begun afterwards.                            *)
Cancelling ==
    /\ afterCancel \in {0, 1}
    /\ ~cancelled \/ step = "write" => afterCancel = 0
CancelKept == part = "bulk" => Cancelling

LEMMA CancelStays ==
    ASSUME Cancelling, Blk!Next
    PROVE  Cancelling'
<1>1. ASSUME NEW valid, NEW sound, Blk!Submit(valid, sound)
      PROVE  Cancelling'
  BY <1>1 DEF Blk!Submit, Cancelling
<1>2. ASSUME NEW message, Blk!Throw(message)
      PROVE  step' # "write"
  BY <1>2 DEF Blk!Throw
<1>3. CASE Blk!StartItem
  <2>1. UNCHANGED <<cancelled, afterCancel>> /\ (cancelled => step' # "write")
    BY <1>2, <1>3 DEF Blk!StartItem
  <2> QED
    BY <2>1 DEF Cancelling
<1>4. ASSUME NEW up, Blk!WriteItem(up)
      PROVE  Cancelling'
  <2>1. /\ step = "write" /\ UNCHANGED cancelled /\ step' # "write"
        /\ afterCancel' = afterCancel \/ (cancelled /\ afterCancel' = afterCancel + 1)
    BY <1>2, <1>4 DEF Blk!WriteItem
  <2> QED
    BY <2>1 DEF Cancelling
<1>5. CASE Blk!TransactionTimesOut
  BY <1>5 DEF Blk!TransactionTimesOut, Cancelling
<1>6. CASE Blk!Commit
  <2>1. UNCHANGED <<cancelled, afterCancel>> /\ step' # "write"
    BY <1>2, <1>6 DEF Blk!Commit
  <2> QED
    BY <2>1 DEF Cancelling
<1>7. CASE Blk!TryAgain
  BY <1>7 DEF Blk!TryAgain, Cancelling
<1>8. CASE Blk!CancelOperation
  BY <1>8 DEF Blk!CancelOperation, Cancelling
<1> QED
  BY <1>1, <1>3, <1>4, <1>5, <1>6, <1>7, <1>8 DEF Blk!Next, Blk!Working

(* After a bulk call is cancelled the item in hand is still written, at      *)
(* most, whatever batches, attempts and retries are left.                    *)
THEOREM CancelledIsOver == RecordsSpec => []BulkCancelStops
<1>1. RecordsInit => CancelKept
  BY DEF RecordsInit, Blk!Init, CancelKept, Cancelling
<1>2. CancelKept /\ [RecordsNext]_recordVars => CancelKept'
  <2> SUFFICES ASSUME CancelKept, [RecordsNext]_recordVars, part' = "bulk"
               PROVE  Cancelling'
    BY DEF CancelKept
  <2>1. part = "bulk" /\ Cancelling /\ (Blk!Next \/ UNCHANGED bulkVars)
    BY OnePart DEF CancelKept
  <2>2. CASE UNCHANGED bulkVars
    BY <2>1, <2>2 DEF Cancelling, bulkVars
  <2> QED
    BY <2>1, <2>2, CancelStays
<1>3. CancelKept => BulkCancelStops
  BY DEF CancelKept, Cancelling, BulkCancelStops, Blk!CancelStops
<1> QED
  BY <1>1, <1>2, <1>3, PTL DEF RecordsSpec

(***************************************************************************)
(* Task monitoring                                                         *)
(***************************************************************************)
(* Of a rule that no check was overtaken on, the object in the map and the  *)
(* one a check holds are the same, and it knows the last alert.             *)
CheckState == [todo : SUBSET Rule, holds : Rule \cup {"none"}, version : 0..MaxUpdates]
Watching ==
    /\ now \in Nat /\ rules \subseteq Rule
    /\ version \in [Rule -> 0..MaxUpdates]
    /\ lastTriggered \in [Rule -> [0..MaxUpdates -> Nat \cup {-1}]]
    /\ alertedAt \in [Rule -> Nat \cup {-1}]
    /\ alerts \in [Rule -> Nat]
    /\ checks \in [Check -> CheckState \cup {none}]
    /\ \A r \in Rule \ raced :
          /\ lastTriggered[r][version[r]] = alertedAt[r]
          /\ \A k \in Check : checks[k] # none /\ checks[k].holds = r =>
                                  checks[k].version = version[r]
WatchKept == part = "monitoring" => Watching

(* An alert is raised on the object in the map, or on a rule that was raced;*)
(* and it is not too early.                                                 *)
LEMMA AlertIsDue ==
    ASSUME Watching, NEW r \in Rule, NEW v \in 0..MaxUpdates, r \in raced \/ v = version[r],
           Mon!TriggerAlert(r, v) \/ UNCHANGED <<lastTriggered, alertedAt, alerts>>,
           UNCHANGED <<now, rules, version, raced>>
    PROVE  /\ lastTriggered' \in [Rule -> [0..MaxUpdates -> Nat \cup {-1}]]
           /\ alertedAt' \in [Rule -> Nat \cup {-1}]
           /\ alerts' \in [Rule -> Nat]
           /\ \A q \in Rule \ raced : lastTriggered'[q][version[q]] = alertedAt'[q]
           /\ Mon!Spaced
<1>1. CASE UNCHANGED <<lastTriggered, alertedAt, alerts>>
  BY <1>1 DEF Watching, Mon!Spaced
<1>2. CASE /\ ~(lastTriggered[r][v] >= 0 /\ now - lastTriggered[r][v] < Quiet)
           /\ lastTriggered' = [lastTriggered EXCEPT ![r][v] = now]
           /\ alertedAt' = [alertedAt EXCEPT ![r] = now]
           /\ alerts' = [alerts EXCEPT ![r] = @ + 1]
  <2>1. now \in Nat /\ Quiet \in Nat
    BY RecordsAssumption DEF Watching
  <2>2. /\ lastTriggered' \in [Rule -> [0..MaxUpdates -> Nat \cup {-1}]]
        /\ lastTriggered'[r] = [lastTriggered[r] EXCEPT ![v] = now]
        /\ \A q \in Rule \ {r} : lastTriggered'[q] = lastTriggered[q]
    BY <1>2, <2>1 DEF Watching
  <2>3. lastTriggered'[r][v] = now
    BY <2>2 DEF Watching
  <2>4. /\ alertedAt' \in [Rule -> Nat \cup {-1}] /\ alertedAt'[r] = now
        /\ \A q \in Rule \ {r} : alertedAt'[q] = alertedAt[q]
    BY <1>2, <2>1 DEF Watching
  <2>5. /\ alerts' \in [Rule -> Nat] /\ \A q \in Rule \ {r} : alerts'[q] = alerts[q]
    BY <1>2 DEF Watching
  <2>6. \A q \in Rule \ raced : lastTriggered'[q][version[q]] = alertedAt'[q]
    BY <2>2, <2>3, <2>4 DEF Watching
  <2>7. r \notin raced => alertedAt[r] = -1 \/ now - alertedAt[r] >= Quiet
    <3>1. r \notin raced => lastTriggered[r][v] = alertedAt[r] /\ alertedAt[r] \in Nat \cup {-1}
      BY DEF Watching
    <3> QED
      BY <1>2, <2>1, <3>1
  <2>8. Mon!Spaced
    BY <2>5, <2>7 DEF Mon!Spaced
  <2> QED
    BY <2>2, <2>4, <2>5, <2>6, <2>8
<1> QED
  BY <1>1, <1>2 DEF Mon!TriggerAlert, Mon!alertVars

LEMMA WatchStays ==
    ASSUME Watching, Mon!Next
    PROVE  Watching' /\ Mon!Spaced
<1> USE DEF Mon!ruleVars, Mon!alertVars, Mon!None
<1>1. ASSUME UNCHANGED <<lastTriggered, alertedAt, alerts, version, raced, rules, now>>,
             checks' \in [Check -> CheckState \cup {none}],
             \A k \in Check : checks'[k] # none =>
                 \/ checks'[k].holds = "none"
                 \/ checks[k] # none /\ checks'[k].holds = checks[k].holds
                                     /\ checks'[k].version = checks[k].version
      PROVE  Watching' /\ Mon!Spaced
  <2>1. ASSUME NEW r \in Rule \ raced, NEW k \in Check, checks'[k] # none, checks'[k].holds = r
        PROVE  checks'[k].version = version[r]
    <3>1. checks'[k].holds # "none"
      BY <2>1, RecordsAssumption
    <3>2. /\ checks[k] # none /\ checks[k].holds = r /\ checks'[k].version = checks[k].version
      BY <1>1, <2>1, <3>1
    <3> QED
      BY <3>2 DEF Watching
  <2> QED
    BY <1>1, <2>1 DEF Watching, Mon!Spaced
<1>2. CASE Mon!SetMonitoring
  BY <1>1, <1>2 DEF Mon!SetMonitoring, Watching
<1>3. CASE Mon!Tick
  <2>1. now' \in Nat /\ UNCHANGED <<lastTriggered, alertedAt, alerts, version, raced, rules, checks>>
    BY <1>3 DEF Mon!Tick, Watching
  <2> QED
    BY <2>1 DEF Watching, Mon!Spaced
<1>4. ASSUME NEW k \in Check, Mon!BeginCheck(k)
      PROVE  Watching' /\ Mon!Spaced
  <2> DEFINE new == [todo |-> rules, holds |-> "none", version |-> 0]
  <2>1. /\ checks' = [checks EXCEPT ![k] = new]
        /\ UNCHANGED <<lastTriggered, alertedAt, alerts, version, raced, rules, now>>
    BY <1>4 DEF Mon!BeginCheck
  <2>2. new \in CheckState /\ new.holds = "none"
    BY RecordsAssumption DEF Watching, CheckState
  <2> HIDE DEF new
  <2>3. checks' \in [Check -> CheckState \cup {none}]
    BY <2>1, <2>2 DEF Watching
  <2>4. \A m \in Check : m # k => checks'[m] = checks[m]
    BY <2>1 DEF Watching
  <2>5. checks'[k] = new
    BY <2>1 DEF Watching
  <2> QED
    BY <1>1, <2>1, <2>2, <2>3, <2>4, <2>5
<1>5. ASSUME NEW k \in Check, Mon!EndCheck(k)
      PROVE  Watching' /\ Mon!Spaced
  <2>1. /\ checks' = [checks EXCEPT ![k] = none]
        /\ UNCHANGED <<lastTriggered, alertedAt, alerts, version, raced, rules, now>>
    BY <1>5 DEF Mon!EndCheck
  <2>2. checks' \in [Check -> CheckState \cup {none}]
        /\ checks'[k] = none /\ \A m \in Check : m # k => checks'[m] = checks[m]
    BY <2>1 DEF Watching
  <2> QED
    BY <1>1, <2>1, <2>2
<1>6. ASSUME NEW k \in Check, NEW r \in Rule, NEW holds \in BOOLEAN, Mon!Evaluate(k, r, holds)
      PROVE  Watching' /\ Mon!Spaced
  <2>1. /\ checks[k] \in CheckState /\ checks[k] # none /\ checks[k].holds = "none"
        /\ UNCHANGED <<version, raced, rules, now>>
        /\ version[r] \in 0..MaxUpdates
    BY <1>6 DEF Mon!Evaluate, Watching
  <2>2. Mon!TriggerAlert(r, version[r]) \/ UNCHANGED <<lastTriggered, alertedAt, alerts>>
    BY <1>6 DEF Mon!Evaluate
  <2>3. /\ lastTriggered' \in [Rule -> [0..MaxUpdates -> Nat \cup {-1}]]
        /\ alertedAt' \in [Rule -> Nat \cup {-1}]
        /\ alerts' \in [Rule -> Nat]
        /\ \A q \in Rule \ raced : lastTriggered'[q][version[q]] = alertedAt'[q]
        /\ Mon!Spaced
    BY <2>1, <2>2, AlertIsDue
  <2>4. PICK v \in 0..MaxUpdates, h \in {r, "none"} :
            /\ checks'[k] \in CheckState /\ checks'[k].holds = h /\ (h = r => v = version[r])
            /\ checks'[k].version = v
    <3>1. CASE checks' = [checks EXCEPT ![k].todo = @ \ {r}]
      <4> DEFINE new == [checks[k] EXCEPT !.todo = @ \ {r}]
      <4>1. checks'[k] = new
        BY <3>1 DEF Watching
      <4>2. new \in CheckState /\ new.holds = "none" /\ new.version = checks[k].version
            /\ new.version \in 0..MaxUpdates
        BY <2>1 DEF CheckState
      <4>3. "none" # r
        BY RecordsAssumption
      <4> QED
        BY <4>1, <4>2, <4>3
    <3>2. CASE checks' = [checks EXCEPT ![k].todo = @ \ {r}, ![k].holds = r,
                                        ![k].version = version[r]]
      <4> DEFINE new == [checks[k] EXCEPT !.todo = @ \ {r}, !.holds = r, !.version = version[r]]
      <4>1. checks'[k] = new
        BY <3>2 DEF Watching
      <4>2. new \in CheckState /\ new.holds = r /\ new.version = version[r]
        BY <2>1 DEF CheckState
      <4> QED
        BY <2>1, <4>1, <4>2
    <3> QED
      BY <1>6, <3>1, <3>2 DEF Mon!Evaluate
  <2>5. /\ checks' \in [Check -> CheckState \cup {none}]
        /\ \A m \in Check : m # k => checks'[m] = checks[m]
    <3>1. \E new : checks' = [checks EXCEPT ![k] = new]
      BY <1>6 DEF Mon!Evaluate, Watching
    <3>2. PICK new : checks' = [checks EXCEPT ![k] = new]
      BY <3>1
    <3>3. checks'[k] = new /\ \A m \in Check : m # k => checks'[m] = checks[m]
      BY <3>2 DEF Watching
    <3> QED
      BY <2>4, <3>2, <3>3 DEF Watching
  <2>6. \A q \in Rule \ raced : \A m \in Check :
            checks'[m] # none /\ checks'[m].holds = q => checks'[m].version = version[q]
    <3> SUFFICES ASSUME NEW q \in Rule \ raced, NEW m \in Check,
                        checks'[m] # none, checks'[m].holds = q
                 PROVE  checks'[m].version = version[q]
      OBVIOUS
    <3>1. q # "none"
      BY RecordsAssumption
    <3>2. CASE m = k
      BY <2>4, <3>1, <3>2
    <3>3. CASE m # k
      BY <2>5, <3>3 DEF Watching
    <3> QED
      BY <3>2, <3>3
  <2> QED
    BY <2>1, <2>3, <2>5, <2>6 DEF Watching
<1>7. ASSUME NEW k \in Check, NEW missed \in BOOLEAN, Mon!EvaluateMissed(k, missed)
      PROVE  Watching' /\ Mon!Spaced
  <2> DEFINE r == checks[k].holds
             v == checks[k].version
  <2>1. /\ checks[k] \in CheckState /\ checks[k] # none /\ checks[k].holds # "none"
        /\ UNCHANGED <<version, raced, rules, now>>
        /\ Mon!TriggerAlert(r, v) \/ UNCHANGED <<lastTriggered, alertedAt, alerts>>
    BY <1>7 DEF Mon!EvaluateMissed, Watching
  <2>2. r \in Rule /\ v \in 0..MaxUpdates /\ (r \in raced \/ v = version[r])
    BY <2>1 DEF Watching, CheckState
  <2>3. /\ lastTriggered' \in [Rule -> [0..MaxUpdates -> Nat \cup {-1}]]
        /\ alertedAt' \in [Rule -> Nat \cup {-1}]
        /\ alerts' \in [Rule -> Nat]
        /\ \A q \in Rule \ raced : lastTriggered'[q][version[q]] = alertedAt'[q]
        /\ Mon!Spaced
    BY <2>1, <2>2, AlertIsDue
  <2> DEFINE new == [checks[k] EXCEPT !.holds = "none"]
  <2>4. new \in CheckState /\ new.holds = "none"
    BY <2>1 DEF CheckState
  <2>5. checks' = [checks EXCEPT ![k] = new]
    BY <1>7 DEF Mon!EvaluateMissed
  <2> HIDE DEF new
  <2>6. /\ checks' \in [Check -> CheckState \cup {none}] /\ checks'[k] = new
        /\ \A m \in Check : m # k => checks'[m] = checks[m]
    BY <2>4, <2>5 DEF Watching
  <2>7. \A q \in Rule \ raced : \A m \in Check :
            checks'[m] # none /\ checks'[m].holds = q => checks'[m].version = version[q]
    <3> SUFFICES ASSUME NEW q \in Rule \ raced, NEW m \in Check,
                        checks'[m] # none, checks'[m].holds = q
                 PROVE  checks'[m].version = version[q]
      OBVIOUS
    <3>1. q # "none"
      BY RecordsAssumption
    <3>2. m # k
      BY <2>4, <2>6, <3>1
    <3> QED
      BY <2>6, <3>2 DEF Watching
  <2> QED
    BY <2>1, <2>3, <2>6, <2>7 DEF Watching
<1>8. ASSUME NEW r \in Rule, Mon!AddAlertRule(r)
      PROVE  Watching' /\ Mon!Spaced
  <2>1. /\ rules' \subseteq Rule
        /\ checks' = [k \in Check |-> IF checks[k] = none THEN none
                                      ELSE [checks[k] EXCEPT !.todo = @ \cup {r}]]
        /\ UNCHANGED <<lastTriggered, alertedAt, alerts, version, raced, now>>
    BY <1>8 DEF Mon!AddAlertRule, Watching
  <2>2. ASSUME NEW k \in Check
        PROVE  /\ checks'[k] \in CheckState \cup {none}
               /\ checks'[k] # none => /\ checks[k] # none /\ checks'[k].holds = checks[k].holds
                                       /\ checks'[k].version = checks[k].version
    <3>1. CASE checks[k] = none
      BY <2>1, <3>1
    <3>2. CASE checks[k] # none
      <4>1. checks[k] \in CheckState
        BY <3>2 DEF Watching
      <4> DEFINE new == [checks[k] EXCEPT !.todo = @ \cup {r}]
      <4>2. new \in CheckState /\ new.holds = checks[k].holds /\ new.version = checks[k].version
        BY <4>1 DEF CheckState
      <4>3. checks'[k] = new
        BY <2>1, <3>2
      <4> QED
        BY <3>2, <4>2, <4>3
    <3> QED
      BY <3>1, <3>2
  <2>3. checks' \in [Check -> CheckState \cup {none}]
    BY <2>1, <2>2
  <2>4. \A q \in Rule \ raced : \A m \in Check :
            checks'[m] # none /\ checks'[m].holds = q => checks'[m].version = version[q]
    <3> SUFFICES ASSUME NEW q \in Rule \ raced, NEW m \in Check, checks'[m] # none,
                        checks'[m].holds = q
                 PROVE  checks'[m].version = version[q]
      OBVIOUS
    <3>1. /\ checks[m] # none /\ checks'[m].holds = checks[m].holds
          /\ checks'[m].version = checks[m].version
      BY <2>2
    <3>2. checks[m] # none /\ checks[m].holds = q => checks[m].version = version[q]
      BY DEF Watching
    <3> QED
      BY <3>1, <3>2
  <2> QED
    BY <2>1, <2>3, <2>4 DEF Watching, Mon!Spaced
<1>9. ASSUME NEW r \in Rule, Mon!RemoveAlertRule(r)
      PROVE  Watching' /\ Mon!Spaced
  <2>1. /\ rules' \subseteq Rule
        /\ UNCHANGED <<lastTriggered, alertedAt, alerts, version, raced, now, checks>>
    BY <1>9 DEF Mon!RemoveAlertRule, Watching
  <2> QED
    BY <2>1 DEF Watching, Mon!Spaced
<1>10. ASSUME NEW r \in Rule, NEW on \in BOOLEAN, Mon!UpdateAlertRule(r, on)
       PROVE  Watching' /\ Mon!Spaced
  <2>1. /\ version[r] < MaxUpdates /\ version[r] \in 0..MaxUpdates
        /\ version' = [version EXCEPT ![r] = @ + 1]
        /\ lastTriggered' = [lastTriggered EXCEPT ![r][version[r] + 1] =
                                                       lastTriggered[r][version[r]]]
        /\ raced' = (IF Mon!Holding(r) # {} THEN raced \cup {r} ELSE raced)
        /\ UNCHANGED <<rules, checks, now, alertedAt, alerts>>
    BY <1>10 DEF Mon!UpdateAlertRule, Watching
  <2>2. version[r] + 1 \in 0..MaxUpdates
    BY <2>1, RecordsAssumption
  <2>3. /\ version' \in [Rule -> 0..MaxUpdates] /\ version'[r] = version[r] + 1
        /\ \A q \in Rule : q # r => version'[q] = version[q]
    BY <2>1, <2>2 DEF Watching
  <2>4. lastTriggered[r][version[r]] \in Nat \cup {-1}
    BY <2>1, ZenonT(40) DEF Watching
  <2>5. /\ lastTriggered' \in [Rule -> [0..MaxUpdates -> Nat \cup {-1}]]
        /\ lastTriggered'[r] = [lastTriggered[r] EXCEPT ![version[r] + 1] =
                                                       lastTriggered[r][version[r]]]
        /\ \A q \in Rule : q # r => lastTriggered'[q] = lastTriggered[q]
    BY <2>1, <2>2, <2>4 DEF Watching
  <2>6. lastTriggered'[r][version'[r]] = lastTriggered[r][version[r]]
    <3>1. lastTriggered[r] \in [0..MaxUpdates -> Nat \cup {-1}]
      BY DEF Watching
    <3> QED
      BY <2>2, <2>3, <2>5, <3>1
  <2>7. ASSUME NEW q \in Rule \ raced'
        PROVE  /\ lastTriggered'[q][version'[q]] = alertedAt[q]
               /\ \A m \in Check : checks[m] # none /\ checks[m].holds = q =>
                                       checks[m].version = version'[q]
    <3>1. q \notin raced /\ (q = r => Mon!Holding(r) = {})
      BY <2>1
    <3>2. CASE q = r
      BY <2>6, <3>1, <3>2 DEF Watching, Mon!Holding
    <3>3. CASE q # r
      BY <2>3, <2>5, <3>1, <3>3 DEF Watching
    <3> QED
      BY <3>2, <3>3
  <2>8. Mon!Spaced
    BY <2>1 DEF Mon!Spaced
  <2> QED
    BY <2>1, <2>3, <2>5, <2>7, <2>8 DEF Watching
<1> QED
  BY <1>2, <1>3, <1>4, <1>5, <1>6, <1>7, <1>8, <1>9, <1>10 DEF Mon!Next

(* Overlapping checks and replaced rules never alert twice within the quiet  *)
(* time, but for a rule replaced while a check waits with its old object.    *)
THEOREM AlertsAreSpaced == RecordsSpec => MonitorAlertsAreSpaced
<1>1. RecordsInit => WatchKept
  <2> SUFFICES ASSUME RecordsInit
               PROVE  Watching
    BY DEF WatchKept
  <2>1. /\ now = 0 /\ rules = DefaultRules /\ raced = {}
        /\ version = [r \in Rule |-> 0] /\ alertedAt = [r \in Rule |-> -1]
        /\ lastTriggered = [r \in Rule |-> [v \in 0..MaxUpdates |-> -1]]
        /\ alerts = [r \in Rule |-> 0] /\ checks = [k \in Check |-> none]
    BY DEF RecordsInit, Mon!Init
  <2>2. 0 \in 0..MaxUpdates
    BY RecordsAssumption
  <2>3. lastTriggered \in [Rule -> [0..MaxUpdates -> Nat \cup {-1}]]
    BY <2>1
  <2>4. \A r \in Rule : lastTriggered[r][version[r]] = alertedAt[r]
    BY <2>1, <2>2
  <2> QED
    BY <2>1, <2>2, <2>3, <2>4, RecordsAssumption DEF Watching
<1>2. WatchKept /\ [RecordsNext]_recordVars
        => WatchKept' /\ [part = "monitoring" => Mon!Spaced]_recordVars
  <2> SUFFICES ASSUME WatchKept, [RecordsNext]_recordVars, part = "monitoring" \/ part' = "monitoring"
               PROVE  Watching' /\ Mon!Spaced
    BY DEF WatchKept
  <2>1. part = "monitoring" /\ Watching /\ (Mon!Next \/ UNCHANGED <<now, monVars>>)
    BY OnePart DEF WatchKept
  <2>2. CASE UNCHANGED <<now, monVars>>
    BY <2>1, <2>2 DEF Watching, Mon!Spaced, monVars
  <2> QED
    BY <2>1, <2>2, WatchStays
<1> QED
  BY <1>1, <1>2, PTL DEF RecordsSpec, MonitorAlertsAreSpaced

(***************************************************************************)
(* Task failures                                                           *)
(***************************************************************************)
(* How far each failure has been followed up, and what its error, the       *)
(* policy it was decided under and its count call for.  A retry is of one   *)
(* failure, and until it is in the queue it is pending.                     *)
Stages == {"final", "bury", "retry", "publish", "close", "done"}
Types == {Fls!CategorizeError(words) : words \in Marks}
AllPolicies == Policy \cup {FirstPolicy}
Handling == [step : {"idle"}] \cup [step : Stages, type : Types, policy : AllPolicies]
Pending(r) == execs[r] # none /\ execs[r].status = "PENDING"
Publishing(e) == handling[e].step = "publish"
InQueue(r) == r \in queued \/ execs[r].status # "PENDING"
Again(e) == Fls!IsRetryableError(handling[e].type, handling[e].policy)
Spent(e) == execs[e].retryCount >= handling[e].policy.maxRetries
Ended(e) ==
    /\ Again(e) /\ ~Spent(e) => followedBy[e] # {}
    /\ Again(e) /\ Spent(e) => e \in deadLetters
    /\ \A r \in followedBy[e] : InQueue(r)

FailuresTyped ==
    /\ policy \in AllPolicies
    /\ execs \in [Exec -> ExecRow \cup {none}]
    /\ handling \in [Exec -> Handling]
    /\ followedBy \in [Exec -> SUBSET Exec]
    /\ queued \subseteq Exec
FollowedUp(e) ==
    /\ handling[e].step \in {"idle", "final", "bury", "retry"} =>
           followedBy[e] = {} /\ e \notin deadLetters
    /\ handling[e].step # "idle" => execs[e] # none /\ execs[e].status \in {"RUNNING", "FAILED"}
    /\ handling[e].step = "final" => ~Again(e)
    /\ handling[e].step = "bury" => Again(e) /\ Spent(e)
    /\ handling[e].step = "retry" => Again(e) /\ ~Spent(e)
    /\ followedBy[e] = {} \/ \E r \in Exec : followedBy[e] = {r}
    /\ followedBy[e] # {} => Again(e) /\ ~Spent(e)
    /\ e \in deadLetters => Again(e) /\ Spent(e)
    /\ \A r \in followedBy[e] : execs[r] # none /\ execs[r].retryCount = execs[e].retryCount + 1
    /\ Publishing(e) => followedBy[e] # {} /\ \A r \in followedBy[e] : Pending(r) /\ r \notin queued
    /\ e \in queued => Pending(e)
    /\ handling[e].step \in {"close", "done"} /\ e \notin faulty => Ended(e)
    /\ handling[e].step = "done" /\ e \notin faulty => execs[e].status = "FAILED"
FollowUp ==
    /\ FailuresTyped
    /\ \A e \in Exec : FollowedUp(e)
    /\ \A e, f \in Exec : followedBy[e] \cap followedBy[f] # {} => e = f
FollowUpKept == part = "failures" => FollowUp

LEMMA NextStage ==
    ASSUME NEW h \in Handling, h.step # "idle", NEW s \in Stages
    PROVE  LET g == [h EXCEPT !.step = s]
           IN  g \in Handling /\ g.step = s /\ g.type = h.type /\ g.policy = h.policy
<1> DEFINE g == [h EXCEPT !.step = s]
<1>1. h \in [step : Stages, type : Types, policy : AllPolicies]
  BY DEF Handling
<1>2. /\ g \in [step : Stages, type : Types, policy : AllPolicies]
      /\ g.step = s /\ g.type = h.type /\ g.policy = h.policy
  BY <1>1
<1> QED
  BY <1>2 DEF Handling

(* A row that changes its status keeps its count.                           *)
LEMMA NewStatus ==
    ASSUME FailuresTyped, NEW e \in Exec, execs[e] # none,
           NEW s \in {"PENDING", "RUNNING", "COMPLETED", "FAILED"},
           execs' = [execs EXCEPT ![e].status = s]
    PROVE  /\ execs' \in [Exec -> ExecRow \cup {none}]
           /\ execs'[e] # none /\ execs'[e].status = s /\ execs'[e].retryCount = execs[e].retryCount
           /\ \A r \in Exec : r # e => execs'[r] = execs[r]
<1> DEFINE row == [execs[e] EXCEPT !.status = s]
<1>1. row \in ExecRow /\ row.status = s /\ row.retryCount = execs[e].retryCount
  BY DEF FailuresTyped, ExecRow
<1>2. row # none
  BY <1>1, AbsentAssumption
<1>3. execs' = [execs EXCEPT ![e] = row]
  OBVIOUS
<1> HIDE DEF row
<1>4. execs'[e] = row /\ \A r \in Exec : r # e => execs'[r] = execs[r]
  BY <1>3 DEF FailuresTyped
<1>5. execs' \in [Exec -> ExecRow \cup {none}]
  BY <1>1, <1>3 DEF FailuresTyped
<1> QED
  BY <1>1, <1>2, <1>4, <1>5

(* A new row takes the place of none.                                       *)
LEMMA NewRow ==
    ASSUME FailuresTyped, NEW r \in Exec, NEW n \in Nat,
           execs' = [execs EXCEPT ![r] = [status |-> "PENDING", retryCount |-> n]]
    PROVE  /\ execs' \in [Exec -> ExecRow \cup {none}]
           /\ execs'[r] # none /\ execs'[r].status = "PENDING" /\ execs'[r].retryCount = n
           /\ \A e \in Exec : e # r => execs'[e] = execs[e]
<1> DEFINE row == [status |-> "PENDING", retryCount |-> n]
<1>1. row \in ExecRow /\ row.status = "PENDING" /\ row.retryCount = n
  BY DEF ExecRow
<1>2. row # none
  BY <1>1, AbsentAssumption
<1> HIDE DEF row
<1>3. execs'[r] = row /\ \A e \in Exec : e # r => execs'[e] = execs[e]
  BY DEF FailuresTyped, row
<1>4. execs' \in [Exec -> ExecRow \cup {none}]
  BY <1>1 DEF FailuresTyped, row
<1> QED
  BY <1>1, <1>2, <1>3, <1>4

(* The step of one call moves on.                                           *)
LEMMA StageMoves ==
    ASSUME FailuresTyped, NEW e \in Exec, NEW s \in Stages, handling[e].step # "idle",
           handling' = [handling EXCEPT ![e].step = s]
    PROVE  /\ handling' \in [Exec -> Handling]
           /\ handling'[e].step = s /\ handling'[e].type = handling[e].type
           /\ handling'[e].policy = handling[e].policy
           /\ \A f \in Exec : f # e => handling'[f] = handling[f]
<1> DEFINE g == [handling[e] EXCEPT !.step = s]
<1>1. handling[e] \in Handling
  BY DEF FailuresTyped
<1>2. g \in Handling /\ g.step = s /\ g.type = handling[e].type /\ g.policy = handling[e].policy
  BY <1>1, NextStage
<1>3. handling' = [handling EXCEPT ![e] = g]
  OBVIOUS
<1> HIDE DEF g
<1>4. handling'[e] = g /\ \A f \in Exec : f # e => handling'[f] = handling[f]
  BY <1>3 DEF FailuresTyped
<1>5. handling' \in [Exec -> Handling]
  BY <1>2, <1>3 DEF FailuresTyped
<1> QED
  BY <1>2, <1>4, <1>5

(* Rows are only added, and keep their counts; a retry in the queue stays   *)
(* there until it runs.                                                     *)
RowsGoOn ==
    \A x \in Exec : execs[x] # none =>
        /\ execs'[x] # none /\ execs'[x].retryCount = execs[x].retryCount
        /\ InQueue(x) => InQueue(x)'
(* A failure that a step leaves alone.                                      *)
LEMMA LeftAlone ==
    ASSUME FollowUp, NEW f \in Exec, RowsGoOn,
           handling'[f] = handling[f], followedBy'[f] = followedBy[f],
           f \in faulty => f \in faulty', f \in deadLetters' <=> f \in deadLetters,
           handling[f].step # "idle" => execs'[f].status = execs[f].status,
           Publishing(f) => \A r \in followedBy[f] : execs'[r] = execs[r] /\ r \notin queued',
           f \in queued' => Pending(f)'
    PROVE  FollowedUp(f)'
<1>1. FollowedUp(f) /\ followedBy[f] \subseteq Exec
  BY DEF FollowUp, FailuresTyped
<1>2. Again(f)' <=> Again(f)
  BY DEF Again
<1>3. execs[f] # none => (Spent(f)' <=> Spent(f))
  BY DEF Spent, RowsGoOn
<1>4. ASSUME NEW r \in followedBy[f]
      PROVE  /\ execs[f] # none /\ execs[r] # none /\ execs'[r] # none
             /\ execs'[r].retryCount = execs'[f].retryCount + 1
             /\ InQueue(r) => InQueue(r)'
             /\ Publishing(f) => Pending(r)' /\ r \notin queued'
  <2>1. execs[r] # none /\ execs[r].retryCount = execs[f].retryCount + 1
    BY <1>1, <1>4 DEF FollowedUp
  <2>2. handling[f].step # "idle" /\ execs[f] # none
    BY <1>1, <1>4 DEF FollowedUp
  <2>3. Publishing(f) => Pending(r)' /\ r \notin queued'
    BY <1>1, <1>4 DEF FollowedUp, Pending
  <2> QED
    BY <1>1, <2>1, <2>2, <2>3 DEF RowsGoOn
<1>5. execs[f] # none => (Ended(f) => Ended(f)')
  BY <1>2, <1>3, <1>4 DEF Ended
<1>6. f \in deadLetters => execs[f] # none
  BY <1>1 DEF FollowedUp
<1>7. handling[f].step # "idle" => execs'[f] # none
  BY <1>1 DEF FollowedUp, RowsGoOn
<1>8. followedBy[f] # {} => execs[f] # none
  BY <1>4
<1> QED
  BY <1>1, <1>2, <1>3, <1>4, <1>5, <1>6, <1>7, <1>8 DEF FollowedUp, Publishing

LEMMA FollowUpStays ==
    ASSUME FollowUp, Fls!Next
    PROVE  FollowUp'
<1>1. FailuresTyped /\ \A e \in Exec : FollowedUp(e)
  BY DEF FollowUp
<1>2. \A e \in Exec : /\ handling[e] \in Handling
                      /\ handling[e] # Fls!Idle => handling[e].step # "idle"
                      /\ handling[e] = Fls!Idle => handling[e].step = "idle"
  BY <1>1 DEF FailuresTyped, Handling, Fls!Idle, Stages
(* The rows do not change.                                                  *)
<1>3. ASSUME execs' = execs, queued' = queued
      PROVE  RowsGoOn
  BY <1>3 DEF RowsGoOn, InQueue
<1>4. ASSUME NEW p \in Policy, Fls!SetRetryPolicy(p)
      PROVE  FollowUp'
  <2>1. policy' = p /\ UNCHANGED <<execs, queued, deadLetters, handling, faulty, followedBy>>
    BY <1>4 DEF Fls!SetRetryPolicy
  <2>2. FailuresTyped'
    BY <1>1, <2>1 DEF FailuresTyped, AllPolicies
  <2>3. \A f \in Exec : f \in queued => Pending(f)'
    BY <1>1, <2>1 DEF FollowedUp, Pending
  <2>4. \A f \in Exec : Publishing(f) => \A r \in followedBy[f] : r \notin queued
    BY <1>1 DEF FollowedUp
  <2>5. \A f \in Exec : FollowedUp(f)'
    BY <1>3, <2>1, <2>3, <2>4, LeftAlone
  <2> QED
    BY <2>1, <2>2, <2>5 DEF FollowUp
<1>5. ASSUME NEW e \in Exec, NEW words \in Marks, Fls!HandleTaskFailure(e, words)
      PROVE  FollowUp'
  <2> DEFINE type == Fls!CategorizeError(words)
             again == Fls!IsRetryableError(type, policy)
             spent == execs[e].retryCount >= policy.maxRetries
             stage == IF ~again THEN "final" ELSE IF spent THEN "bury" ELSE "retry"
             h == [step |-> stage, type |-> type, policy |-> policy]
  <2>1. /\ execs[e] # none /\ execs[e].status = "RUNNING" /\ handling[e] = Fls!Idle
        /\ handling' = [handling EXCEPT ![e] = h]
        /\ UNCHANGED <<policy, execs, queued, deadLetters, faulty, followedBy>>
    BY <1>5 DEF Fls!HandleTaskFailure
  <2>2. type \in Types
    BY DEF Types
  <2> HIDE DEF type, again, spent
  <2>3. /\ stage \in {"final", "bury", "retry"}
        /\ stage = "final" => ~again
        /\ stage = "bury" => again /\ spent
        /\ stage = "retry" => again /\ ~spent
    OBVIOUS
  <2> HIDE DEF stage
  <2>4. h \in Handling /\ h.step = stage /\ h.type = type /\ h.policy = policy
    BY <1>1, <2>2, <2>3 DEF FailuresTyped, Handling, Stages
  <2> HIDE DEF h
  <2>5. handling'[e] = h /\ \A f \in Exec : f # e => handling'[f] = handling[f]
    BY <1>1, <2>1 DEF FailuresTyped
  <2>6. handling' \in [Exec -> Handling]
    BY <1>1, <2>1, <2>4 DEF FailuresTyped
  <2>7. followedBy[e] = {} /\ e \notin deadLetters /\ e \notin queued
    BY <1>1, <1>2, <2>1 DEF FollowedUp, Pending
  <2>8. (Again(e)' <=> again) /\ (Spent(e)' <=> spent)
    BY <2>1, <2>4, <2>5 DEF Again, Spent, again, spent
  <2>9. FollowedUp(e)'
    BY <2>1, <2>3, <2>4, <2>5, <2>7, <2>8 DEF FollowedUp, Publishing
  <2>10. \A f \in Exec : /\ f \in queued' => Pending(f)'
                         /\ Publishing(f) => \A r \in followedBy[f] : r \notin queued'
    BY <1>1, <2>1 DEF FollowedUp, Pending
  <2>11. \A f \in Exec : f # e => FollowedUp(f)'
    BY <1>3, <2>1, <2>5, <2>10, LeftAlone
  <2> QED
    BY <1>1, <2>1, <2>6, <2>9, <2>11 DEF FollowUp, FailuresTyped
<1>6. ASSUME NEW e \in Exec, Fls!GiveUp(e)
      PROVE  FollowUp'
  <2>1. /\ handling[e] # Fls!Idle /\ handling' = [handling EXCEPT ![e].step = "done"]
        /\ faulty' = faulty \cup {e}
        /\ UNCHANGED <<policy, execs, queued, deadLetters, followedBy>>
    BY <1>6 DEF Fls!GiveUp
  <2>2. handling[e].step # "idle"
    BY <1>2, <2>1
  <2>3. /\ handling' \in [Exec -> Handling]
        /\ handling'[e].step = "done" /\ handling'[e].type = handling[e].type
        /\ handling'[e].policy = handling[e].policy
        /\ \A f \in Exec : f # e => handling'[f] = handling[f]
    BY <1>1, <2>1, <2>2, StageMoves DEF Stages
  <2>4. (Again(e)' <=> Again(e)) /\ (Spent(e)' <=> Spent(e))
    BY <2>1, <2>3 DEF Again, Spent
  <2>5. FollowedUp(e)'
    BY <1>1, <2>1, <2>2, <2>3, <2>4 DEF FollowedUp, Pending, Publishing
  <2>6. \A f \in Exec : /\ f \in queued' => Pending(f)'
                        /\ Publishing(f) => \A r \in followedBy[f] : r \notin queued'
    BY <1>1, <2>1 DEF FollowedUp, Pending
  <2>7. \A f \in Exec : f # e => FollowedUp(f)'
    BY <1>3, <2>1, <2>3, <2>6, LeftAlone
  <2> QED
    BY <1>1, <2>1, <2>3, <2>5, <2>7 DEF FollowUp, FailuresTyped
<1>7. ASSUME NEW e \in Exec, NEW ok \in BOOLEAN, Fls!SendToDeadLetterQueue(e, ok)
      PROVE  FollowUp'
  <2>1. /\ handling[e].step = "bury" /\ handling' = [handling EXCEPT ![e].step = "close"]
        /\ deadLetters \subseteq deadLetters' /\ deadLetters' \subseteq deadLetters \cup {e}
        /\ faulty \subseteq faulty' /\ (e \in deadLetters' \/ e \in faulty')
        /\ UNCHANGED <<policy, execs, queued, followedBy>>
    BY <1>7 DEF Fls!SendToDeadLetterQueue
  <2>2. /\ handling' \in [Exec -> Handling]
        /\ handling'[e].step = "close" /\ handling'[e].type = handling[e].type
        /\ handling'[e].policy = handling[e].policy
        /\ \A f \in Exec : f # e => handling'[f] = handling[f]
    BY <1>1, <2>1, StageMoves DEF Stages
  <2>3. (Again(e)' <=> Again(e)) /\ (Spent(e)' <=> Spent(e)) /\ Again(e) /\ Spent(e)
    BY <1>1, <2>1, <2>2 DEF Again, Spent, FollowedUp
  <2>4. followedBy[e] = {}
    BY <1>1, <2>1 DEF FollowedUp
  <2>5. FollowedUp(e)'
    BY <1>1, <2>1, <2>2, <2>3, <2>4 DEF FollowedUp, Pending, Publishing, Ended
  <2>6. \A f \in Exec : /\ f \in queued' => Pending(f)'
                        /\ Publishing(f) => \A r \in followedBy[f] : r \notin queued'
    BY <1>1, <2>1 DEF FollowedUp, Pending
  <2>7. \A f \in Exec : f # e => FollowedUp(f)'
    BY <1>3, <2>1, <2>2, <2>6, LeftAlone
  <2> QED
    BY <1>1, <2>1, <2>2, <2>5, <2>7 DEF FollowUp, FailuresTyped
<1>8. ASSUME NEW e \in Exec, NEW r \in Exec, Fls!CreateRetry(e, r)
      PROVE  FollowUp'
  <2> DEFINE n == execs[e].retryCount + 1
  <2>1. /\ handling[e].step = "retry" /\ execs[r] = none
        /\ execs' = [execs EXCEPT ![r] = [status |-> "PENDING", retryCount |-> n]]
        /\ handling' = [handling EXCEPT ![e].step = "publish"]
        /\ followedBy' = [followedBy EXCEPT ![e] = @ \cup {r}]
        /\ UNCHANGED <<policy, queued, deadLetters, faulty>>
    BY <1>8 DEF Fls!CreateRetry
  <2>2. /\ execs[e] # none /\ e # r /\ followedBy[e] = {} /\ e \notin deadLetters
        /\ Again(e) /\ ~Spent(e) /\ r \notin queued
    BY <1>1, <2>1 DEF FollowedUp, Pending
  <2>3. execs[e].retryCount \in Nat /\ n \in Nat
    BY <1>1, <2>2 DEF FailuresTyped, ExecRow
  <2>4. /\ execs' \in [Exec -> ExecRow \cup {none}]
        /\ execs'[r] # none /\ execs'[r].status = "PENDING" /\ execs'[r].retryCount = n
        /\ \A f \in Exec : f # r => execs'[f] = execs[f]
    BY <1>1, <2>1, <2>3, NewRow
  <2>5. /\ handling' \in [Exec -> Handling]
        /\ handling'[e].step = "publish" /\ handling'[e].type = handling[e].type
        /\ handling'[e].policy = handling[e].policy
        /\ \A f \in Exec : f # e => handling'[f] = handling[f]
    BY <1>1, <2>1, StageMoves DEF Stages
  <2>6. /\ followedBy'[e] = {r} /\ \A f \in Exec : f # e => followedBy'[f] = followedBy[f]
        /\ followedBy' \in [Exec -> SUBSET Exec]
    BY <1>1, <2>1, <2>2 DEF FailuresTyped
  <2>7. RowsGoOn
    BY <2>1, <2>4 DEF RowsGoOn, InQueue
  <2>8. (Again(e)' <=> Again(e)) /\ (Spent(e)' <=> Spent(e))
    BY <2>2, <2>4, <2>5 DEF Again, Spent
  <2>9. execs'[e] = execs[e] /\ execs[e].status \in {"RUNNING", "FAILED"} /\ e \notin queued
    BY <1>1, <2>1, <2>2, <2>4 DEF FollowedUp, Pending
  <2>10. Pending(r)'
    BY <2>4 DEF Pending
  <2>11. FollowedUp(e)'
    BY <2>1, <2>2, <2>4, <2>5, <2>6, <2>8, <2>9, <2>10 DEF FollowedUp, Publishing, n
  <2>12. ASSUME NEW f \in Exec, f # e
         PROVE  FollowedUp(f)'
    <3>1. FollowedUp(f) /\ followedBy[f] \subseteq Exec
      BY <1>1 DEF FailuresTyped
    <3>2. \A x \in followedBy[f] : x # r
      BY <2>1, <3>1 DEF FollowedUp
    <3>3. handling[f].step # "idle" => f # r
      BY <2>1, <3>1 DEF FollowedUp
    <3>4. f \in queued' => Pending(f)'
      BY <2>1, <2>2, <2>4, <3>1 DEF FollowedUp, Pending
    <3>5. Publishing(f) => \A x \in followedBy[f] : execs'[x] = execs[x] /\ x \notin queued'
      BY <2>1, <2>4, <3>1, <3>2 DEF FollowedUp
    <3> QED
      BY <2>1, <2>4, <2>5, <2>6, <2>7, <2>12, <3>3, <3>4, <3>5, LeftAlone
  <2>13. ASSUME NEW x \in Exec, NEW y \in Exec, followedBy'[x] \cap followedBy'[y] # {}
         PROVE  x = y
    <3>1. \A f \in Exec : r \notin followedBy[f]
      BY <1>1, <2>1 DEF FollowedUp
    <3>2. \A f \in Exec : f # e => r \notin followedBy'[f]
      BY <2>6, <3>1
    <3> QED
      BY <2>6, <2>13, <3>2 DEF FollowUp
  <2>14. FailuresTyped'
    BY <1>1, <2>1, <2>4, <2>5, <2>6 DEF FailuresTyped
  <2> QED
    BY <2>11, <2>12, <2>13, <2>14 DEF FollowUp
<1>9. ASSUME NEW e \in Exec, Fls!PublishRetry(e)
      PROVE  FollowUp'
  <2>1. /\ Publishing(e) /\ queued' = queued \cup followedBy[e]
        /\ handling' = [handling EXCEPT ![e].step = "close"]
        /\ UNCHANGED <<policy, execs, deadLetters, faulty, followedBy>>
    BY <1>9 DEF Fls!PublishRetry, Publishing
  <2>2. /\ followedBy[e] \subseteq Exec /\ followedBy[e] # {} /\ Again(e) /\ ~Spent(e)
        /\ \A r \in followedBy[e] : Pending(r)
    BY <1>1, <2>1 DEF FollowedUp, FailuresTyped
  <2>3. /\ handling' \in [Exec -> Handling]
        /\ handling'[e].step = "close" /\ handling'[e].type = handling[e].type
        /\ handling'[e].policy = handling[e].policy
        /\ \A f \in Exec : f # e => handling'[f] = handling[f]
    BY <1>1, <2>1, StageMoves DEF Stages, Publishing
  <2>4. RowsGoOn
    BY <2>1 DEF RowsGoOn, InQueue
  <2>5. (Again(e)' <=> Again(e)) /\ (Spent(e)' <=> Spent(e))
    BY <2>1, <2>3 DEF Again, Spent
  <2>6. \A f \in Exec : f \in queued' => Pending(f)'
    BY <1>1, <2>1, <2>2 DEF FollowedUp, Pending
  <2>7. Ended(e)'
    BY <2>1, <2>2, <2>5 DEF Ended, InQueue
  <2>8. FollowedUp(e)'
    BY <1>1, <2>1, <2>2, <2>3, <2>5, <2>6, <2>7 DEF FollowedUp, Publishing
  <2>9. ASSUME NEW f \in Exec, f # e
        PROVE  FollowedUp(f)'
    <3>1. followedBy[f] \cap followedBy[e] = {}
      BY <2>9 DEF FollowUp
    <3>2. Publishing(f) => \A x \in followedBy[f] : x \notin queued'
      BY <1>1, <2>1, <3>1 DEF FollowedUp
    <3> QED
      BY <2>1, <2>3, <2>4, <2>6, <2>9, <3>2, LeftAlone
  <2>10. FailuresTyped'
    BY <1>1, <2>1, <2>2, <2>3 DEF FailuresTyped
  <2> QED
    BY <2>1, <2>8, <2>9, <2>10 DEF FollowUp
<1>10. ASSUME NEW e \in Exec, Fls!CloseExecution(e)
       PROVE  FollowUp'
  <2>1. /\ handling[e].step \in {"final", "close"} /\ execs' = [execs EXCEPT ![e].status = "FAILED"]
        /\ handling' = [handling EXCEPT ![e].step = "done"]
        /\ UNCHANGED <<policy, queued, deadLetters, faulty, followedBy>>
    BY <1>10 DEF Fls!CloseExecution
  <2>2. execs[e] # none /\ execs[e].status \in {"RUNNING", "FAILED"} /\ e \notin queued
    BY <1>1, <2>1 DEF FollowedUp, Pending
  <2>3. /\ execs' \in [Exec -> ExecRow \cup {none}]
        /\ execs'[e] # none /\ execs'[e].status = "FAILED"
        /\ execs'[e].retryCount = execs[e].retryCount
        /\ \A f \in Exec : f # e => execs'[f] = execs[f]
    BY <1>1, <2>1, <2>2, NewStatus
  <2>4. /\ handling' \in [Exec -> Handling]
        /\ handling'[e].step = "done" /\ handling'[e].type = handling[e].type
        /\ handling'[e].policy = handling[e].policy
        /\ \A f \in Exec : f # e => handling'[f] = handling[f]
    BY <1>1, <2>1, StageMoves DEF Stages
  <2>5. RowsGoOn
    BY <2>1, <2>3 DEF RowsGoOn, InQueue
  <2>6. (Again(e)' <=> Again(e)) /\ (Spent(e)' <=> Spent(e))
    BY <2>3, <2>4 DEF Again, Spent
  <2>7. \A r \in followedBy[e] : r \in Exec /\ execs[r] # none
    BY <1>1 DEF FollowedUp, FailuresTyped
  <2>8. Ended(e) => Ended(e)'
    BY <2>1, <2>5, <2>6, <2>7 DEF Ended, RowsGoOn
  <2>9. e \notin faulty => Ended(e)
    BY <1>1, <2>1 DEF FollowedUp, Ended
  <2>10. FollowedUp(e)'
    <3>1. FollowedUp(e)
      BY <1>1
    <3>2. \A r \in followedBy[e] : execs'[r] # none /\ execs'[r].retryCount = execs'[e].retryCount + 1
      BY <2>3, <2>5, <2>7, <3>1 DEF FollowedUp, RowsGoOn
    <3> QED
      BY <2>1, <2>2, <2>3, <2>4, <2>6, <2>8, <2>9, <3>1, <3>2 DEF FollowedUp, Publishing
  <2>11. ASSUME NEW f \in Exec, f # e
         PROVE  FollowedUp(f)'
    <3>1. FollowedUp(f) /\ followedBy[f] \subseteq Exec /\ execs'[f] = execs[f]
      BY <1>1, <2>3, <2>11 DEF FailuresTyped
    <3>2. f \in queued' => Pending(f)'
      BY <2>1, <3>1 DEF FollowedUp, Pending
    <3>3. Publishing(f) => \A x \in followedBy[f] : execs'[x] = execs[x] /\ x \notin queued'
      <4> SUFFICES ASSUME Publishing(f), NEW x \in followedBy[f]
                   PROVE  execs'[x] = execs[x] /\ x \notin queued'
        OBVIOUS
      <4>1. Pending(x) /\ x \notin queued
        BY <3>1 DEF FollowedUp
      <4>2. x # e
        BY <2>2, <4>1 DEF Pending
      <4> QED
        BY <2>1, <2>3, <3>1, <4>1, <4>2
    <3> QED
      BY <2>1, <2>4, <2>5, <2>11, <3>1, <3>2, <3>3, LeftAlone
  <2> QED
    BY <1>1, <2>1, <2>3, <2>4, <2>10, <2>11 DEF FollowUp, FailuresTyped
(* A row that no call handles begins or completes.                          *)
<1>11. ASSUME NEW e \in Exec, NEW s \in {"RUNNING", "COMPLETED"}, execs[e] # none,
              handling[e].step = "idle", execs' = [execs EXCEPT ![e].status = s],
              Pending(e) => e \in queued, queued' = queued \ {e},
              UNCHANGED <<policy, deadLetters, handling, faulty, followedBy>>
       PROVE  FollowUp'
  <2>1. /\ execs' \in [Exec -> ExecRow \cup {none}]
        /\ execs'[e] # none /\ execs'[e].status = s
        /\ execs'[e].retryCount = execs[e].retryCount
        /\ \A f \in Exec : f # e => execs'[f] = execs[f]
    BY <1>1, <1>11, NewStatus
  <2>2. RowsGoOn
    <3> SUFFICES ASSUME NEW x \in Exec, execs[x] # none
                 PROVE  /\ execs'[x] # none /\ execs'[x].retryCount = execs[x].retryCount
                        /\ InQueue(x) => InQueue(x)'
      BY DEF RowsGoOn
    <3>1. CASE x = e
      BY <1>11, <2>1, <3>1 DEF InQueue
    <3>2. CASE x # e
      BY <1>11, <2>1, <3>2 DEF InQueue
    <3> QED
      BY <3>1, <3>2
  <2>3. ASSUME NEW f \in Exec
        PROVE  FollowedUp(f)'
    <3>1. FollowedUp(f) /\ followedBy[f] \subseteq Exec
      BY <1>1 DEF FailuresTyped
    <3>2. f \in queued' => Pending(f)'
      BY <1>11, <2>1, <3>1 DEF FollowedUp, Pending
    <3>3. Publishing(f) => \A x \in followedBy[f] : execs'[x] = execs[x] /\ x \notin queued'
      <4> SUFFICES ASSUME Publishing(f), NEW x \in followedBy[f]
                   PROVE  execs'[x] = execs[x] /\ x \notin queued'
        OBVIOUS
      <4>1. Pending(x) /\ x \notin queued
        BY <3>1 DEF FollowedUp
      <4>2. x # e
        BY <1>11, <4>1
      <4> QED
        BY <1>11, <2>1, <3>1, <4>1, <4>2
    <3>4. handling[f].step # "idle" => execs'[f].status = execs[f].status
      BY <1>11, <2>1
    <3> QED
      BY <1>11, <2>2, <3>2, <3>3, <3>4, LeftAlone
  <2> QED
    BY <1>1, <1>11, <2>1, <2>3 DEF FollowUp, FailuresTyped
<1>12. ASSUME NEW e \in Exec, Fls!RunRetry(e)
       PROVE  FollowUp'
  <2>1. e \in queued /\ Pending(e)
    BY <1>1, <1>12 DEF Fls!RunRetry, FollowedUp
  <2>2. execs[e] # none /\ handling[e].step = "idle"
    BY <1>1, <2>1 DEF FollowedUp, Pending
  <2> QED
    BY <1>11, <1>12, <2>1, <2>2 DEF Fls!RunRetry
<1>13. ASSUME NEW e \in Exec, Fls!Complete(e)
       PROVE  FollowUp'
  <2>1. execs[e] # none /\ execs[e].status = "RUNNING" /\ handling[e].step = "idle"
    BY <1>2, <1>13 DEF Fls!Complete
  <2>2. e \notin queued /\ ~Pending(e) /\ queued \ {e} = queued
    BY <1>1, <2>1 DEF FollowedUp, Pending
  <2> QED
    BY <1>11, <1>13, <2>1, <2>2 DEF Fls!Complete
<1>14. ASSUME NEW e \in Exec, NEW r \in Exec, NEW ok \in BOOLEAN, Fls!RetryDeadLetterJob(e, r, ok)
       PROVE  FollowUp'
  <2>1. /\ execs[r] = none
        /\ execs' = [execs EXCEPT ![r] = [status |-> "PENDING", retryCount |-> 0]]
        /\ queued \subseteq queued' /\ queued' \subseteq queued \cup {r}
        /\ UNCHANGED <<policy, deadLetters, handling, faulty, followedBy>>
    BY <1>14 DEF Fls!RetryDeadLetterJob
  <2>2. /\ execs' \in [Exec -> ExecRow \cup {none}]
        /\ execs'[r] # none /\ execs'[r].status = "PENDING"
        /\ \A f \in Exec : f # r => execs'[f] = execs[f]
    BY <1>1, <2>1, NewRow
  <2>3. RowsGoOn
    BY <2>1, <2>2 DEF RowsGoOn, InQueue
  <2>4. ASSUME NEW f \in Exec
        PROVE  FollowedUp(f)'
    <3>1. FollowedUp(f) /\ followedBy[f] \subseteq Exec
      BY <1>1 DEF FailuresTyped
    <3>2. f \in queued' => Pending(f)'
      BY <2>1, <2>2, <3>1 DEF FollowedUp, Pending
    <3>3. \A x \in followedBy[f] : x # r
      BY <2>1, <3>1 DEF FollowedUp
    <3>4. Publishing(f) => \A x \in followedBy[f] : execs'[x] = execs[x] /\ x \notin queued'
      BY <2>1, <2>2, <3>1, <3>3 DEF FollowedUp
    <3>5. handling[f].step # "idle" => execs'[f].status = execs[f].status
      BY <2>1, <2>2, <3>1 DEF FollowedUp
    <3> QED
      BY <2>1, <2>3, <3>2, <3>4, <3>5, LeftAlone
  <2>5. FailuresTyped'
    BY <1>1, <2>1, <2>2 DEF FailuresTyped
  <2> QED
    BY <2>1, <2>4, <2>5 DEF FollowUp
<1> QED
  BY <1>4, <1>5, <1>6, <1>7, <1>8, <1>9, <1>10, <1>12, <1>13, <1>14 DEF Fls!Next

(* A failure handled without an error comes to the one end its error, its   *)
(* count and the policy of its time call for, and a fault adds none: one    *)
(* retry, counted and in the queue or begun, or a dead letter once the      *)
(* retries are spent, or neither for a final error.                         *)
THEOREM FailuresEnd == RecordsSpec => []FailuresFollowedUp
<1>1. RecordsInit => FollowUpKept
  <2> SUFFICES ASSUME RecordsInit, part = "failures"
               PROVE  FollowUp
    BY DEF FollowUpKept
  <2>1. /\ policy = FirstPolicy
        /\ execs \in [Exec -> {none, [status |-> "RUNNING", retryCount |-> 0]}]
        /\ queued = {} /\ deadLetters = {} /\ handling = [e \in Exec |-> [step |-> "idle"]]
        /\ followedBy = [e \in Exec |-> {}]
    BY DEF RecordsInit, Fls!Init, Fls!Idle
  <2>2. [status |-> "RUNNING", retryCount |-> 0] \in ExecRow
    BY DEF ExecRow
  <2>3. FailuresTyped
    <3>1. {} \in SUBSET Exec
      OBVIOUS
    <3>2. [step |-> "idle"] \in Handling
      BY DEF Handling
    <3> QED
      BY <2>1, <2>2, <3>1, <3>2 DEF FailuresTyped, AllPolicies
  <2>4. \A e \in Exec : handling[e].step = "idle" /\ followedBy[e] = {}
    BY <2>1
  <2>5. \A e \in Exec : FollowedUp(e)
    BY <2>1, <2>4 DEF FollowedUp, Publishing
  <2> QED
    BY <2>3, <2>4, <2>5 DEF FollowUp
<1>2. FollowUpKept /\ [RecordsNext]_recordVars => FollowUpKept'
  <2> SUFFICES ASSUME FollowUpKept, [RecordsNext]_recordVars, part' = "failures"
               PROVE  FollowUp'
    BY DEF FollowUpKept
  <2>1. part = "failures" /\ FollowUp /\ (Fls!Next \/ UNCHANGED failVars)
    BY OnePart DEF FollowUpKept
  <2>2. CASE UNCHANGED failVars
    BY <2>1, <2>2 DEF FollowUp, FailuresTyped, FollowedUp, Pending, Publishing, InQueue, Again,
       Spent, Ended, failVars
  <2> QED
    BY <2>1, <2>2, FollowUpStays
<1>3. FollowUpKept => FailuresFollowedUp
  <2> SUFFICES ASSUME FollowUp, NEW e \in Exec, handling[e] # Fls!Idle
               PROVE  /\ Fls!Cardinality(followedBy[e]) <= 1
                      /\ followedBy[e] # {} => Again(e) /\ ~Spent(e)
                      /\ e \in deadLetters => Again(e) /\ Spent(e)
                      /\ handling[e].step = "done" /\ e \notin faulty =>
                            /\ execs[e].status = "FAILED"
                            /\ Again(e) /\ ~Spent(e) => followedBy[e] # {}
                            /\ Again(e) /\ Spent(e) => e \in deadLetters
                            /\ \A r \in followedBy[e] :
                                  /\ execs[r].retryCount = execs[e].retryCount + 1
                                  /\ r \in queued \/ execs[r].status # "PENDING"
    BY DEF FollowUpKept, FailuresFollowedUp, Fls!FailuresAreFollowedUp, Again, Spent
  <2>1. FollowedUp(e)
    BY DEF FollowUp
  <2>2. Cardinality(followedBy[e]) <= 1
    <3>1. CASE followedBy[e] = {}
      BY <3>1, FS_EmptySet
    <3>2. ASSUME NEW r, followedBy[e] = {r}
          PROVE  Cardinality(followedBy[e]) = 1
      BY <3>2, FS_Singleton
    <3>3. followedBy[e] = {} \/ \E r \in Exec : followedBy[e] = {r}
      BY <2>1 DEF FollowedUp
    <3> QED
      BY <3>1, <3>2, <3>3
  <2>3. Fls!Cardinality(followedBy[e]) = Cardinality(followedBy[e])
    BY DEF Fls!Cardinality, Cardinality
  <2>4. handling[e].step = "done" /\ e \notin faulty => Ended(e)
    BY <2>1 DEF FollowedUp
  <2> QED
    BY <2>1, <2>2, <2>3, <2>4 DEF FollowedUp, Ended, InQueue
<1> QED
  BY <1>1, <1>2, <1>3, PTL DEF RecordsSpec

(***************************************************************************)
(* Wallets                                                                 *)
(***************************************************************************)
Changes == [addOwner : Address] \cup [removeOwner : Address]
             \cup [updateThreshold : Thresholds] \cup [updateRecoverySettings : Recoveries]
Deploying == [step : {"deployed"}, user : User \cup TxUser, contract : Contract, arg : Setting]
Changing == [op : Changes, step : {"checked", "told"}, wallet : Wallet, contract : Contract]

(* What a contract was told covers a row, and a change, when each setting of *)
(* theirs is one it was told at some time, but for those of the row that     *)
(* were written past it.                                                     *)
History(sequence) == {sequence[i] : i \in DOMAIN sequence}
Covers(history, row, but) ==
    /\ "threshold" \in but \/ \E s \in history : s.threshold = row.threshold
    /\ "recovery" \in but \/ \E s \in history : s.recovery = row.recovery
    /\ "owners" \in but \/ \A x \in row.owners : \E s \in history : x \in s.owners
    /\ Wal!AllSettings \subseteq but \/ history # {}
CoversChange(history, op) ==
    /\ op \in [addOwner : Address] => \E s \in history : op.addOwner \in s.owners
    /\ op \in [updateThreshold : Thresholds] =>
           \E s \in history : s.threshold = op.updateThreshold
    /\ op \in [updateRecoverySettings : Recoveries] =>
           \E s \in history : s.recovery = op.updateRecoverySettings

RowLags(w) ==
    wallets[w] # none =>
        /\ wallets[w] \in WalletRow
        /\ Covers(History(told[wallets[w].contract]), wallets[w].set, past[w])
RequestLags(r) ==
    requests[r] # none =>
        \/ /\ requests[r] \in Deploying
           /\ requests[r].arg \in History(told[requests[r].contract])
        \/ /\ requests[r] \in Changing
           /\ wallets[requests[r].wallet] # none
           /\ \/ Wal!AllSettings \subseteq past[requests[r].wallet]
              \/ /\ requests[r].contract = wallets[requests[r].wallet].contract
                 /\ requests[r].step = "told" =>
                        CoversChange(History(told[requests[r].contract]), requests[r].op)
Lagging ==
    /\ wallets = [w \in Wallet |-> wallets[w]]
    /\ past \in [Wallet -> SUBSET Wal!AllSettings]
    /\ told \in [Contract -> Seq(Setting)]
    /\ requests = [r \in Request |-> requests[r]]
    /\ \A w \in Wallet : RowLags(w)
    /\ \A r \in Request : RequestLags(r)
LagKept == part = "wallets" => Lagging

(* What each change does to the settings.                                    *)
LEMMA AppliedIs ==
    ASSUME NEW s \in Setting, NEW op \in Changes
    PROVE  /\ Wal!Applied(op, s) \in Setting
           /\ op \in [addOwner : Address] =>
                  Wal!Applied(op, s) = [s EXCEPT !.owners = @ \cup {op.addOwner}]
           /\ op \in [removeOwner : Address] =>
                  Wal!Applied(op, s) = [s EXCEPT !.owners = @ \ {op.removeOwner}]
           /\ op \in [updateThreshold : Thresholds] =>
                  Wal!Applied(op, s) = [s EXCEPT !.threshold = op.updateThreshold]
           /\ op \in [updateRecoverySettings : Recoveries] =>
                  Wal!Applied(op, s) = [s EXCEPT !.recovery = op.updateRecoverySettings]
<1>1. ASSUME op \in [addOwner : Address]
      PROVE  Wal!Applied(op, s) = [s EXCEPT !.owners = @ \cup {op.addOwner}]
  <2>1. DOMAIN op = {"addOwner"}
    BY <1>1
  <2> QED
    BY <2>1 DEF Wal!Applied
<1>2. ASSUME op \in [removeOwner : Address]
      PROVE  Wal!Applied(op, s) = [s EXCEPT !.owners = @ \ {op.removeOwner}]
  <2>1. DOMAIN op = {"removeOwner"}
    BY <1>2
  <2> QED
    BY <2>1 DEF Wal!Applied
<1>3. ASSUME op \in [updateThreshold : Thresholds]
      PROVE  Wal!Applied(op, s) = [s EXCEPT !.threshold = op.updateThreshold]
  <2>1. DOMAIN op = {"updateThreshold"}
    BY <1>3
  <2> QED
    BY <2>1 DEF Wal!Applied
<1>4. ASSUME op \in [updateRecoverySettings : Recoveries]
      PROVE  Wal!Applied(op, s) = [s EXCEPT !.recovery = op.updateRecoverySettings]
  <2>1. DOMAIN op = {"updateRecoverySettings"}
    BY <1>4
  <2> QED
    BY <2>1 DEF Wal!Applied
<1>5. Wal!Applied(op, s) \in Setting
  <2>1. CASE op \in [addOwner : Address]
    BY <1>1, <2>1 DEF Setting
  <2>2. CASE op \in [removeOwner : Address]
    BY <1>2, <2>2 DEF Setting
  <2>3. CASE op \in [updateThreshold : Thresholds]
    BY <1>3, <2>3 DEF Setting
  <2>4. CASE op \in [updateRecoverySettings : Recoveries]
    BY <1>4, <2>4 DEF Setting
  <2> QED
    BY <2>1, <2>2, <2>3, <2>4 DEF Changes
<1> QED
  BY <1>1, <1>2, <1>3, <1>4, <1>5

(* A contract that was told the outcome of a change was told the change.     *)
LEMMA ToldChange ==
    ASSUME NEW s \in Setting, NEW op \in Changes, NEW history, Wal!Applied(op, s) \in history
    PROVE  CoversChange(history, op)
<1> DEFINE r == Wal!Applied(op, s)
<1>1. op \in [addOwner : Address] => op.addOwner \in r.owners
  BY AppliedIs DEF Setting
<1>2. op \in [updateThreshold : Thresholds] => r.threshold = op.updateThreshold
  BY AppliedIs DEF Setting
<1>3. op \in [updateRecoverySettings : Recoveries] => r.recovery = op.updateRecoverySettings
  BY AppliedIs DEF Setting
<1> HIDE DEF r
<1>4. r \in history
  BY DEF r
<1> QED
  BY <1>1, <1>2, <1>3, <1>4 DEF CoversChange

(* So the row may be changed too.                                            *)
LEMMA ChangeCovered ==
    ASSUME NEW s \in Setting, NEW op \in Changes, NEW history, NEW but,
           Covers(history, s, but), CoversChange(history, op)
    PROVE  Covers(history, Wal!Applied(op, s), but)
<1> DEFINE r == Wal!Applied(op, s)
<1>1. CASE op \in [addOwner : Address]
  <2>1. r.threshold = s.threshold /\ r.recovery = s.recovery /\ r.owners = s.owners \cup {op.addOwner}
    BY <1>1, AppliedIs DEF Setting
  <2> HIDE DEF r
  <2>2. Covers(history, r, but)
    BY <1>1, <2>1 DEF Covers, CoversChange
  <2> QED
    BY <2>2 DEF r
<1>2. CASE op \in [removeOwner : Address]
  <2>1. r.threshold = s.threshold /\ r.recovery = s.recovery /\ r.owners = s.owners \ {op.removeOwner}
    BY <1>2, AppliedIs DEF Setting
  <2> HIDE DEF r
  <2>2. Covers(history, r, but)
    BY <1>2, <2>1 DEF Covers
  <2> QED
    BY <2>2 DEF r
<1>3. CASE op \in [updateThreshold : Thresholds]
  <2>1. r.threshold = op.updateThreshold /\ r.recovery = s.recovery /\ r.owners = s.owners
    BY <1>3, AppliedIs DEF Setting
  <2> HIDE DEF r
  <2>2. Covers(history, r, but)
    BY <1>3, <2>1 DEF Covers, CoversChange
  <2> QED
    BY <2>2 DEF r
<1>4. CASE op \in [updateRecoverySettings : Recoveries]
  <2>1. r.threshold = s.threshold /\ r.recovery = op.updateRecoverySettings /\ r.owners = s.owners
    BY <1>4, AppliedIs DEF Setting
  <2> HIDE DEF r
  <2>2. Covers(history, r, but)
    BY <1>4, <2>1 DEF Covers, CoversChange
  <2> QED
    BY <2>2 DEF r
<1> QED
  BY <1>1, <1>2, <1>3, <1>4 DEF Changes

LEMMA CoversMore ==
    ASSUME NEW h, NEW g, h \subseteq g
    PROVE  /\ \A row, but : Covers(h, row, but) => Covers(g, row, but)
           /\ \A op : CoversChange(h, op) => CoversChange(g, op)
<1>1. ASSUME NEW row, NEW but, Covers(h, row, but)
      PROVE  Covers(g, row, but)
  BY <1>1 DEF Covers
<1>2. ASSUME NEW op, CoversChange(h, op)
      PROVE  CoversChange(g, op)
  BY <1>2 DEF CoversChange
<1> QED
  BY <1>1, <1>2

(* Everything is covered when every setting was written past the contract.   *)
LEMMA AllPast ==
    ASSUME NEW history, NEW row, NEW but, Wal!AllSettings \subseteq but
    PROVE  Covers(history, row, but)
  BY DEF Covers, Wal!AllSettings

(* What was told stays told while nothing else changes.                      *)
LEMMA ToldStays ==
    ASSUME Lagging, UNCHANGED <<wallets, past>>,
           \A k \in Contract : History(told[k]) \subseteq History(told'[k])
    PROVE  /\ \A w \in Wallet : RowLags(w)'
           /\ \A r \in Request : requests'[r] = requests[r] => RequestLags(r)'
<1>1. ASSUME NEW w \in Wallet
      PROVE  RowLags(w)'
  <2>1. wallets[w] # none => wallets[w].contract \in Contract
    BY DEF Lagging, RowLags, WalletRow
  <2>2. CASE wallets[w] = none
    BY <2>2 DEF RowLags
  <2>3. CASE wallets[w] # none
    <3>1. wallets[w] \in WalletRow /\ Covers(History(told[wallets[w].contract]), wallets[w].set, past[w])
      BY <2>3 DEF Lagging, RowLags
    <3>2. History(told[wallets[w].contract]) \subseteq History(told'[wallets[w].contract])
      BY <2>1, <2>3
    <3>3. Covers(History(told'[wallets[w].contract]), wallets[w].set, past[w])
      BY <3>1, <3>2, CoversMore
    <3> QED
      BY <3>1, <3>3 DEF RowLags
  <2> QED
    BY <2>2, <2>3
<1>2. ASSUME NEW r \in Request, requests'[r] = requests[r]
      PROVE  RequestLags(r)'
  <2>1. CASE requests[r] = none
    BY <1>2, <2>1 DEF RequestLags
  <2>2. CASE requests[r] # none /\ requests[r] \in Deploying /\ requests[r].arg \in History(told[requests[r].contract])
    <3>1. requests[r].contract \in Contract
      BY <2>2 DEF Deploying
    <3>2. requests[r].arg \in History(told'[requests[r].contract])
      BY <2>2, <3>1
    <3> QED
      BY <1>2, <2>2, <3>2 DEF RequestLags
  <2>3. CASE requests[r] # none /\ requests[r] \in Changing
    <3>1. requests[r].contract \in Contract
      BY <2>3 DEF Changing
    <3>2. requests[r] \notin Deploying
      BY <2>3 DEF Changing, Deploying
    <3>3. CoversChange(History(told[requests[r].contract]), requests[r].op) =>
              CoversChange(History(told'[requests[r].contract]), requests[r].op)
      BY <3>1, CoversMore
    <3> QED
      BY <1>2, <2>3, <3>2, <3>3 DEF RequestLags, Lagging
  <2> QED
    BY <2>1, <2>2, <2>3 DEF Lagging, RequestLags
<1> QED
  BY <1>1, <1>2

LEMMA SpokenSettings ==
    ASSUME NEW q \in Seq(Setting)
    PROVE  /\ History(q) \subseteq Setting
           /\ \A s \in Setting : /\ Append(q, s) \in Seq(Setting)
                               /\ History(q) \subseteq History(Append(q, s))
                               /\ s \in History(Append(q, s))
           /\ History(q) # {} => q[Len(q)] \in Setting
<1>1. History(q) \subseteq Setting /\ (History(q) # {} => q[Len(q)] \in Setting)
  BY DEF History
<1>2. ASSUME NEW s \in Setting
      PROVE  /\ Append(q, s) \in Seq(Setting)
             /\ History(q) \subseteq History(Append(q, s))
             /\ s \in History(Append(q, s))
  <2>1. /\ Append(q, s) \in Seq(Setting)
        /\ DOMAIN Append(q, s) = 1..(Len(q) + 1) /\ DOMAIN q = 1..Len(q) /\ Len(q) \in Nat
        /\ \A i \in 1..Len(q) : Append(q, s)[i] = q[i]
        /\ Append(q, s)[Len(q) + 1] = s
    OBVIOUS
  <2>2. History(q) \subseteq History(Append(q, s))
    BY <2>1 DEF History
  <2>3. s \in History(Append(q, s))
    BY <2>1 DEF History
  <2> QED
    BY <2>1, <2>2, <2>3
<1> QED
  BY <1>1, <1>2

LEMMA LagStays ==
    ASSUME Lagging, Wal!WalletsNext
    PROVE  Lagging'
<1>1. /\ wallets = [w \in Wallet |-> wallets[w]]
      /\ past \in [Wallet -> SUBSET Wal!AllSettings]
      /\ told \in [Contract -> Seq(Setting)]
      /\ requests = [r \in Request |-> requests[r]]
      /\ \A w \in Wallet : RowLags(w)
      /\ \A r \in Request : RequestLags(r)
  BY DEF Lagging
<1>2. ASSUME NEW r \in Request, NEW new, requests' = [requests EXCEPT ![r] = new],
             UNCHANGED <<wallets, past>>, told' \in [Contract -> Seq(Setting)],
             \A k \in Contract : History(told[k]) \subseteq History(told'[k]),
             RequestLags(r)'
      PROVE  Lagging'
  <2>1. requests' = [x \in Request |-> requests'[x]]
    BY <1>1, <1>2
  <2>2. \A x \in Request : x # r => requests'[x] = requests[x]
    BY <1>1, <1>2
  <2>3. \A x \in Request : RequestLags(x)'
    BY <1>2, <2>2, ToldStays
  <2>4. \A w \in Wallet : RowLags(w)'
    BY <1>2, ToldStays
  <2> QED
    BY <1>1, <1>2, <2>1, <2>3, <2>4 DEF Lagging
<1>3. ASSUME NEW r \in Request, NEW new, requests' = [requests EXCEPT ![r] = new]
      PROVE  requests'[r] = new
  BY <1>1, <1>3
<1>4. \A w \in Wallet : wallets[w] # none =>
          /\ wallets[w] \in WalletRow /\ told[wallets[w].contract] \in Seq(Setting)
          /\ Covers(History(told[wallets[w].contract]), wallets[w].set, past[w])
          /\ wallets[w].contract \in Contract /\ wallets[w].set \in Setting
  BY <1>1 DEF RowLags, WalletRow
<1>5. ASSUME NEW r \in Request, NEW u \in User, NEW s \in Setting, Wal!DeployMultisigContract(r, u, s)
      PROVE  Lagging'
  <2>1. PICK k \in Contract :
            /\ told[k] = <<>> /\ told' = [told EXCEPT ![k] = <<s>>]
            /\ requests' = [requests EXCEPT ![r] =
                               [step |-> "deployed", user |-> u, contract |-> k, arg |-> s]]
            /\ UNCHANGED <<wallets, past>>
    BY <1>5 DEF Wal!DeployMultisigContract, Wal!Undeployed
  <2>2. told' \in [Contract -> Seq(Setting)]
    BY <1>1, <2>1
  <2>3. \A x \in Contract : History(told[x]) \subseteq History(told'[x])
    BY <1>1, <2>1 DEF History
  <2>4. s \in History(told'[k])
    BY <1>1, <2>1 DEF History
  <2> DEFINE new == [step |-> "deployed", user |-> u, contract |-> k, arg |-> s]
  <2>5. new \in Deploying /\ new.arg \in History(told'[new.contract])
    BY <2>4 DEF Deploying
  <2>6. requests' = [requests EXCEPT ![r] = new]
    BY <2>1
  <2> HIDE DEF new
  <2>7. RequestLags(r)'
    BY <1>3, <2>5, <2>6 DEF RequestLags
  <2> QED
    BY <1>2, <2>1, <2>2, <2>3, <2>6, <2>7
<1>6. ASSUME NEW row \in WalletRow, NEW w \in Wallet, NEW untold \in SUBSET Wal!AllSettings,
             wallets[w] = none, wallets' = [wallets EXCEPT ![w] = row],
             past' = [past EXCEPT ![w] = untold], UNCHANGED told,
             Covers(History(told[row.contract]), row.set, untold),
             requests' = [x \in Request |-> requests'[x]],
             \A x \in Request : requests'[x] \in {requests[x], none}
      PROVE  Lagging'
  <2>1. /\ wallets' = [x \in Wallet |-> wallets'[x]] /\ wallets'[w] = row
        /\ past' \in [Wallet -> SUBSET Wal!AllSettings] /\ past'[w] = untold
        /\ \A x \in Wallet : x # w => wallets'[x] = wallets[x] /\ past'[x] = past[x]
    BY <1>1, <1>6
  <2>2. \A x \in Wallet : RowLags(x)'
    BY <1>1, <1>6, <2>1 DEF RowLags
  <2>3. \A x \in Wallet : wallets[x] # none => wallets'[x] = wallets[x] /\ past'[x] = past[x]
    BY <1>6, <2>1
  <2>4. ASSUME NEW x \in Request
        PROVE  RequestLags(x)'
    <3>1. CASE requests'[x] = none
      BY <3>1 DEF RequestLags
    <3>2. CASE requests'[x] = requests[x]
      BY <1>1, <1>6, <2>3, <3>2 DEF RequestLags, Changing
    <3> QED
      BY <1>6, <3>1, <3>2
  <2> QED
    BY <1>1, <1>6, <2>1, <2>2, <2>4 DEF Lagging
<1>7. ASSUME NEW r \in Request, Wal!CreateWallet(r)
      PROVE  Lagging'
  <2>1. /\ requests[r] # none /\ requests[r].step = "deployed"
        /\ Wal!Insert(requests[r].user, requests[r].contract, DefaultName, requests[r].arg, {})
        /\ requests' = [requests EXCEPT ![r] = none] /\ UNCHANGED told
    BY <1>7 DEF Wal!CreateWallet
  <2>2. requests[r] \in Deploying /\ requests[r].arg \in History(told[requests[r].contract])
    BY <1>1, <2>1 DEF RequestLags, Changing
  <2> DEFINE row == [by |-> requests[r].user, contract |-> requests[r].contract,
                     name |-> DefaultName, active |-> TRUE, set |-> requests[r].arg]
  <2>3. PICK w \in Wallet : /\ wallets[w] = none /\ wallets' = [wallets EXCEPT ![w] = row]
                            /\ past' = [past EXCEPT ![w] = {}]
    BY <2>1 DEF Wal!Insert, Wal!Rows
  <2>4. row \in WalletRow /\ Covers(History(told[row.contract]), row.set, {})
    BY <2>2 DEF Deploying, WalletRow, Covers
  <2>5. requests' = [x \in Request |-> requests'[x]]
        /\ \A x \in Request : requests'[x] \in {requests[x], none}
    BY <1>1, <2>1
  <2>6. {} \in SUBSET Wal!AllSettings
    OBVIOUS
  <2> HIDE DEF row
  <2> QED
    BY <1>6, <2>1, <2>3, <2>4, <2>5, <2>6
<1>8. ASSUME NEW u \in User, NEW s \in Setting, Wal!BulkCreateWallet(u, s)
      PROVE  Lagging'
  <2>1. PICK k \in Contract : Wal!Insert(u, k, DefaultName, s, Wal!AllSettings)
    BY <1>8 DEF Wal!BulkCreateWallet, Wal!Undeployed
  <2>2. UNCHANGED <<told, requests>>
    BY <1>8 DEF Wal!BulkCreateWallet
  <2> DEFINE row == [by |-> u, contract |-> k, name |-> DefaultName, active |-> TRUE, set |-> s]
  <2>3. PICK w \in Wallet : /\ wallets[w] = none /\ wallets' = [wallets EXCEPT ![w] = row]
                            /\ past' = [past EXCEPT ![w] = Wal!AllSettings]
    BY <2>1 DEF Wal!Insert, Wal!Rows
  <2>4. row \in WalletRow
    BY DEF WalletRow
  <2> HIDE DEF row
  <2>5. Covers(History(told[row.contract]), row.set, Wal!AllSettings)
    BY AllPast
  <2> QED
    BY <1>1, <1>6, <2>2, <2>3, <2>4, <2>5
<1>9. ASSUME NEW r \in Request, NEW u \in User, NEW w \in Wallet, NEW op \in Changes,
             Wal!Change(r, u, w, op)
      PROVE  Lagging'
  <2> DEFINE new == [op |-> op, step |-> "checked", wallet |-> w, contract |-> wallets[w].contract]
  <2>1. /\ wallets[w] # none /\ requests' = [requests EXCEPT ![r] = new]
        /\ UNCHANGED <<wallets, told, past>>
    BY <1>9 DEF Wal!Change, Wal!GetWalletById, Wal!Rows
  <2>2. /\ new \in Changing /\ new.wallet = w /\ new.step # "told"
        /\ new.contract = wallets[w].contract
    BY <1>4, <2>1 DEF Changing
  <2> HIDE DEF new
  <2>3. RequestLags(r)'
    BY <1>3, <2>1, <2>2 DEF RequestLags
  <2> QED
    BY <1>1, <1>2, <2>1, <2>3
<1>10. ASSUME NEW r \in Request, Wal!TellContract(r)
       PROVE  Lagging'
  <2> DEFINE k == requests[r].contract
             op == requests[r].op
             s == Wal!Applied(op, told[k][Len(told[k])])
             new == [requests[r] EXCEPT !.step = "told"]
  <2>1. /\ requests[r] # none /\ requests[r].step = "checked" /\ UNCHANGED <<wallets, past>>
        /\ requests' = [requests EXCEPT ![r] = new]
        /\ \/ k \in Wal!Undeployed /\ UNCHANGED told
           \/ k \notin Wal!Undeployed /\ told' = [told EXCEPT ![k] = Append(told[k], s)]
    BY <1>10 DEF Wal!TellContract, Wal!Last
  <2>2. /\ requests[r] \in Changing /\ wallets[requests[r].wallet] # none
        /\ \/ Wal!AllSettings \subseteq past[requests[r].wallet]
           \/ k = wallets[requests[r].wallet].contract
    BY <1>1, <2>1 DEF RequestLags, Deploying
  <2>3. op \in Changes /\ requests[r].wallet \in Wallet /\ k \in Contract
    BY <2>2 DEF Changing
  <2>4. /\ new \in Changing /\ new.op = op /\ new.wallet = requests[r].wallet
        /\ new.contract = k
    BY <2>2 DEF Changing
  <2>5. requests'[r] = new
    BY <1>3, <2>1
  <2>6. CASE k \in Wal!Undeployed /\ UNCHANGED told
    <3>1. told[k] = <<>> /\ History(told[k]) = {}
      BY <2>6 DEF Wal!Undeployed, History
    <3>2. Wal!AllSettings \subseteq past[requests[r].wallet]
      BY <1>4, <2>2, <2>3, <3>1 DEF Covers
    <3> HIDE DEF new
    <3>3. RequestLags(r)'
      BY <2>1, <2>2, <2>4, <2>5, <3>2 DEF RequestLags
    <3> QED
      BY <1>1, <1>2, <2>1, <2>6, <3>3
  <2>7. CASE k \notin Wal!Undeployed /\ told' = [told EXCEPT ![k] = Append(told[k], s)]
    <3>1. told[k] \in Seq(Setting) /\ told[k] # <<>>
      BY <1>1, <2>3, <2>7 DEF Wal!Undeployed
    <3>2. Len(told[k]) \in DOMAIN told[k]
      BY <3>1
    <3>3. History(told[k]) # {}
      BY <3>2 DEF History
    <3>4. told[k][Len(told[k])] \in Setting
      BY <3>1, <3>3, SpokenSettings
    <3>5. s \in Setting
      BY <2>3, <3>4, AppliedIs
    <3>6. \A h : s \in h => CoversChange(h, op)
      BY <2>3, <3>4, ToldChange
    <3> HIDE DEF new, s
    <3> DEFINE q == Append(told[k], s)
    <3>7. q \in Seq(Setting) /\ History(told[k]) \subseteq History(q) /\ s \in History(q)
      BY <3>1, <3>5, SpokenSettings
    <3> HIDE DEF q
    <3>8. told' = [told EXCEPT ![k] = q]
      BY <2>7 DEF q
    <3> HIDE DEF k, op
    <3>9. /\ told' \in [Contract -> Seq(Setting)] /\ told'[k] = q
          /\ \A x \in Contract : History(told[x]) \subseteq History(told'[x])
      BY <1>1, <2>3, <3>7, <3>8
    <3>10. CoversChange(History(told'[k]), op)
      BY <3>6, <3>7, <3>9
    <3>11. RequestLags(r)'
      BY <2>1, <2>2, <2>4, <2>5, <3>10 DEF RequestLags
    <3> QED
      BY <1>2, <2>1, <3>9, <3>11
  <2> QED
    BY <2>1, <2>6, <2>7
<1>11. ASSUME NEW w \in Wallet, wallets[w] # none, NEW row \in WalletRow,
              NEW but \in SUBSET Wal!AllSettings,
              wallets' = [wallets EXCEPT ![w] = row], past' = [past EXCEPT ![w] = but],
              past[w] \subseteq but, UNCHANGED told,
              row.contract = wallets[w].contract \/ Wal!AllSettings \subseteq but,
              Covers(History(told[row.contract]), row.set, but),
              requests' = [x \in Request |-> requests'[x]],
              \A x \in Request : requests'[x] \in {requests[x], none}
       PROVE  Lagging'
  <2>1. /\ wallets' = [x \in Wallet |-> wallets'[x]] /\ wallets'[w] = row
        /\ past' \in [Wallet -> SUBSET Wal!AllSettings] /\ past'[w] = but
        /\ \A x \in Wallet : x # w => wallets'[x] = wallets[x] /\ past'[x] = past[x]
    BY <1>1, <1>11
  <2>2. \A x \in Wallet : RowLags(x)'
    BY <1>1, <1>11, <2>1 DEF RowLags
  <2>3. row # none
    BY <1>11, AbsentAssumption
  <2>4. \A x \in Wallet : wallets[x] # none =>
            /\ wallets'[x] # none /\ past[x] \subseteq past'[x]
            /\ wallets'[x].contract = wallets[x].contract \/ Wal!AllSettings \subseteq past'[x]
    BY <1>11, <2>1, <2>3
  <2>5. ASSUME NEW x \in Request
        PROVE  RequestLags(x)'
    <3>1. CASE requests'[x] = none
      BY <3>1 DEF RequestLags
    <3>2. CASE requests'[x] = requests[x]
      BY <1>1, <1>11, <2>4, <3>2 DEF RequestLags, Changing
    <3> QED
      BY <1>11, <3>1, <3>2
  <2> QED
    BY <1>1, <1>11, <2>1, <2>2, <2>5 DEF Lagging
<1>12. ASSUME NEW r \in Request, Wal!WriteSettings(r)
       PROVE  Lagging'
  <2> DEFINE w == requests[r].wallet
             op == requests[r].op
             s == Wal!Applied(op, wallets[w].set)
             row == [wallets[w] EXCEPT !.set = s]
             but == past[w]
  <2>1. /\ requests[r] # none /\ requests[r].step = "told" /\ UNCHANGED <<told, past>>
        /\ requests' = [requests EXCEPT ![r] = none]
        /\ wallets' = [wallets EXCEPT ![w] = row]
    BY <1>12 DEF Wal!WriteSettings
  <2>2. /\ requests[r] \in Changing /\ wallets[w] # none
        /\ \/ Wal!AllSettings \subseteq but
           \/ CoversChange(History(told[wallets[w].contract]), op)
    BY <1>1, <2>1 DEF RequestLags, Deploying
  <2>3. op \in Changes /\ w \in Wallet
    BY <2>2 DEF Changing
  <2>4. /\ wallets[w] \in WalletRow /\ wallets[w].set \in Setting
        /\ Covers(History(told[wallets[w].contract]), wallets[w].set, but)
    BY <1>4, <2>2, <2>3
  <2>5. s \in Setting
    BY <2>3, <2>4, AppliedIs
  <2>6. Covers(History(told[wallets[w].contract]), s, but)
    BY <2>2, <2>3, <2>4, ChangeCovered, AllPast
  <2> HIDE DEF s
  <2>7. row \in WalletRow /\ row.set = s /\ row.contract = wallets[w].contract
    BY <2>4, <2>5 DEF WalletRow
  <2> HIDE DEF row
  <2>8. /\ requests' = [x \in Request |-> requests'[x]]
        /\ \A x \in Request : requests'[x] \in {requests[x], none}
    BY <1>1, <2>1
  <2>9. past' = [past EXCEPT ![w] = but] /\ but \in SUBSET Wal!AllSettings /\ past[w] = but
    BY <1>1, <2>1, <2>3
  <2> HIDE DEF w, but
  <2> QED
    BY <1>11, <2>1, <2>2, <2>3, <2>6, <2>7, <2>8, <2>9
<1>13. ASSUME NEW w \in Wallet, NEW u \in User, NEW data \in Wal!Columns, Wal!UpdateWallet(u, w, data)
       PROVE  Lagging'
  <2> DEFINE old == wallets[w]
             set == Wal!Settings(data.threshold, old.set.owners, data.recovery)
             row == [by |-> data.by, contract |-> data.contract, name |-> data.name,
                     active |-> data.active, set |-> set]
             but == past[w] \cup {s \in Wal!AllSettings :
                                      data.contract # old.contract \/ set[s] # old.set[s]}
  <2>1. /\ old # none /\ wallets' = [wallets EXCEPT ![w] = row] /\ UNCHANGED <<told, requests>>
        /\ past' = [past EXCEPT ![w] = but]
    BY <1>13 DEF Wal!UpdateWallet, Wal!GetWalletById, Wal!Rows
  <2>2. old \in WalletRow /\ old.set \in Setting /\ Covers(History(told[old.contract]), old.set, past[w])
    BY <1>4, <2>1
  <2>3. set \in Setting /\ set.owners = old.set.owners
    BY <2>2 DEF Wal!Settings, Setting, Wal!Columns
  <2>4. row \in WalletRow /\ row.contract = data.contract /\ row.set = set
    BY <2>3 DEF WalletRow, Wal!Columns
  <2>5. past[w] \in SUBSET Wal!AllSettings /\ but \in SUBSET Wal!AllSettings /\ past[w] \subseteq but
    BY <1>1
  <2>6. data.contract # old.contract => Wal!AllSettings \subseteq but
    OBVIOUS
  <2>7. data.contract = old.contract => Covers(History(told[old.contract]), set, but)
    <3>1. "threshold" \in Wal!AllSettings /\ "recovery" \in Wal!AllSettings
      BY DEF Wal!AllSettings
    <3>2. "threshold" \notin but => "threshold" \notin past[w] /\ set.threshold = old.set.threshold
      BY <3>1
    <3>3. "recovery" \notin but => "recovery" \notin past[w] /\ set.recovery = old.set.recovery
      BY <3>1
    <3> HIDE DEF set, but
    <3> QED
      BY <2>2, <2>3, <2>5, <3>2, <3>3 DEF Covers
  <2> HIDE DEF set, but
  <2>8. Covers(History(told[row.contract]), row.set, but)
    BY <2>4, <2>6, <2>7, AllPast
  <2>9. row.contract = old.contract \/ Wal!AllSettings \subseteq but
    BY <2>4, <2>6
  <2> HIDE DEF row
  <2> QED
    BY <1>1, <1>11, <2>1, <2>4, <2>5, <2>8, <2>9
<1>14. ASSUME NEW w \in Wallet, NEW u \in User, Wal!SoftDelete(u, w)
       PROVE  Lagging'
  <2> DEFINE row == [wallets[w] EXCEPT !.active = FALSE]
             but == past[w]
  <2>1. /\ wallets[w] # none /\ wallets' = [wallets EXCEPT ![w] = row]
        /\ UNCHANGED <<told, past, requests>>
    BY <1>14 DEF Wal!SoftDelete, Wal!GetWalletById, Wal!Rows
  <2>2. row \in WalletRow /\ row.set = wallets[w].set /\ row.contract = wallets[w].contract
    BY <1>4, <2>1 DEF WalletRow
  <2>3. past' = [past EXCEPT ![w] = but] /\ but \in SUBSET Wal!AllSettings /\ past[w] = but
    BY <1>1, <2>1
  <2> HIDE DEF row, but
  <2> QED
    BY <1>1, <1>4, <1>11, <2>1, <2>2, <2>3
<1>15. ASSUME NEW r \in Request, Wal!RequestFails(r)
       PROVE  Lagging'
  <2>1. requests' = [requests EXCEPT ![r] = none] /\ UNCHANGED <<wallets, told, past>>
    BY <1>15 DEF Wal!RequestFails
  <2>2. RequestLags(r)'
    BY <1>3, <2>1 DEF RequestLags
  <2> QED
    BY <1>1, <1>2, <2>1, <2>2
<1>16. ASSUME NEW r \in Request, NEW u \in User, NEW w \in Wallet, NEW x \in Address,
              Wal!AddOwner(r, u, w, x) \/ Wal!RemoveOwner(r, u, w, x)
       PROVE  Lagging'
  <2>1. [addOwner |-> x] \in Changes /\ [removeOwner |-> x] \in Changes
    BY DEF Changes
  <2> QED
    BY <1>9, <1>16, <2>1 DEF Wal!AddOwner, Wal!RemoveOwner
<1>17. ASSUME NEW r \in Request, NEW u \in User, NEW w \in Wallet, NEW t \in Thresholds,
              Wal!UpdateThreshold(r, u, w, t)
       PROVE  Lagging'
  <2>1. [updateThreshold |-> t] \in Changes
    BY DEF Changes
  <2> QED
    BY <1>9, <1>17, <2>1 DEF Wal!UpdateThreshold
<1>18. ASSUME NEW r \in Request, NEW u \in User, NEW w \in Wallet, NEW v \in Recoveries,
              Wal!UpdateRecoverySettings(r, u, w, v)
       PROVE  Lagging'
  <2>1. [updateRecoverySettings |-> v] \in Changes
    BY DEF Changes
  <2> QED
    BY <1>9, <1>18, <2>1 DEF Wal!UpdateRecoverySettings
<1>19. ASSUME NEW t \in Thresholds, NEW o \in (SUBSET Address) \ {{}}, NEW v \in Recoveries
       PROVE  Wal!Settings(t, o, v) \in Setting
  BY DEF Wal!Settings, Setting
<1> QED
  BY <1>5, <1>7, <1>8, <1>10, <1>12, <1>13, <1>14, <1>15, <1>16, <1>17, <1>18,
     <1>19
     DEF Wal!WalletsNext

(* The database runs ahead of the chain only by a bulk creation and by an    *)
(* update that sends the setting or another contract: however these and the  *)
(* handlers of the settings overlap and fail, every other setting of a row   *)
(* was told to its contract before.                                          *)
THEOREM RowsLag == RecordsSpec => []WalletRowsLagContracts
<1>1. RecordsInit => LagKept
  <2> SUFFICES ASSUME RecordsInit, part = "wallets"
               PROVE  Lagging
    BY DEF LagKept
  <2>1. Wal!WalletsInit
    BY DEF RecordsInit
  <2>2. told \in [Contract -> Seq(Setting)] /\ past \in [Wallet -> SUBSET Wal!AllSettings]
    BY <2>1 DEF Wal!WalletsInit
  <2> QED
    BY <2>1, <2>2 DEF Wal!WalletsInit, Lagging, RowLags, RequestLags
<1>2. LagKept /\ [RecordsNext]_recordVars => LagKept'
  <2> SUFFICES ASSUME LagKept, [RecordsNext]_recordVars, part' = "wallets"
               PROVE  Lagging'
    BY DEF LagKept
  <2>1. part = "wallets" /\ Lagging /\ (Wal!WalletsNext \/ UNCHANGED txVars)
    BY OnePart DEF LagKept
  <2>2. CASE UNCHANGED txVars
    BY <2>1, <2>2 DEF Lagging, RowLags, RequestLags, txVars
  <2> QED
    BY <2>1, <2>2, LagStays
<1>3. LagKept => WalletRowsLagContracts
  BY DEF LagKept, Lagging, RowLags, Covers, History, WalletRowsLagContracts, Wal!RowsLagContracts, Wal!Rows
<1> QED
  BY <1>1, <1>2, <1>3, PTL DEF RecordsSpec

(***************************************************************************)
(* Transactions                                                            *)
(***************************************************************************)
(* A row, once there, stays; so does the fragment of a user.                *)
TxRows ==
    /\ wallets = [w \in Wallet |-> wallets[w]]
    /\ requests = [r \in TxRequest |-> requests[r]]
    /\ \A w \in Wallet : wallets[w] # none => wallets[w] \in WalletRow
    /\ \A r \in TxRequest : requests[r] # none =>
           \/ requests[r] \in Deploying
           \/ requests[r] \in Changing /\ wallets[requests[r].wallet] # none

Submission == [users : SUBSET TxUser, sent : SUBSET TxUser, threshold : Nat]
Given == Fragments \cup {Blank}
SignersIn(s) == {u \in TxUser : s[u] # none}
Met(record) ==
    /\ record.users \subseteq TxUser /\ record.threshold \in Nat
    /\ Cardinality(record.users) >= record.threshold
CallCounts(record, most) ==
    /\ record.step = "counted" => record.count \in Nat /\ record.count <= most
    /\ record.step = "relaying" => Met(record) /\ record.sent \subseteq TxUser
Counting ==
    /\ signed \in [TxUser -> Given \cup {none}]
    /\ calls = [k \in TxCall |-> calls[k]]
    /\ tx # none => /\ tx \in TxRow /\ wallets[tx.wallet] # none
                    /\ tx.signatures <= Cardinality(SignersIn(signed))
    /\ \A k \in TxCall : calls[k] # none =>
           tx # none /\ CallCounts(calls[k], Cardinality(SignersIn(signed)))
    /\ relays \in Seq(Submission)
    /\ \A i \in DOMAIN relays : Met(relays[i])
CountsKept == part = "transactions" => TxRows /\ Counting

LEMMA WalletRowsStay ==
    ASSUME TxRows, Tx!WalletsNext
    PROVE  TxRows' /\ \A w \in Wallet : wallets[w] # none => wallets'[w] # none
<1> DEFINE Goal == TxRows' /\ \A w \in Wallet : wallets[w] # none => wallets'[w] # none
<1>1. /\ wallets = [w \in Wallet |-> wallets[w]]
      /\ requests = [r \in TxRequest |-> requests[r]]
      /\ \A w \in Wallet : wallets[w] # none => wallets[w] \in WalletRow
      /\ \A r \in TxRequest : requests[r] # none =>
             \/ requests[r] \in Deploying
             \/ requests[r] \in Changing /\ wallets[requests[r].wallet] # none
  BY DEF TxRows
<1>2. ASSUME NEW r \in TxRequest, NEW new, requests' = [requests EXCEPT ![r] = new],
             UNCHANGED wallets,
             new # none => new \in Deploying \/ (new \in Changing /\ wallets[new.wallet] # none)
      PROVE  Goal
  <2>1. requests' = [x \in TxRequest |-> requests'[x]] /\ requests'[r] = new
        /\ \A x \in TxRequest : x # r => requests'[x] = requests[x]
    BY <1>1, <1>2
  <2> QED
    BY <1>1, <1>2, <2>1 DEF TxRows
<1>3. ASSUME NEW w \in Wallet, NEW row \in WalletRow, wallets' = [wallets EXCEPT ![w] = row],
             requests' = [x \in TxRequest |-> requests'[x]],
             \A x \in TxRequest : requests'[x] \in {requests[x], none}
      PROVE  Goal
  <2>1. row # none
    BY AbsentAssumption
  <2>2. /\ wallets' = [x \in Wallet |-> wallets'[x]] /\ wallets'[w] = row
        /\ \A x \in Wallet : x # w => wallets'[x] = wallets[x]
    BY <1>1, <1>3
  <2>3. \A x \in Wallet : wallets[x] # none => wallets'[x] # none
    BY <2>1, <2>2
  <2>4. ASSUME NEW x \in TxRequest, requests'[x] # none
        PROVE  \/ requests'[x] \in Deploying
               \/ requests'[x] \in Changing /\ wallets'[requests'[x].wallet] # none
    <3>1. requests'[x] = requests[x]
      BY <1>3, <2>4
    <3> QED
      BY <1>1, <2>3, <2>4, <3>1 DEF Changing
  <2> QED
    BY <1>1, <1>3, <2>2, <2>3, <2>4 DEF TxRows
<1> HIDE DEF Goal
<1>4. ASSUME NEW r \in TxRequest, NEW u \in TxUser, NEW s \in Setting,
             Tx!DeployMultisigContract(r, u, s)
      PROVE  Goal
  <2>1. PICK k \in Contract :
            /\ requests' = [requests EXCEPT ![r] =
                               [step |-> "deployed", user |-> u, contract |-> k, arg |-> s]]
            /\ UNCHANGED wallets
    BY <1>4 DEF Tx!DeployMultisigContract, Tx!Undeployed
  <2>2. [step |-> "deployed", user |-> u, contract |-> k, arg |-> s] \in Deploying
    BY DEF Deploying
  <2> QED
    BY <1>2, <2>1, <2>2
<1>5. ASSUME NEW r \in TxRequest, requests' = [requests EXCEPT ![r] = none]
      PROVE  /\ requests' = [x \in TxRequest |-> requests'[x]]
             /\ \A x \in TxRequest : requests'[x] \in {requests[x], none}
  BY <1>1, <1>5
<1>6. ASSUME NEW r \in TxRequest, Tx!CreateWallet(r)
      PROVE  Goal
  <2>1. /\ requests[r] # none /\ requests[r].step = "deployed"
        /\ Tx!Insert(requests[r].user, requests[r].contract, TxDefaultName, requests[r].arg, {})
        /\ requests' = [requests EXCEPT ![r] = none]
    BY <1>6 DEF Tx!CreateWallet
  <2>2. requests[r] \in Deploying
    BY <1>1, <2>1 DEF Changing
  <2> DEFINE row == [by |-> requests[r].user, contract |-> requests[r].contract,
                     name |-> TxDefaultName, active |-> TRUE, set |-> requests[r].arg]
  <2>3. PICK w \in Wallet : wallets' = [wallets EXCEPT ![w] = row]
    BY <2>1 DEF Tx!Insert, Tx!Rows
  <2>4. row \in WalletRow
    BY <2>2 DEF Deploying, WalletRow
  <2> HIDE DEF row
  <2> QED
    BY <1>3, <1>5, <2>1, <2>3, <2>4
<1>7. ASSUME NEW r \in TxRequest, NEW u \in TxUser, NEW w \in Wallet, NEW op \in Changes,
             Tx!Change(r, u, w, op)
      PROVE  Goal
  <2> DEFINE new == [op |-> op, step |-> "checked", wallet |-> w, contract |-> wallets[w].contract]
  <2>1. wallets[w] # none /\ requests' = [requests EXCEPT ![r] = new] /\ UNCHANGED wallets
    BY <1>7 DEF Tx!Change, Tx!GetWalletById, Tx!Rows
  <2>2. new \in Changing /\ new.wallet = w
    BY <1>1, <2>1 DEF Changing, WalletRow
  <2> HIDE DEF new
  <2> QED
    BY <1>2, <2>1, <2>2
<1>8. ASSUME NEW r \in TxRequest, Tx!TellContract(r)
      PROVE  Goal
  <2> DEFINE new == [requests[r] EXCEPT !.step = "told"]
  <2>1. /\ requests[r] # none /\ requests[r].step = "checked"
        /\ requests' = [requests EXCEPT ![r] = new] /\ UNCHANGED wallets
    BY <1>8 DEF Tx!TellContract
  <2>2. requests[r] \in Changing /\ wallets[requests[r].wallet] # none
    BY <1>1, <2>1 DEF Deploying
  <2>3. new \in Changing /\ new.wallet = requests[r].wallet
    BY <2>2 DEF Changing
  <2> HIDE DEF new
  <2> QED
    BY <1>2, <2>1, <2>2, <2>3
<1>9. ASSUME NEW r \in TxRequest, Tx!WriteSettings(r)
      PROVE  Goal
  <2> DEFINE w == requests[r].wallet
             op == requests[r].op
             s == Wal!Applied(op, wallets[w].set)
             row == [wallets[w] EXCEPT !.set = s]
  <2>1. /\ requests[r] # none /\ requests[r].step = "told"
        /\ requests' = [requests EXCEPT ![r] = none]
        /\ wallets' = [wallets EXCEPT ![w] = [wallets[w] EXCEPT !.set = Tx!Applied(op, wallets[w].set)]]
    BY <1>9 DEF Tx!WriteSettings
  <2>2. Tx!Applied(op, wallets[w].set) = s
    BY DEF Tx!Applied, Wal!Applied
  <2>3. requests[r] \in Changing /\ wallets[w] # none
    BY <1>1, <2>1 DEF Deploying
  <2>4. op \in Changes /\ w \in Wallet /\ wallets[w] \in WalletRow /\ wallets[w].set \in Setting
    BY <1>1, <2>3 DEF Changing, WalletRow
  <2>5. s \in Setting
    BY <2>4, AppliedIs
  <2>6. wallets' = [wallets EXCEPT ![w] = row]
    BY <2>1, <2>2
  <2> HIDE DEF s
  <2>7. row \in WalletRow
    BY <2>4, <2>5 DEF WalletRow
  <2> HIDE DEF row, w
  <2> QED
    BY <1>3, <1>5, <2>1, <2>4, <2>6, <2>7
<1>10. ASSUME NEW w \in Wallet, NEW u \in TxUser, NEW data \in Tx!Columns,
              Tx!UpdateWallet(u, w, data)
       PROVE  Goal
  <2> DEFINE set == Tx!Settings(data.threshold, wallets[w].set.owners, data.recovery)
             row == [by |-> data.by, contract |-> data.contract, name |-> data.name,
                     active |-> data.active, set |-> set]
  <2>1. wallets[w] # none /\ wallets' = [wallets EXCEPT ![w] = row] /\ UNCHANGED requests
    BY <1>10 DEF Tx!UpdateWallet, Tx!GetWalletById, Tx!Rows
  <2>2. set \in Setting
    BY <1>1, <2>1 DEF Tx!Settings, Setting, Tx!Columns, WalletRow
  <2> HIDE DEF set
  <2>3. row \in WalletRow
    BY <2>2 DEF WalletRow, Tx!Columns
  <2> HIDE DEF row
  <2> QED
    BY <1>1, <1>3, <2>1, <2>3
<1>11. ASSUME NEW u \in TxUser, NEW s \in Setting, Tx!BulkCreateWallet(u, s)
       PROVE  Goal
  <2>1. UNCHANGED requests /\ \E k \in Contract : Tx!Insert(u, k, TxDefaultName, s, Tx!AllSettings)
    BY <1>11 DEF Tx!BulkCreateWallet, Tx!Undeployed
  <2>2. PICK k \in Contract : Tx!Insert(u, k, TxDefaultName, s, Tx!AllSettings)
    BY <2>1
  <2> DEFINE row == [by |-> u, contract |-> k, name |-> TxDefaultName, active |-> TRUE, set |-> s]
  <2>3. PICK w \in Wallet : wallets' = [wallets EXCEPT ![w] = row]
    BY <2>2 DEF Tx!Insert, Tx!Rows
  <2>4. row \in WalletRow
    BY DEF WalletRow
  <2> HIDE DEF row
  <2> QED
    BY <1>1, <1>3, <2>1, <2>3, <2>4
<1>12. ASSUME NEW w \in Wallet, NEW u \in TxUser, Tx!SoftDelete(u, w)
       PROVE  Goal
  <2> DEFINE row == [wallets[w] EXCEPT !.active = FALSE]
  <2>1. wallets[w] # none /\ wallets' = [wallets EXCEPT ![w] = row] /\ UNCHANGED requests
    BY <1>12 DEF Tx!SoftDelete, Tx!GetWalletById, Tx!Rows
  <2>2. row \in WalletRow
    BY <1>1, <2>1 DEF WalletRow
  <2> HIDE DEF row
  <2> QED
    BY <1>1, <1>3, <2>1, <2>2
<1>13. ASSUME NEW r \in TxRequest, Tx!RequestFails(r)
       PROVE  Goal
  BY <1>2, <1>13 DEF Tx!RequestFails
<1>14. ASSUME NEW r \in TxRequest, NEW u \in TxUser, NEW w \in Wallet, NEW x \in Address,
              Tx!AddOwner(r, u, w, x) \/ Tx!RemoveOwner(r, u, w, x)
       PROVE  Goal
  <2>1. [addOwner |-> x] \in Changes /\ [removeOwner |-> x] \in Changes
    BY DEF Changes
  <2> QED
    BY <1>7, <1>14, <2>1 DEF Tx!AddOwner, Tx!RemoveOwner
<1>15. ASSUME NEW r \in TxRequest, NEW u \in TxUser, NEW w \in Wallet, NEW t \in Thresholds,
              Tx!UpdateThreshold(r, u, w, t)
       PROVE  Goal
  <2>1. [updateThreshold |-> t] \in Changes
    BY DEF Changes
  <2> QED
    BY <1>7, <1>15, <2>1 DEF Tx!UpdateThreshold
<1>16. ASSUME NEW r \in TxRequest, NEW u \in TxUser, NEW w \in Wallet, NEW v \in Recoveries,
              Tx!UpdateRecoverySettings(r, u, w, v)
       PROVE  Goal
  <2>1. [updateRecoverySettings |-> v] \in Changes
    BY DEF Changes
  <2> QED
    BY <1>7, <1>16, <2>1 DEF Tx!UpdateRecoverySettings
<1>17. ASSUME NEW t \in Thresholds, NEW o \in (SUBSET Address) \ {{}}, NEW v \in Recoveries
       PROVE  Tx!Settings(t, o, v) \in Setting
  BY DEF Tx!Settings, Setting
<1>18. Goal
  BY <1>4, <1>6, <1>8, <1>9, <1>10, <1>11, <1>12, <1>13, <1>14, <1>15, <1>16, <1>17
     DEF Tx!WalletsNext
<1> QED
  BY <1>18 DEF Goal

LEMMA MoreSigners ==
    ASSUME NEW s, NEW u \in TxUser, NEW f \in Given, s \in [TxUser -> Given \cup {none}]
    PROVE  LET g == [s EXCEPT ![u] = f]
           IN  /\ g \in [TxUser -> Given \cup {none}]
               /\ Cardinality(SignersIn(s)) \in Nat /\ Cardinality(SignersIn(g)) \in Nat
               /\ Cardinality(SignersIn(s)) <= Cardinality(SignersIn(g))
<1> DEFINE g == [s EXCEPT ![u] = f]
<1>1. IsFiniteSet(TxUser)
  BY RecordsAssumption
<1>2. SignersIn(s) \subseteq SignersIn(g) /\ SignersIn(g) \subseteq TxUser
  BY AbsentAssumption DEF SignersIn, Given
<1>3. g \in [TxUser -> Given \cup {none}]
  OBVIOUS
<1> HIDE DEF g
<1>4. IsFiniteSet(SignersIn(g)) /\ IsFiniteSet(SignersIn(s))
  BY <1>1, <1>2, FS_Subset
<1> QED
  BY <1>2, <1>3, <1>4, FS_Subset, FS_CardinalityType DEF g

LEMMA SignersCounted ==
    ASSUME NEW s \in [TxUser -> Given \cup {none}]
    PROVE  Cardinality(SignersIn(s)) \in Nat
<1>1. IsFiniteSet(SignersIn(s))
  BY RecordsAssumption, FS_Subset DEF SignersIn
<1> QED
  BY <1>1, FS_CardinalityType

LEMMA CountsStay ==
    ASSUME TxRows, Counting, Tx!TransactionsNext
    PROVE  TxRows' /\ Counting'
<1> DEFINE most == Cardinality(SignersIn(signed))
<1>1. /\ signed \in [TxUser -> Given \cup {none}]
      /\ calls = [k \in TxCall |-> calls[k]]
      /\ tx # none => tx \in TxRow /\ wallets[tx.wallet] # none /\ tx.signatures <= most
      /\ \A k \in TxCall : calls[k] # none => tx # none /\ CallCounts(calls[k], most)
      /\ relays \in Seq(Submission)
      /\ \A i \in DOMAIN relays : Met(relays[i])
  BY DEF Counting
<1>2. most \in Nat
  BY <1>1, SignersCounted
<1>3. ASSUME UNCHANGED <<wallets, requests>>
      PROVE  TxRows'
  BY <1>3 DEF TxRows
<1>4. ASSUME NEW k \in TxCall, NEW new, calls' = [calls EXCEPT ![k] = new],
             UNCHANGED <<signed, wallets, requests>>,
             tx' = tx \/ (tx' \in TxRow /\ tx'.wallet = tx.wallet /\ tx'.signatures <= most),
             tx # none,
             new # none => CallCounts(new, most),
             \/ UNCHANGED relays
             \/ \E record \in Submission :
                    Met(record) /\ relays' = Append(relays, record)
      PROVE  TxRows' /\ Counting'
  <2>1. calls' = [x \in TxCall |-> calls'[x]] /\ calls'[k] = new
        /\ \A x \in TxCall : x # k => calls'[x] = calls[x]
    BY <1>1, <1>4
  <2>2. tx' # none /\ tx' \in TxRow /\ wallets'[tx'.wallet] # none /\ tx'.signatures <= most
    BY <1>1, <1>4, AbsentAssumption
  <2>3. \A x \in TxCall : calls'[x] # none => CallCounts(calls'[x], most)
    BY <1>1, <1>4, <2>1
  <2>4. /\ relays' \in Seq(Submission)
        /\ \A i \in DOMAIN relays' : Met(relays'[i])
    <3>1. CASE UNCHANGED relays
      BY <1>1, <3>1
    <3>2. ASSUME NEW record \in Submission,
                 Met(record), relays' = Append(relays, record)
          PROVE  /\ relays' \in Seq(Submission)
                 /\ \A i \in DOMAIN relays' : Met(relays'[i])
      BY <1>1, <3>2
    <3> QED
      BY <1>4, <3>1, <3>2
  <2> QED
    BY <1>1, <1>3, <1>4, <2>1, <2>2, <2>3, <2>4 DEF Counting
<1>5. ASSUME NEW w \in Wallet, Tx!SubmitTransaction(w)
      PROVE  TxRows' /\ Counting'
  <2> DEFINE row == [wallet |-> w, signatures |-> 0, executed |-> FALSE, deleted |-> FALSE,
                     edited |-> FALSE, comments |-> FALSE]
  <2>1. tx = none /\ wallets[w] # none /\ tx' = row
        /\ UNCHANGED <<signed, calls, relays, wallets, requests>>
    BY <1>5 DEF Tx!SubmitTransaction, Tx!Rows, Tx!walletVars
  <2>2. row \in TxRow /\ row.wallet = w /\ row.signatures = 0
    BY DEF TxRow
  <2> HIDE DEF row
  <2>3. tx' \in TxRow /\ wallets'[tx'.wallet] # none /\ tx'.signatures <= most
    BY <1>2, <2>1, <2>2
  <2>4. \A k \in TxCall : calls[k] = none
    BY <1>1, <2>1
  <2> QED
    BY <1>1, <1>3, <2>1, <2>3, <2>4 DEF Counting
<1>6. ASSUME NEW k \in TxCall, NEW u \in TxUser, NEW op \in {"update", "comment", "delete"},
             Tx!Begin(k, u, op)
      PROVE  TxRows' /\ Counting'
  <2>1. tx # none /\ calls' = [calls EXCEPT ![k] = [step |-> op]]
        /\ UNCHANGED <<tx, signed, relays, wallets, requests>>
    BY <1>6 DEF Tx!Begin, Tx!Goes, Tx!IsUserSigner, Tx!walletVars
  <2>2. CallCounts([step |-> op], most)
    BY DEF CallCounts
  <2> QED
    BY <1>4, <2>1, <2>2
<1>7. ASSUME NEW k \in TxCall, Tx!UpdateTransactionMetadata(k) \/ Tx!AddComment(k)
                                    \/ Tx!SoftDeleteTransaction(k) \/ Tx!MarkExecuted(k)
      PROVE  TxRows' /\ Counting'
  <2>1. /\ calls[k] # none /\ calls' = [calls EXCEPT ![k] = none]
        /\ UNCHANGED <<signed, relays, wallets, requests>>
        /\ tx' \in {tx, [tx EXCEPT !.edited = TRUE], [tx EXCEPT !.comments = TRUE],
                    [tx EXCEPT !.deleted = TRUE], [tx EXCEPT !.executed = TRUE]}
    BY <1>7 DEF Tx!UpdateTransactionMetadata, Tx!AddComment, Tx!SoftDeleteTransaction,
       Tx!MarkExecuted, Tx!At, Tx!Ends, Tx!Goes, Tx!walletVars
  <2>2. tx # none /\ tx \in TxRow /\ tx.signatures <= most
    BY <1>1, <2>1
  <2>3. tx' \in TxRow /\ tx'.wallet = tx.wallet /\ tx'.signatures <= most
    BY <2>1, <2>2 DEF TxRow
  <2> QED
    BY <1>4, <2>1, <2>2, <2>3
<1>8. ASSUME NEW k \in TxCall, NEW u \in TxUser, NEW f \in Given, Tx!RecordIntentToSign(k, u, f)
      PROVE  TxRows' /\ Counting'
  <2> DEFINE new == [step |-> "upserted"]
             more == Cardinality(SignersIn(signed'))
  <2>1. /\ tx # none /\ signed' = [signed EXCEPT ![u] = f] /\ calls' = [calls EXCEPT ![k] = new]
        /\ UNCHANGED <<tx, relays, wallets, requests>>
    BY <1>8 DEF Tx!RecordIntentToSign, Tx!Goes, Tx!walletVars
  <2>2. signed' \in [TxUser -> Given \cup {none}] /\ more \in Nat /\ most <= more
    BY <1>1, <2>1, MoreSigners
  <2> HIDE DEF more, most
  <2>3. CallCounts(new, more)
    BY DEF CallCounts
  <2> HIDE DEF new
  <2>4. \A x \in TxCall : calls[x] # none => CallCounts(calls[x], more)
    BY <1>1, <1>2, <2>2 DEF CallCounts
  <2>5. calls' = [x \in TxCall |-> calls'[x]] /\ calls'[k] = new
        /\ \A x \in TxCall : x # k => calls'[x] = calls[x]
    BY <1>1, <2>1
  <2>6. \A x \in TxCall : calls'[x] # none => CallCounts(calls'[x], more)
    BY <2>3, <2>4, <2>5
  <2>7. tx \in TxRow /\ tx.signatures <= more
    BY <1>1, <1>2, <2>1, <2>2 DEF TxRow
  <2> QED
    BY <1>1, <1>3, <2>1, <2>2, <2>5, <2>6, <2>7 DEF Counting, more
<1>9. ASSUME NEW k \in TxCall, Tx!CountSignatures(k)
      PROVE  TxRows' /\ Counting'
  <2>1. calls[k] # none /\ UNCHANGED <<tx, signed, relays, wallets, requests>>
        /\ calls' = [calls EXCEPT ![k] = [step |-> "counted", count |-> most]]
    BY <1>9 DEF Tx!CountSignatures, Tx!At, Tx!Goes, Tx!walletVars, Tx!Signers, SignersIn,
       Tx!Cardinality, Cardinality
  <2> HIDE DEF most
  <2>2. CallCounts([step |-> "counted", count |-> most], most)
    BY <1>2 DEF CallCounts
  <2> QED
    BY <1>1, <1>4, <2>1, <2>2 DEF most
<1>10. ASSUME NEW k \in TxCall, Tx!WriteCount(k)
       PROVE  TxRows' /\ Counting'
  <2>1. /\ calls[k] # none /\ calls[k].step = "counted"
        /\ tx' = [tx EXCEPT !.signatures = calls[k].count]
        /\ calls' = [calls EXCEPT ![k] = [step |-> "written"]]
        /\ UNCHANGED <<signed, relays, wallets, requests>>
    BY <1>10 DEF Tx!WriteCount, Tx!At, Tx!Goes, Tx!walletVars
  <2>2. tx # none /\ tx \in TxRow /\ calls[k].count \in Nat /\ calls[k].count <= most
    BY <1>1, <2>1 DEF CallCounts
  <2>3. tx' \in TxRow /\ tx'.wallet = tx.wallet /\ tx'.signatures <= most
    BY <2>1, <2>2 DEF TxRow
  <2>4. CallCounts([step |-> "written"], most)
    BY DEF CallCounts
  <2> QED
    BY <1>4, <2>1, <2>2, <2>3, <2>4
<1>11. ASSUME NEW k \in TxCall, Tx!CheckAndRelayTransaction(k)
       PROVE  TxRows' /\ Counting'
  <2> DEFINE sent == {u \in SignersIn(signed) : signed[u] # Blank}
             new == [step |-> "relaying", users |-> SignersIn(signed), sent |-> sent,
                     threshold |-> wallets[tx.wallet].set.threshold]
  <2>1. calls[k] # none /\ UNCHANGED <<tx, signed, relays, wallets, requests>>
        /\ \/ /\ tx.signatures >= wallets[tx.wallet].set.threshold
              /\ calls' = [calls EXCEPT ![k] = new]
           \/ calls' = [calls EXCEPT ![k] = none]
    BY <1>11 DEF Tx!CheckAndRelayTransaction, Tx!Ready, Tx!At, Tx!Ends, Tx!Goes, Tx!walletVars,
       Tx!Signers, Tx!Sent, SignersIn
  <2>2. tx # none /\ tx \in TxRow /\ wallets[tx.wallet] \in WalletRow /\ tx.signatures <= most
    BY <1>1, <2>1 DEF TxRows, TxRow
  <2>3. wallets[tx.wallet].set.threshold \in Nat /\ tx.signatures \in Nat
    BY <2>2, RecordsAssumption DEF WalletRow, Setting, TxRow
  <2>4. tx.signatures >= wallets[tx.wallet].set.threshold => CallCounts(new, most)
    <3>1. new.step # "counted" /\ new.users = SignersIn(signed) /\ new.sent = sent
          /\ new.threshold = wallets[tx.wallet].set.threshold
      OBVIOUS
    <3>2. SignersIn(signed) \subseteq TxUser /\ sent \subseteq TxUser
      BY DEF SignersIn
    <3> HIDE DEF new, sent
    <3> QED
      BY <1>2, <2>2, <2>3, <3>1, <3>2 DEF CallCounts, Met
  <2> HIDE DEF new
  <2> QED
    BY <1>4, <2>1, <2>2, <2>4
<1>12. ASSUME NEW k \in TxCall, NEW success \in BOOLEAN, Tx!SubmitMultisigTransaction(k, success)
       PROVE  TxRows' /\ Counting'
  <2> DEFINE record == [users |-> calls[k].users, sent |-> calls[k].sent,
                        threshold |-> calls[k].threshold]
  <2>1. /\ calls[k] # none /\ calls[k].step = "relaying"
        /\ relays' = Append(relays, record)
        /\ \/ calls' = [calls EXCEPT ![k] = [step |-> "submitted"]]
           \/ calls' = [calls EXCEPT ![k] = none]
        /\ UNCHANGED <<tx, signed, wallets, requests>>
    BY <1>12 DEF Tx!SubmitMultisigTransaction, Tx!At, Tx!Ends, Tx!Goes, Tx!walletVars
  <2>2. tx # none /\ Met(calls[k]) /\ calls[k].sent \subseteq TxUser
    BY <1>1, <2>1 DEF CallCounts
  <2>3. record \in Submission /\ Met(record)
    BY <2>2 DEF Met, Submission
  <2>4. CallCounts([step |-> "submitted"], most)
    BY DEF CallCounts
  <2> HIDE DEF record
  <2> QED
    BY <1>4, <2>1, <2>2, <2>3, <2>4
<1>13. ASSUME NEW k \in TxCall, Tx!CallFails(k)
       PROVE  TxRows' /\ Counting'
  <2>1. calls[k] # none /\ calls' = [calls EXCEPT ![k] = none]
        /\ UNCHANGED <<tx, signed, relays, wallets, requests>>
    BY <1>13 DEF Tx!CallFails, Tx!Ends, Tx!Goes, Tx!walletVars
  <2> QED
    BY <1>1, <1>4, <2>1
<1> QED
  <2>1. ASSUME NEW k \in TxCall, NEW u \in TxUser,
               NEW f \in Fragments \cup {Blank} \cup ({signed[u]} \ {none}),
               Tx!RecordIntentToSign(k, u, f)
        PROVE  f \in Given
    BY <1>1 DEF Given
  <2> QED
    BY <1>5, <1>6, <1>7, <1>8, <1>9, <1>10, <1>11, <1>12, <1>13, <2>1
       DEF Tx!TransactionsNext, Tx!UpdateMetadata, Tx!Comment, Tx!DeleteTransaction

(* However many counts are written late or twice while the settings of the   *)
(* wallet change, a transaction is relayed only after as many users put in   *)
(* an intent to sign it as its wallet's threshold demanded when its row was  *)
(* read, whoever they are and whatever they sent.                            *)
THEOREM RelayedOnEnough == RecordsSpec => []TxRelayedOnIntents
<1>1. RecordsInit => CountsKept
  <2> SUFFICES ASSUME RecordsInit, part = "transactions"
               PROVE  TxRows /\ Counting
    BY DEF CountsKept
  <2>1. Tx!WalletsInit /\ Tx!TransactionsInit
    BY DEF RecordsInit
  <2>2. TxRows
    BY <2>1 DEF Tx!WalletsInit, TxRows
  <2> QED
    BY <2>1, <2>2 DEF Tx!TransactionsInit, Counting
<1>2. CountsKept /\ [RecordsNext]_recordVars => CountsKept'
  <2> SUFFICES ASSUME CountsKept, [RecordsNext]_recordVars, part' = "transactions"
               PROVE  (TxRows /\ Counting)'
    BY DEF CountsKept
  <2>1. part = "transactions" /\ TxRows /\ Counting /\ (Tx!Next \/ UNCHANGED txVars)
    BY OnePart DEF CountsKept
  <2>2. CASE UNCHANGED txVars
    BY <2>1, <2>2 DEF TxRows, Counting, txVars
  <2>3. CASE Tx!TransactionsNext
    BY <2>1, <2>3, CountsStay
  <2>4. CASE Tx!WalletsNext /\ UNCHANGED <<tx, signed, calls, relays>>
    <3>1. TxRows' /\ \A w \in Wallet : wallets[w] # none => wallets'[w] # none
      BY <2>1, <2>4, WalletRowsStay
    <3>2. tx # none => tx.wallet \in Wallet
      BY <2>1 DEF Counting, TxRow
    <3> QED
      BY <2>1, <2>4, <3>1, <3>2 DEF Counting
  <2> QED
    BY <2>1, <2>2, <2>3, <2>4 DEF Tx!Next, Tx!txVars
<1>3. CountsKept => TxRelayedOnIntents
  BY DEF CountsKept, Counting, Met, TxRelayedOnIntents, Tx!RelayedOnIntents,
     Tx!Cardinality, Cardinality
<1> QED
  BY <1>1, <1>2, <1>3, PTL DEF RecordsSpec

(***************************************************************************)
(* Event indexer                                                           *)
(***************************************************************************)
(* A ledger is settled when its present event is stored or nobody has to     *)
(* answer for it.  All ledgers up to the cursor are, and all those before    *)
(* the batch of a round under way; the batch holds the rest of the round.    *)
Held(e) == e \in DOMAIN stored /\ stored[e] > 0
Settled(l) == l \in excused \/ (l <= latest /\ Held(<<l, fork[l]>>))
Polling == poll \in {"latest", "fetch", "insert", "advance"}
Indexed ==
    /\ latest \in Nat /\ lastLedger \in Int /\ from \in Int /\ goal \in Int
    /\ stored \in [Idx!Ledgers \X (0..MaxForks) -> Nat]
    /\ reorg.step = "cursor" => reorg.ledger \in Int
    /\ \A l \in Idx!Ledgers : l <= lastLedger => Settled(l)
    /\ Polling => \A l \in Idx!Ledgers : l < from => Settled(l)
    /\ poll \in {"fetch", "insert", "advance"} => goal <= latest
    /\ poll = "insert" =>
           \A l \in Idx!Ledgers : from <= l /\ l <= goal => Settled(l) \/ <<l, fork[l]>> \in batch
    /\ poll = "advance" =>
           \A l \in Idx!Ledgers : from <= l /\ l <= goal /\ l < from + batchSize => Settled(l)
IndexKept == part = "indexer" => Indexed

LEMMA StoredGrows ==
    ASSUME NEW e, stored \in [Idx!Ledgers \X (0..MaxForks) -> Nat], Idx!Insert(e)
    PROVE  /\ stored' \in [Idx!Ledgers \X (0..MaxForks) -> Nat]
           /\ \A x : Held(x) => Held(x)'
           /\ e \in DOMAIN stored => Held(e)'
<1>1. stored' = [stored EXCEPT ![e] = IF stored[e] < EventCopies THEN stored[e] + 1 ELSE stored[e]]
  BY DEF Idx!Insert
<1>2. EventCopies \in Nat \ {0}
  BY RecordsAssumption
<1>3. \A x \in Idx!Ledgers \X (0..MaxForks) :
          /\ stored'[x] \in Nat /\ stored'[x] >= stored[x]
          /\ x = e => stored'[x] > 0
  BY <1>1, <1>2
<1>4. stored' \in [Idx!Ledgers \X (0..MaxForks) -> Nat]
  BY <1>1, <1>3
<1> QED
  BY <1>3, <1>4 DEF Held

LEMMA IndexStays ==
    ASSUME Indexed, Idx!Next
    PROVE  Indexed'
<1>1. /\ latest \in Nat /\ lastLedger \in Int /\ from \in Int /\ goal \in Int
      /\ stored \in [Idx!Ledgers \X (0..MaxForks) -> Nat]
      /\ reorg.step = "cursor" => reorg.ledger \in Int
  BY DEF Indexed
<1>2. Idx!Ledgers \subseteq Nat /\ MaxLedger \in Nat /\ batchSize \in Nat
  BY RecordsAssumption DEF Idx!Ledgers
<1>3. ASSUME \A l \in Idx!Ledgers : Settled(l) => Settled(l)',
             latest' \in Nat, latest' >= latest, UNCHANGED <<lastLedger, from, goal, poll, fork>>,
             stored' \in [Idx!Ledgers \X (0..MaxForks) -> Nat],
             reorg'.step = "cursor" => reorg'.ledger \in Int,
             batch' = batch
      PROVE  Indexed'
  BY <1>1, <1>2, <1>3 DEF Indexed, Polling
<1>4. CASE Idx!NewLedger
  <2>1. latest' = latest + 1 /\ UNCHANGED <<lastLedger, from, goal, poll, fork, stored, reorg, batch, excused>>
    BY <1>4 DEF Idx!NewLedger, Idx!pollVars, Idx!apiVars
  <2>2. \A l \in Idx!Ledgers : Settled(l) => Settled(l)'
    BY <1>1, <1>2, <2>1 DEF Settled, Held
  <2> QED
    BY <1>1, <1>3, <2>1, <2>2
<1>5. ASSUME NEW k \in Idx!Ledgers, Idx!ChainReorg(k)
      PROVE  Indexed'
  <2>1. /\ fork' = [l \in Idx!Ledgers |-> IF l >= k THEN fork[l] + 1 ELSE fork[l]]
        /\ excused' = excused \cup {l \in k..latest : l <= lastLedger \/ poll \notin {"off", "rest"}}
        /\ UNCHANGED <<latest, lastLedger, from, goal, poll, stored, reorg, batch>>
    BY <1>5 DEF Idx!ChainReorg, Idx!pollVars, Idx!apiVars
  <2>2. ASSUME NEW l \in Idx!Ledgers, Settled(l), l <= lastLedger \/ Polling
        PROVE  Settled(l)'
    <3>1. CASE l \in excused
      BY <2>1, <3>1 DEF Settled
    <3>2. CASE l < k /\ l <= latest /\ Held(<<l, fork[l]>>)
      BY <1>2, <2>1, <3>2 DEF Settled, Held
    <3>3. CASE l >= k /\ l <= latest
      BY <1>1, <1>2, <2>1, <2>2, <3>3 DEF Settled, Polling
    <3> QED
      BY <1>1, <1>2, <2>2, <3>1, <3>2, <3>3 DEF Settled
  <2>3. ASSUME NEW l \in Idx!Ledgers, poll = "insert", l <= latest, <<l, fork[l]>> \in batch
        PROVE  Settled(l)' \/ <<l, fork'[l]>> \in batch
    <3>1. CASE l < k
      BY <1>2, <2>1, <2>3, <3>1
    <3>2. CASE l >= k
      BY <1>1, <1>2, <2>1, <2>3, <3>2 DEF Settled
    <3> QED
      BY <1>2, <3>1, <3>2
  <2>4. \A l \in Idx!Ledgers : l <= lastLedger => Settled(l)'
    BY <2>2 DEF Indexed
  <2>5. Polling => \A l \in Idx!Ledgers : l < from => Settled(l)'
    BY <2>2 DEF Indexed
  <2>6. ASSUME poll = "insert", NEW l \in Idx!Ledgers, from <= l, l <= goal
        PROVE  Settled(l)' \/ <<l, fork'[l]>> \in batch
    <3>1. l <= latest
      BY <1>1, <1>2, <2>6 DEF Indexed
    <3> QED
      BY <2>2, <2>3, <2>6, <3>1 DEF Indexed, Polling
  <2>7. poll = "advance" =>
            \A l \in Idx!Ledgers : from <= l /\ l <= goal /\ l < from + batchSize => Settled(l)'
    BY <2>2 DEF Indexed, Polling
  <2>8. Polling' = Polling
    BY <2>1 DEF Polling
  <2> QED
    BY <1>1, <2>1, <2>4, <2>5, <2>6, <2>7, <2>8 DEF Indexed
<1>6. ASSUME NEW k \in Idx!Ledgers, Idx!DeleteFrom(k)
      PROVE  Indexed'
  <2>1. /\ reorg' = [step |-> "cursor", ledger |-> k]
        /\ stored' = [e \in DOMAIN stored |-> IF e[1] >= k THEN 0 ELSE stored[e]]
        /\ excused' = excused \cup {l \in Idx!Ledgers : l >= k /\ l <= latest}
        /\ UNCHANGED <<latest, fork, lastLedger, from, goal, poll, batch>>
    BY <1>6 DEF Idx!DeleteFrom, Idx!pollVars, Idx!chainVars
  <2>2. stored' \in [Idx!Ledgers \X (0..MaxForks) -> Nat]
    BY <1>1, <2>1
  <2>3. ASSUME NEW l \in Idx!Ledgers, Settled(l)
        PROVE  Settled(l)'
    <3>1. CASE l \in excused
      BY <2>1, <3>1 DEF Settled
    <3>2. CASE l <= latest /\ l >= k
      BY <2>1, <3>2 DEF Settled
    <3>3. CASE l <= latest /\ l < k /\ Held(<<l, fork[l]>>)
      <4>1. <<l, fork[l]>>[1] = l /\ ~(l >= k)
        BY <1>2, <3>3
      <4>2. stored'[<<l, fork[l]>>] = stored[<<l, fork[l]>>] /\ <<l, fork[l]>> \in DOMAIN stored'
        BY <2>1, <3>3, <4>1 DEF Held
      <4> QED
        BY <2>1, <3>3, <4>2 DEF Settled, Held
    <3> QED
      BY <1>1, <1>2, <2>3, <3>1, <3>2, <3>3 DEF Settled
  <2> QED
    BY <1>1, <1>2, <1>3, <2>1, <2>2, <2>3
<1>7. CASE Idx!Stop
  BY <1>7 DEF Idx!Stop, Idx!chainVars, Idx!apiVars, Indexed, Polling, Settled, Held
<1>8. CASE Idx!Poll
  BY <1>8 DEF Idx!Poll, Idx!chainVars, Idx!apiVars, Indexed, Polling, Settled, Held
<1>9. CASE Idx!Crash
  BY <1>9 DEF Idx!Crash, Idx!chainVars, Idx!NoReorg, Indexed, Polling, Settled, Held
<1>10. ASSUME NEW ok \in BOOLEAN, Idx!Start(ok)
       PROVE  Indexed'
  <2>1. /\ lastLedger' \in {lastLedger, latest, 0} /\ poll' = "state"
        /\ lastLedger' = lastLedger => excused' = excused \/ excused' = 1..latest
        /\ UNCHANGED <<latest, fork, stored, from, goal, reorg>>
        /\ \/ lastLedger' = lastLedger /\ excused' = excused
           \/ lastLedger' = latest /\ excused' = 1..latest
           \/ lastLedger' = 0 /\ excused' = excused
    BY <1>1, <1>10 DEF Idx!Start, Idx!chainVars, Idx!apiVars
  <2>2. \A l \in Idx!Ledgers : l <= lastLedger' => Settled(l)'
    <3>1. CASE lastLedger' = lastLedger /\ excused' = excused
      BY <2>1, <3>1 DEF Indexed, Settled, Held
    <3>2. CASE lastLedger' = latest /\ excused' = 1..latest
      BY <1>1, <3>2 DEF Settled, Idx!Ledgers
    <3>3. CASE lastLedger' = 0
      BY <3>3, RecordsAssumption DEF Idx!Ledgers
    <3> QED
      BY <2>1, <3>1, <3>2, <3>3
  <2> QED
    BY <1>1, <2>1, <2>2 DEF Indexed, Polling
<1>11. ASSUME NEW ok \in BOOLEAN, Idx!GetIndexerState(ok)
       PROVE  Indexed'
  <2>1. /\ UNCHANGED <<latest, fork, stored, lastLedger, excused, goal, reorg>>
        /\ \/ poll' = "latest" /\ from' = lastLedger + 1
           \/ poll' \in {"rest", "off"} /\ from' = from
    BY <1>11 DEF Idx!GetIndexerState, Idx!Rest, Idx!chainVars, Idx!apiVars
  <2>2. \A l \in Idx!Ledgers : Settled(l)' <=> Settled(l)
    BY <2>1 DEF Settled, Held
  <2>3. \A l \in Idx!Ledgers : l < lastLedger + 1 => l <= lastLedger
    BY <1>1, <1>2
  <2> QED
    BY <1>1, <2>1, <2>2, <2>3 DEF Indexed, Polling
<1>12. ASSUME NEW ok \in BOOLEAN, Idx!GetLatestLedger(ok)
       PROVE  Indexed'
  <2>1. /\ UNCHANGED <<latest, fork, stored, lastLedger, excused, from, reorg>>
        /\ poll = "latest" /\ goal' \in {latest, 0} /\ poll' \in {"rest", "off", "fetch"}
    BY <1>12 DEF Idx!GetLatestLedger, Idx!Rest, Idx!chainVars, Idx!apiVars
  <2>2. \A l \in Idx!Ledgers : Settled(l)' <=> Settled(l)
    BY <2>1 DEF Settled, Held
  <2> QED
    BY <1>1, <2>1, <2>2 DEF Indexed, Polling
<1>13. ASSUME NEW ok \in BOOLEAN, Idx!FetchEvents(ok)
       PROVE  Indexed'
  <2>1. /\ UNCHANGED <<latest, fork, stored, lastLedger, from, goal, reorg>> /\ poll = "fetch"
        /\ \/ poll' = "insert" /\ batch' = Idx!EventsFrom(from) /\ excused' = excused
           \/ poll' = "advance" /\ excused' = excused \cup (from..Idx!EndOf(from))
    BY <1>13 DEF Idx!FetchEvents, Idx!chainVars, Idx!apiVars
  <2>2. \A l \in Idx!Ledgers : Settled(l) => Settled(l)'
    BY <2>1 DEF Settled, Held
  <2>3. goal <= latest /\ Polling
    BY <2>1 DEF Indexed, Polling
  <2>4. CASE poll' = "insert" /\ batch' = Idx!EventsFrom(from) /\ excused' = excused
    <3>1. \A l \in Idx!Ledgers : from <= l /\ l <= goal => <<l, fork[l]>> \in batch'
      <4>1. \A l \in Idx!Ledgers : from <= l /\ l <= goal => l \in from..latest
        BY <1>1, <1>2, <2>3
      <4>2. batch' = {<<l, fork[l]>> : l \in from..latest}
        BY <2>4 DEF Idx!EventsFrom
      <4> QED
        BY <4>1, <4>2
    <3> QED
      BY <1>1, <2>1, <2>2, <2>3, <2>4, <3>1 DEF Indexed, Polling
  <2>5. CASE poll' = "advance" /\ excused' = excused \cup (from..Idx!EndOf(from))
    <3>1. \A l \in Idx!Ledgers : from <= l /\ l <= goal /\ l < from + batchSize => Settled(l)'
      BY <1>1, <1>2, <2>5 DEF Idx!EndOf, Idx!Least, Settled
    <3> QED
      BY <1>1, <2>1, <2>2, <2>3, <2>5, <3>1 DEF Indexed, Polling
  <2> QED
    BY <2>1, <2>4, <2>5
<1>14. ASSUME NEW e \in DOMAIN stored, NEW ok \in BOOLEAN, Idx!InsertEvent(e, ok)
       PROVE  Indexed'
  <2>1. /\ UNCHANGED <<latest, fork, lastLedger, from, goal, reorg>> /\ poll = "insert"
        /\ batch' = batch \ {e} /\ poll' = (IF batch' = {} THEN "advance" ELSE "insert")
        /\ \/ Idx!Insert(e) /\ excused' = excused
           \/ stored' = stored /\ excused' = excused \cup {e[1]}
    BY <1>14 DEF Idx!InsertEvent, Idx!chainVars, Idx!apiVars
  <2>2. /\ stored' \in [Idx!Ledgers \X (0..MaxForks) -> Nat]
        /\ \A l \in Idx!Ledgers : Settled(l) => Settled(l)'
        /\ \A l \in Idx!Ledgers : l <= latest /\ <<l, fork[l]>> = e => Settled(l)'
    <3>1. CASE Idx!Insert(e) /\ excused' = excused
      <4>1. /\ stored' \in [Idx!Ledgers \X (0..MaxForks) -> Nat]
            /\ \A x : Held(x) => Held(x)'
            /\ Held(e)'
        BY <1>1, <1>14, <3>1, StoredGrows
      <4>2. ASSUME NEW l \in Idx!Ledgers, Settled(l)
            PROVE  Settled(l)'
        BY <2>1, <3>1, <4>1, <4>2 DEF Settled, Held
      <4>3. ASSUME NEW l \in Idx!Ledgers, l <= latest, <<l, fork[l]>> = e
            PROVE  Settled(l)'
        BY <2>1, <4>1, <4>3 DEF Settled, Held
      <4> QED
        BY <4>1, <4>2, <4>3
    <3>2. CASE stored' = stored /\ excused' = excused \cup {e[1]}
      BY <1>1, <2>1, <3>2 DEF Settled, Held
    <3> QED
      BY <2>1, <3>1, <3>2
  <2>3. goal <= latest /\ Polling
    BY <2>1 DEF Indexed, Polling
  <2>4. \A l \in Idx!Ledgers : from <= l /\ l <= goal => Settled(l)' \/ <<l, fork[l]>> \in batch'
    BY <1>1, <1>2, <2>1, <2>2, <2>3 DEF Indexed
  <2> QED
    BY <1>1, <2>1, <2>2, <2>3, <2>4 DEF Indexed, Polling
<1>15. ASSUME NEW ok \in BOOLEAN, Idx!UpdateLastLedger(ok)
       PROVE  Indexed'
  <2>1. /\ UNCHANGED <<latest, fork, stored, excused, goal, reorg>> /\ poll = "advance"
        /\ lastLedger' \in {lastLedger, Idx!EndOf(from)} /\ from' = from + batchSize
        /\ \/ poll' = "fetch" /\ from' <= goal
           \/ poll' \in {"rest", "off"}
    BY <1>15 DEF Idx!UpdateLastLedger, Idx!Rest, Idx!chainVars, Idx!apiVars
  <2>2. \A l \in Idx!Ledgers : Settled(l)' <=> Settled(l)
    BY <2>1 DEF Settled, Held
  <2>3. goal <= latest /\ Polling
    BY <2>1 DEF Indexed, Polling
  <2>4. \A l \in Idx!Ledgers : l <= goal /\ l < from + batchSize => Settled(l)
    BY <1>1, <1>2, <2>1, <2>3 DEF Indexed
  <2>5. Idx!EndOf(from) \in Int /\ Idx!EndOf(from) <= goal /\ Idx!EndOf(from) < from + batchSize
    BY <1>1, <1>2 DEF Idx!EndOf, Idx!Least
  <2>6. \A l \in Idx!Ledgers : l <= lastLedger' => Settled(l)'
    BY <1>1, <1>2, <2>1, <2>2, <2>4, <2>5 DEF Indexed
  <2>7. lastLedger' \in Int /\ from' \in Int
    BY <1>1, <1>2, <2>1, <2>5
  <2>8. CASE poll' = "fetch" /\ from' <= goal
    <3>1. \A l \in Idx!Ledgers : l < from' => Settled(l)'
      BY <1>1, <1>2, <2>1, <2>2, <2>4, <2>8
    <3> QED
      BY <1>1, <2>1, <2>3, <2>6, <2>7, <2>8, <3>1 DEF Indexed, Polling
  <2>9. CASE poll' \in {"rest", "off"}
    BY <1>1, <2>1, <2>6, <2>7, <2>9 DEF Indexed, Polling
  <2> QED
    BY <2>1, <2>8, <2>9
<1>16. ASSUME NEW ok \in BOOLEAN, Idx!FillStep(ok)
       PROVE  Indexed'
  <2>1. /\ UNCHANGED <<latest, fork, lastLedger, from, goal, poll, batch, reorg, excused>>
        /\ stored' = stored \/ \E e : Idx!Insert(e)
    BY <1>16 DEF Idx!FillStep, Idx!chainVars, Idx!pollVars
  <2>2. /\ stored' \in [Idx!Ledgers \X (0..MaxForks) -> Nat]
        /\ \A x : Held(x) => Held(x)'
    BY <1>1, <2>1, StoredGrows DEF Held
  <2>3. ASSUME NEW l \in Idx!Ledgers, Settled(l)
        PROVE  Settled(l)'
    BY <2>1, <2>2, <2>3 DEF Settled, Held
  <2> QED
    BY <1>1, <1>2, <1>3, <2>1, <2>2, <2>3
<1>17. ASSUME NEW ok \in BOOLEAN, Idx!ResetCursor(ok)
       PROVE  Indexed'
  <2> DEFINE k == reorg.ledger
  <2>1. /\ reorg.step = "cursor" /\ reorg' = Idx!NoReorg /\ k \in Int
        /\ lastLedger' \in {k - 1, lastLedger}
        /\ UNCHANGED <<latest, fork, stored, from, goal, poll, batch>>
        /\ \/ /\ lastLedger' = k - 1 /\ poll \in {"off", "rest"}
              /\ excused' = (excused \ (k..MaxLedger)) \cup (lastLedger + 1)..(k - 1)
           \/ excused' = excused \cup (lastLedger + 1)..(k - 1)
    BY <1>1, <1>17 DEF Idx!ResetCursor, Idx!Reindexed, Idx!chainVars, Idx!pollVars
  <2>2. reorg'.step # "cursor"
    BY <2>1 DEF Idx!NoReorg
  <2> HIDE DEF k
  <2>3. CASE /\ lastLedger' = k - 1 /\ poll \in {"off", "rest"}
             /\ excused' = (excused \ (k..MaxLedger)) \cup (lastLedger + 1)..(k - 1)
    <3>1. ASSUME NEW l \in Idx!Ledgers, l <= lastLedger'
          PROVE  Settled(l)'
      <4>1. CASE l <= lastLedger
        <5>1. Settled(l) /\ l \notin k..MaxLedger
          BY <1>1, <1>2, <2>1, <2>3, <3>1, <4>1 DEF Indexed
        <5> QED
          BY <2>1, <2>3, <5>1 DEF Settled, Held
      <4>2. CASE l > lastLedger
        BY <1>1, <1>2, <2>1, <2>3, <3>1, <4>2 DEF Settled
      <4> QED
        BY <1>1, <1>2, <4>1, <4>2
    <3> QED
      BY <1>1, <2>1, <2>2, <2>3, <3>1 DEF Indexed, Polling
  <2>4. CASE excused' = excused \cup (lastLedger + 1)..(k - 1)
    <3>1. \A l \in Idx!Ledgers : Settled(l) => Settled(l)'
      BY <2>1, <2>4 DEF Settled, Held
    <3>2. ASSUME NEW l \in Idx!Ledgers, l <= lastLedger'
          PROVE  Settled(l)'
      <4>1. CASE l <= lastLedger
        BY <3>1, <4>1 DEF Indexed
      <4>2. CASE l > lastLedger
        BY <1>1, <1>2, <2>1, <2>4, <3>2, <4>2 DEF Settled
      <4> QED
        BY <1>1, <1>2, <4>1, <4>2
    <3> QED
      BY <1>1, <2>1, <2>2, <3>1, <3>2 DEF Indexed, Polling
  <2> QED
    BY <2>1, <2>3, <2>4
<1>18. ASSUME NEW l, NEW m, Idx!BackfillEvents(l, m)
       PROVE  Indexed'
  BY <1>18 DEF Idx!BackfillEvents, Idx!chainVars, Idx!pollVars, Indexed, Polling, Settled, Held
<1> QED
  BY <1>4, <1>5, <1>6, <1>7, <1>8, <1>9, <1>10, <1>11, <1>12, <1>13, <1>14, <1>15, <1>16, <1>17,
     <1>18 DEF Idx!Next

(* Whatever polls, backfills and reorgs overlap, crash and fail, every       *)
(* ledger up to the cursor has its present event stored, unless a request    *)
(* or an insert for it failed, or it was reorganised behind the cursor.      *)
THEOREM NothingIsPassedOver == RecordsSpec => []IndexerPassesNothing
<1>1. RecordsInit => IndexKept
  <2> SUFFICES ASSUME RecordsInit
               PROVE  Indexed
    BY DEF IndexKept
  <2>1. Idx!Init
    BY DEF RecordsInit
  <2>2. \A l \in Idx!Ledgers : ~(l <= -1)
    BY RecordsAssumption DEF Idx!Ledgers
  <2> QED
    BY <2>1, <2>2 DEF Idx!Init, Idx!NoReorg, Indexed, Polling
<1>2. IndexKept /\ [RecordsNext]_recordVars => IndexKept'
  <2> SUFFICES ASSUME IndexKept, [RecordsNext]_recordVars, part' = "indexer"
               PROVE  Indexed'
    BY DEF IndexKept
  <2>1. part = "indexer" /\ Indexed /\ (Idx!Next \/ UNCHANGED indexVars)
    BY OnePart DEF IndexKept
  <2>2. CASE UNCHANGED indexVars
    BY <2>1, <2>2 DEF Indexed, Polling, Settled, Held, indexVars
  <2> QED
    BY <2>1, <2>2, IndexStays
<1>3. IndexKept => IndexerPassesNothing
  BY DEF IndexKept, Indexed, Settled, Held, IndexerPassesNothing, Idx!NothingPassedOver
<1> QED
  BY <1>1, <1>2, <1>3, PTL DEF RecordsSpec

(***************************************************************************)
(* Task scheduler                                                          *)
(***************************************************************************)
Active(t) == tasks[t] \notin {none, gone} /\ tasks[t].isActive
Jobs(t) == IF Active(t) THEN 1 ELSE 0
On(n, t, all) == {k \in TaskCall : all[k] # none /\ all[k].node = n /\ all[k].task = t}

(* How the jobs a process n has for a task t follow the table.  For a task   *)
(* that is not spoiled, n either has what the table says, or knows what it   *)
(* lacks: the task waits to be loaded, or one call is about to settle it.    *)
Follows(n, t) ==
    /\ boot[n] = "down" => cron[n][t] = 0 /\ t \notin cronJobs[n]
    /\ boot[n] # "ready" => On(n, t, changing) = {}
    /\ tasks[t] = none => /\ cron[n][t] = 0 /\ t \notin cronJobs[n] /\ On(n, t, changing) = {}
                          /\ boot[n] = "loading" => t \notin left[n]
    /\ boot[n] # "down" /\ t \notin spoiled =>
           /\ cron[n][t] = IF t \in cronJobs[n] THEN 1 ELSE 0
           /\ boot[n] = "loading" =>
                  IF t \in left[n] THEN Active(t) /\ cron[n][t] = 0 ELSE cron[n][t] = Jobs(t)
           /\ boot[n] = "migrating" => cron[n][t] = Jobs(t)
           /\ boot[n] = "ready" =>
                  \/ On(n, t, changing) = {} /\ cron[n][t] = Jobs(t)
                  \/ \E k \in TaskCall : /\ On(n, t, changing) = {k} /\ cron[n][t] = 0
                                         /\ changing[k].step = "schedule" => Active(t)
SchedTyped ==
    /\ tasks \in [Task -> TaskRow \cup {none, gone}]
    /\ boot \in [Node -> {"down", "loading", "migrating", "ready"}]
    /\ left = [n \in Node |-> left[n]]
    /\ cron \in [Node -> [Task -> Int]]
    /\ cronJobs = [n \in Node |-> cronJobs[n]]
    /\ changing = [k \in TaskCall |-> changing[k]]
    /\ \A k \in TaskCall : changing[k] # none => changing[k] \in TaskChange
Following == SchedTyped /\ \A n \in Node, t \in Task : Follows(n, t)
FollowKept == part = "scheduler" => Following

(* What is left alone follows as before, a change that spoils it included.   *)
LEMMA Unmoved ==
    ASSUME NEW n \in Node, NEW t \in Task, Follows(n, t),
           boot'[n] = boot[n], t \in left'[n] <=> t \in left[n], cron'[n][t] = cron[n][t],
           t \in cronJobs'[n] <=> t \in cronJobs[n],
           On(n, t, changing') = On(n, t, changing),
           \A k \in On(n, t, changing) : changing'[k] = changing[k],
           \/ tasks'[t] = tasks[t] /\ (t \in spoiled => t \in spoiled')
           \/ tasks'[t] # none /\ (boot[n] # "down" => t \in spoiled')
    PROVE  Follows(n, t)'
<1>1. CASE tasks'[t] = tasks[t] /\ (t \in spoiled => t \in spoiled')
  <2>1. (Active(t)' <=> Active(t)) /\ Jobs(t)' = Jobs(t)
    BY <1>1 DEF Active, Jobs
  <2> QED
    BY <1>1, <2>1 DEF Follows
<1>2. CASE tasks'[t] # none /\ (boot[n] # "down" => t \in spoiled')
  BY <1>2 DEF Follows
<1> QED
  BY <1>1, <1>2

LEMMA JobSet ==
    ASSUME SchedTyped, NEW n \in Node, NEW t \in Task, NEW v \in Int, NEW known,
           cron' = [cron EXCEPT ![n][t] = v], cronJobs' = [cronJobs EXCEPT ![n] = known],
           known \ {t} = cronJobs[n] \ {t}
    PROVE  /\ cron' \in [Node -> [Task -> Int]] /\ cron'[n][t] = v
           /\ cronJobs' = [m \in Node |-> cronJobs'[m]] /\ cronJobs'[n] = known
           /\ \A m \in Node, u \in Task : m # n \/ u # t =>
                 cron'[m][u] = cron[m][u] /\ (u \in cronJobs'[m] <=> u \in cronJobs[m])
<1> DEFINE row == [cron[n] EXCEPT ![t] = v]
<1>1. cron \in [Node -> [Task -> Int]] /\ cronJobs = [m \in Node |-> cronJobs[m]]
  BY DEF SchedTyped
<1>2. cron' = [cron EXCEPT ![n] = row] /\ cron[n] \in [Task -> Int]
  BY <1>1
<1>3. row \in [Task -> Int] /\ row[t] = v /\ \A u \in Task : u # t => row[u] = cron[n][u]
  BY <1>2
<1> HIDE DEF row
<1>4. cron' \in [Node -> [Task -> Int]]
  BY <1>1, <1>2, <1>3
<1>5. cron'[n] = row /\ \A m \in Node : m # n => cron'[m] = cron[m]
  BY <1>1, <1>2
<1>6. /\ cronJobs' = [m \in Node |-> cronJobs'[m]] /\ cronJobs'[n] = known
      /\ \A m \in Node : m # n => cronJobs'[m] = cronJobs[m]
  BY <1>1
<1>7. \A m \in Node, u \in Task : m # n \/ u # t => cron'[m][u] = cron[m][u]
  BY <1>3, <1>5
<1>8. \A m \in Node, u \in Task : m # n \/ u # t => (u \in cronJobs'[m] <=> u \in cronJobs[m])
  BY <1>6
<1> QED
  BY <1>3, <1>4, <1>5, <1>6, <1>7, <1>8

LEMMA JobCreated ==
    ASSUME SchedTyped, NEW n \in Node, NEW t \in Task, Sch!CreateJob(n, t)
    PROVE  /\ cron' \in [Node -> [Task -> Int]] /\ cron'[n][t] = cron[n][t] + 1
           /\ cronJobs' = [m \in Node |-> cronJobs'[m]] /\ t \in cronJobs'[n]
           /\ \A m \in Node, u \in Task : m # n \/ u # t =>
                 cron'[m][u] = cron[m][u] /\ (u \in cronJobs'[m] <=> u \in cronJobs[m])
<1> DEFINE v == cron[n][t] + 1
           known == cronJobs[n] \cup {t}
<1>1. cron' = [cron EXCEPT ![n][t] = v] /\ cronJobs' = [cronJobs EXCEPT ![n] = known]
  BY DEF Sch!CreateJob
<1>2. v \in Int /\ known \ {t} = cronJobs[n] \ {t} /\ t \in known
  BY DEF SchedTyped
<1> HIDE DEF known, v
<1>3. cron'[n][t] = v /\ cronJobs'[n] = known
  BY <1>1, <1>2, JobSet, ZenonT(60)
<1> QED
  BY <1>1, <1>2, <1>3, JobSet DEF v

LEMMA JobStopped ==
    ASSUME SchedTyped, NEW n \in Node, NEW t \in Task, Sch!StopJob(n, t)
    PROVE  /\ cron' \in [Node -> [Task -> Int]]
           /\ cron'[n][t] = IF t \in cronJobs[n] THEN cron[n][t] - 1 ELSE cron[n][t]
           /\ cronJobs' = [m \in Node |-> cronJobs'[m]] /\ t \notin cronJobs'[n]
           /\ \A m \in Node, u \in Task : m # n \/ u # t =>
                 cron'[m][u] = cron[m][u] /\ (u \in cronJobs'[m] <=> u \in cronJobs[m])
<1> DEFINE v == IF t \in cronJobs[n] THEN cron[n][t] - 1 ELSE cron[n][t]
           known == cronJobs[n] \ {t}
<1>1. cron' = [cron EXCEPT ![n][t] = v] /\ cronJobs' = [cronJobs EXCEPT ![n] = known]
  BY DEF Sch!StopJob
<1>2. v \in Int /\ known \ {t} = cronJobs[n] \ {t}
  BY DEF SchedTyped
<1>3. t \notin known
  OBVIOUS
<1> HIDE DEF known, v
<1>4. cron'[n][t] = v /\ cronJobs'[n] = known
  BY <1>1, <1>2, JobSet, ZenonT(60)
<1>5. /\ cron' \in [Node -> [Task -> Int]] /\ cronJobs' = [m \in Node |-> cronJobs'[m]]
      /\ \A m \in Node, u \in Task : m # n \/ u # t =>
            cron'[m][u] = cron[m][u] /\ (u \in cronJobs'[m] <=> u \in cronJobs[m])
  BY <1>1, <1>2, JobSet
<1> QED
  BY <1>4, <1>5, <1>3 DEF v

LEMMA AfterDown ==
    ASSUME Following, NEW n \in Node, Sch!Down(n), UNCHANGED <<tasks, spoiled>>
    PROVE  Following'
<1>1. SchedTyped /\ \A m \in Node, t \in Task : Follows(m, t)
  BY DEF Following
<1>2. /\ boot' = [boot EXCEPT ![n] = "down"] /\ left' = [left EXCEPT ![n] = {}]
      /\ cron' = [cron EXCEPT ![n] = [t \in Task |-> 0]]
      /\ cronJobs' = [cronJobs EXCEPT ![n] = {}]
      /\ changing' = [k \in TaskCall |->
                         IF changing[k] # none /\ changing[k].node = n THEN none ELSE changing[k]]
  BY DEF Sch!Down
<1>3. SchedTyped'
  <2>1. boot' \in [Node -> {"down", "loading", "migrating", "ready"}]
        /\ left' = [m \in Node |-> left'[m]] /\ cronJobs' = [m \in Node |-> cronJobs'[m]]
    BY <1>1, <1>2 DEF SchedTyped
  <2>2. cron' \in [Node -> [Task -> Int]]
    <3>1. [t \in Task |-> 0] \in [Task -> Int]
      OBVIOUS
    <3> QED
      BY <1>1, <1>2, <3>1 DEF SchedTyped
  <2>3. /\ changing' = [k \in TaskCall |-> changing'[k]]
        /\ \A k \in TaskCall : changing'[k] # none => changing'[k] \in TaskChange
    BY <1>1, <1>2 DEF SchedTyped
  <2> QED
    BY <1>1, <2>1, <2>2, <2>3 DEF SchedTyped
<1>4. ASSUME NEW t \in Task
      PROVE  Follows(n, t)'
  <2>1. boot'[n] = "down" /\ t \notin left'[n] /\ cron'[n][t] = 0 /\ t \notin cronJobs'[n]
    BY <1>1, <1>2 DEF SchedTyped
  <2>2. On(n, t, changing') = {}
    BY <1>2 DEF On
  <2> QED
    BY <2>1, <2>2 DEF Follows
<1>5. ASSUME NEW m \in Node, NEW t \in Task, m # n
      PROVE  Follows(m, t)'
  <2>1. /\ boot'[m] = boot[m] /\ left'[m] = left[m] /\ cron'[m][t] = cron[m][t]
        /\ cronJobs'[m] = cronJobs[m]
    BY <1>1, <1>2, <1>5 DEF SchedTyped
  <2>2. /\ On(m, t, changing') = On(m, t, changing)
        /\ \A k \in On(m, t, changing) : changing'[k] = changing[k]
    BY <1>2, <1>5 DEF On
  <2> QED
    BY <1>1, <2>1, <2>2, Unmoved
<1> QED
  BY <1>3, <1>4, <1>5 DEF Following

(* One call of n on t is put in place of another, or of none.                *)
Put(n, t, k, new) ==
    /\ changing' = [x \in TaskCall |-> changing'[x]]
    /\ \A x \in TaskCall : changing'[x] # none => changing'[x] \in TaskChange
    /\ changing'[k] = new /\ \A x \in TaskCall : x # k => changing'[x] = changing[x]
    /\ \A m \in Node, u \in Task : m # n \/ u # t =>
          /\ On(m, u, changing') = On(m, u, changing)
          /\ \A x \in On(m, u, changing) : changing'[x] = changing[x]
    /\ On(n, t, changing') = (On(n, t, changing) \ {k}) \cup (IF new = none THEN {} ELSE {k})

LEMMA CallSet ==
    ASSUME SchedTyped, NEW n \in Node, NEW t \in Task, NEW k \in TaskCall, NEW new,
           changing[k] = none \/ (changing[k].node = n /\ changing[k].task = t),
           new = none \/ (new \in TaskChange /\ new.node = n /\ new.task = t),
           changing' = [changing EXCEPT ![k] = new]
    PROVE  Put(n, t, k, new)
<1>1. /\ changing = [x \in TaskCall |-> changing[x]]
      /\ \A x \in TaskCall : changing[x] # none => changing[x] \in TaskChange
  BY DEF SchedTyped
<1>2. /\ changing' = [x \in TaskCall |-> changing'[x]]
      /\ changing'[k] = new /\ \A x \in TaskCall : x # k => changing'[x] = changing[x]
  BY <1>1
<1>3. \A x \in TaskCall : changing'[x] # none => changing'[x] \in TaskChange
  BY <1>1, <1>2
<1>4. ASSUME NEW m \in Node, NEW u \in Task, m # n \/ u # t
      PROVE  /\ On(m, u, changing') = On(m, u, changing)
             /\ \A x \in On(m, u, changing) : changing'[x] = changing[x]
  <2>1. k \notin On(m, u, changing) /\ k \notin On(m, u, changing')
    BY <1>2, <1>4 DEF On
  <2>2. \A x \in TaskCall : x \in On(m, u, changing') <=> x \in On(m, u, changing)
    BY <1>2, <2>1 DEF On
  <2>3. On(m, u, changing') \subseteq TaskCall /\ On(m, u, changing) \subseteq TaskCall
    BY DEF On
  <2> QED
    BY <1>2, <2>1, <2>2, <2>3
<1>5. On(n, t, changing') = (On(n, t, changing) \ {k}) \cup (IF new = none THEN {} ELSE {k})
  <2>1. CASE new = none
    BY <1>2, <2>1 DEF On
  <2>2. CASE new # none
    <3>1. k \in On(n, t, changing')
      BY <1>2, <2>2 DEF On
    <3>2. \A x \in TaskCall : x # k => (x \in On(n, t, changing') <=> x \in On(n, t, changing))
      BY <1>2 DEF On
    <3>3. On(n, t, changing') \subseteq TaskCall /\ On(n, t, changing) \subseteq TaskCall
      BY DEF On
    <3> QED
      BY <2>2, <3>1, <3>2, <3>3
  <2> QED
    BY <2>1, <2>2
<1> QED
  BY <1>2, <1>3, <1>4, <1>5 DEF Put

LEMMA TaskSet ==
    ASSUME SchedTyped, NEW t \in Task, NEW row \in TaskRow \cup {gone},
           tasks' = [tasks EXCEPT ![t] = row]
    PROVE  /\ tasks' \in [Task -> TaskRow \cup {none, gone}]
           /\ tasks'[t] = row /\ row # none
           /\ \A u \in Task : u # t => tasks'[u] = tasks[u]
  BY AbsentAssumption DEF SchedTyped

LEMMA ChangeSpoils ==
    ASSUME NEW n, NEW t, Sch!Changed(n, t)
    PROVE  /\ spoiled \subseteq spoiled'
           /\ \A m \in Node \ {n} : boot[m] # "down" => t \in spoiled'
  BY DEF Sch!Changed

(* A step about one task of one process leaves the others as they were.      *)
Elsewhere(n, t) ==
    \A m \in Node, u \in Task : m # n \/ u # t =>
        /\ u \in left'[m] <=> u \in left[m]
        /\ cron'[m][u] = cron[m][u]
        /\ u \in cronJobs'[m] <=> u \in cronJobs[m]
        /\ On(m, u, changing') = On(m, u, changing)
        /\ \A k \in On(m, u, changing) : changing'[k] = changing[k]

LEMMA OneTask ==
    ASSUME Following, NEW n \in Node, NEW t \in Task, SchedTyped', boot' = boot,
           Elsewhere(n, t),
           spoiled \subseteq spoiled', \A u \in Task : u # t => tasks'[u] = tasks[u],
           \/ tasks'[t] = tasks[t]
           \/ tasks'[t] # none /\ \A m \in Node \ {n} : boot[m] # "down" => t \in spoiled',
           Follows(n, t)'
    PROVE  Following'
<1>1. ASSUME NEW m \in Node, NEW u \in Task, m # n \/ u # t
      PROVE  Follows(m, u)'
  <2>1. /\ u \in left'[m] <=> u \in left[m]
        /\ cron'[m][u] = cron[m][u]
        /\ u \in cronJobs'[m] <=> u \in cronJobs[m]
        /\ On(m, u, changing') = On(m, u, changing)
        /\ \A k \in On(m, u, changing) : changing'[k] = changing[k]
        /\ Follows(m, u) /\ boot'[m] = boot[m]
    BY <1>1 DEF Following, Elsewhere
  <2>2. \/ tasks'[u] = tasks[u] /\ (u \in spoiled => u \in spoiled')
        \/ tasks'[u] # none /\ (boot[m] # "down" => u \in spoiled')
    BY <1>1
  <2> QED
    BY <2>1, <2>2, Unmoved
<1> QED
  BY <1>1 DEF Following

LEMMA ProcessSteps ==
    ASSUME Following, NEW n \in Node,
           Sch!Start(n) \/ Sch!Loaded(n) \/ Sch!Migrated(n) \/ Sch!Exit(n)
    PROVE  Following'
<1>1. SchedTyped /\ \A m \in Node, t \in Task : Follows(m, t)
  BY DEF Following
<1>2. ASSUME NEW phase \in {"loading", "migrating", "ready"}, NEW waits,
             boot' = [boot EXCEPT ![n] = phase], left' = [left EXCEPT ![n] = waits],
             UNCHANGED <<tasks, cron, cronJobs, changing>>,
             \A t \in Task : Follows(n, t)',
             spoiled' = spoiled \/ \A m \in Node : boot[m] = "down"
      PROVE  Following'
  <2>1. SchedTyped' /\ \A m \in Node : m # n => boot'[m] = boot[m] /\ left'[m] = left[m]
    BY <1>1, <1>2 DEF SchedTyped
  <2>2. ASSUME NEW m \in Node, NEW t \in Task, m # n
        PROVE  Follows(m, t)'
    <3>1. CASE spoiled' = spoiled
      BY <1>1, <1>2, <2>1, <2>2, <3>1, Unmoved
    <3>2. CASE boot[m] = "down"
      BY <1>1, <1>2, <2>1, <2>2, <3>2 DEF Follows
    <3> QED
      BY <1>2, <3>1, <3>2
  <2> QED
    BY <1>2, <2>1, <2>2 DEF Following
<1>3. ASSUME NEW phase, NEW waits, boot' = [boot EXCEPT ![n] = phase], left' = [left EXCEPT ![n] = waits]
      PROVE  boot'[n] = phase /\ left'[n] = waits
  BY <1>1, <1>3 DEF SchedTyped
<1>4. CASE Sch!Start(n)
  <2> DEFINE waits == {t \in Sch!Rows : tasks[t].isActive}
  <2>1. /\ boot[n] = "down" /\ boot' = [boot EXCEPT ![n] = "loading"]
        /\ left' = [left EXCEPT ![n] = waits]
        /\ UNCHANGED <<tasks, cron, cronJobs, changing>>
        /\ spoiled' = spoiled \/ \A m \in Node : boot[m] = "down"
    BY <1>4 DEF Sch!Start
  <2>2. \A t \in Task : t \in waits <=> Active(t)
    BY DEF Sch!Rows, Active
  <2> HIDE DEF waits
  <2>3. boot'[n] = "loading" /\ left'[n] = waits
    BY <1>3, <2>1
  <2>4. ASSUME NEW t \in Task
        PROVE  Follows(n, t)'
    <3>1. cron[n][t] = 0 /\ t \notin cronJobs[n] /\ On(n, t, changing) = {}
      BY <1>1, <2>1 DEF Follows
    <3>2. (Active(t)' <=> Active(t)) /\ (tasks[t] = none => ~Active(t))
      BY <2>1 DEF Active
    <3>3. Jobs(t)' = IF Active(t) THEN 1 ELSE 0
      BY <2>1 DEF Jobs, Active
    <3> QED
      BY <2>1, <2>2, <2>3, <3>1, <3>2, <3>3 DEF Follows
  <2> QED
    BY <1>2, <2>1, <2>4
<1>5. CASE Sch!Loaded(n)
  <2>1. /\ boot[n] = "loading" /\ left[n] = {} /\ boot' = [boot EXCEPT ![n] = "migrating"]
        /\ left' = [left EXCEPT ![n] = BuiltIn]
        /\ UNCHANGED <<tasks, cron, cronJobs, changing, spoiled>>
    BY <1>5 DEF Sch!Loaded
  <2>2. boot'[n] = "migrating"
    BY <1>3, <2>1
  <2>3. ASSUME NEW t \in Task
        PROVE  Follows(n, t)'
    BY <1>1, <2>1, <2>2 DEF Follows, Jobs, Active
  <2> QED
    BY <1>2, <2>1, <2>3
<1>6. CASE Sch!Migrated(n)
  <2>1. /\ boot[n] = "migrating" /\ boot' = [boot EXCEPT ![n] = "ready"]
        /\ UNCHANGED <<tasks, left, cron, cronJobs, changing, spoiled>>
    BY <1>6 DEF Sch!Migrated
  <2>2. left' = [left EXCEPT ![n] = left[n]]
    BY <1>1, <2>1 DEF SchedTyped
  <2>3. boot'[n] = "ready"
    BY <1>3, <2>1, <2>2
  <2>4. ASSUME NEW t \in Task
        PROVE  Follows(n, t)'
    BY <1>1, <2>1, <2>3 DEF Follows, Jobs, Active
  <2> QED
    BY <1>2, <2>1, <2>2, <2>4
<1>7. CASE Sch!Exit(n)
  BY <1>7, AfterDown DEF Sch!Exit
<1> QED
  BY <1>4, <1>5, <1>6, <1>7

LEMMA LoadStep ==
    ASSUME Following, NEW n \in Node, NEW t \in Task, Sch!LoadTask(n, t)
    PROVE  Following'
<1>1. SchedTyped /\ Follows(n, t)
  BY DEF Following
<1>2. CASE t \notin Sch!Rows
  BY <1>2, AfterDown DEF Sch!LoadTask
<1>3. CASE t \in Sch!Rows
  <2>1. /\ boot[n] = "loading" /\ t \in left[n] /\ Sch!CreateJob(n, t)
        /\ left' = [left EXCEPT ![n] = left[n] \ {t}] /\ tasks[t] # none
        /\ UNCHANGED <<tasks, boot, changing, spoiled>>
    BY <1>3 DEF Sch!LoadTask, Sch!Rows
  <2>2. /\ cron' \in [Node -> [Task -> Int]] /\ cron'[n][t] = cron[n][t] + 1
        /\ cronJobs' = [m \in Node |-> cronJobs'[m]] /\ t \in cronJobs'[n]
        /\ \A m \in Node, u \in Task : m # n \/ u # t =>
              cron'[m][u] = cron[m][u] /\ (u \in cronJobs'[m] <=> u \in cronJobs[m])
    BY <1>1, <2>1, JobCreated
  <2>3. left' = [m \in Node |-> left'[m]] /\ left'[n] = left[n] \ {t}
        /\ \A m \in Node : m # n => left'[m] = left[m]
    BY <1>1, <2>1 DEF SchedTyped
  <2>4. SchedTyped'
    BY <1>1, <2>1, <2>2, <2>3 DEF SchedTyped
  <2>5. (Active(t)' <=> Active(t)) /\ (Active(t) => Jobs(t)' = 1)
    BY <2>1 DEF Active, Jobs
  <2>6. On(n, t, changing) = {} /\ (t \notin spoiled => Active(t) /\ cron[n][t] = 0)
    BY <1>1, <2>1 DEF Follows
  <2>7. Follows(n, t)'
    BY <2>1, <2>2, <2>3, <2>5, <2>6 DEF Follows
  <2>8. Elsewhere(n, t)
    BY <2>1, <2>2, <2>3 DEF Elsewhere
  <2> QED
    BY <2>1, <2>4, <2>7, <2>8, OneTask
<1> QED
  BY <1>2, <1>3

LEMMA MigrateStep ==
    ASSUME Following, NEW n \in Node, NEW kind \in BuiltIn, Sch!Migrate(n, kind)
    PROVE  Following'
<1> DEFINE row == Sch!Row(kind, TRUE)
<1>1. PICK t \in Task :
          /\ tasks[t] = none /\ tasks' = [tasks EXCEPT ![t] = row]
          /\ Sch!CreateJob(n, t) /\ Sch!Changed(n, t)
  BY DEF Sch!Migrate, Sch!Fresh
<1>2. /\ boot[n] = "migrating" /\ left' = [left EXCEPT ![n] = left[n] \ {kind}]
      /\ UNCHANGED <<boot, changing>>
  BY DEF Sch!Migrate
<1>3. SchedTyped /\ \A m \in Node, u \in Task : Follows(m, u)
  BY DEF Following
<1>4. row \in TaskRow /\ row.isActive
  BY DEF Sch!Row, TaskRow
<1> HIDE DEF row
<1>5. tasks' \in [Task -> TaskRow \cup {none, gone}] /\ tasks'[t] = row /\ row # none
      /\ \A u \in Task : u # t => tasks'[u] = tasks[u]
  BY <1>1, <1>3, <1>4, TaskSet
<1>6. /\ cron' \in [Node -> [Task -> Int]] /\ cron'[n][t] = cron[n][t] + 1
      /\ cronJobs' = [m \in Node |-> cronJobs'[m]] /\ t \in cronJobs'[n]
      /\ \A m \in Node, u \in Task : m # n \/ u # t =>
            cron'[m][u] = cron[m][u] /\ (u \in cronJobs'[m] <=> u \in cronJobs[m])
  BY <1>1, <1>3, JobCreated
<1>7. left' = [m \in Node |-> left'[m]] /\ \A m \in Node : m # n => left'[m] = left[m]
  BY <1>2, <1>3 DEF SchedTyped
<1>8. SchedTyped'
  BY <1>2, <1>3, <1>5, <1>6, <1>7 DEF SchedTyped
<1>9. Active(t)' /\ Jobs(t)' = 1
  BY <1>4, <1>5, AbsentAssumption DEF Active, Jobs
<1>10. cron[n][t] = 0 /\ On(n, t, changing) = {}
  BY <1>1, <1>3 DEF Follows
<1>11. Follows(n, t)'
  BY <1>2, <1>5, <1>6, <1>9, <1>10 DEF Follows
<1>12. ASSUME NEW m \in Node, NEW u \in Task, m # n \/ u # t
       PROVE  Follows(m, u)'
  <2>1. CASE m # n
    <3>1. /\ spoiled \subseteq spoiled' /\ (boot[m] # "down" => t \in spoiled')
      BY <1>1, <2>1, ChangeSpoils
    <3>2. /\ boot'[m] = boot[m] /\ left'[m] = left[m] /\ cron'[m][u] = cron[m][u]
          /\ u \in cronJobs'[m] <=> u \in cronJobs[m]
      BY <1>2, <1>6, <1>7, <1>12, <2>1
    <3>3. \/ tasks'[u] = tasks[u] /\ (u \in spoiled => u \in spoiled')
          \/ tasks'[u] # none /\ (boot[m] # "down" => u \in spoiled')
      BY <1>5, <3>1
    <3> QED
      BY <1>2, <1>3, <3>2, <3>3, Unmoved
  <2>2. CASE m = n /\ u # t
    <3>1. /\ cron'[n][u] = cron[n][u] /\ (u \in cronJobs'[n] <=> u \in cronJobs[n])
          /\ tasks'[u] = tasks[u] /\ (u \in spoiled => u \in spoiled') /\ boot'[n] = "migrating"
      BY <1>1, <1>2, <1>5, <1>6, <2>2, ChangeSpoils
    <3>2. (Active(u)' <=> Active(u)) /\ Jobs(u)' = Jobs(u)
      BY <3>1 DEF Active, Jobs
    <3> QED
      BY <1>2, <1>3, <2>2, <3>1, <3>2 DEF Follows
  <2> QED
    BY <1>12, <2>1, <2>2
<1> QED
  BY <1>8, <1>11, <1>12 DEF Following

LEMMA AddStep ==
    ASSUME Following, NEW n \in Node, NEW k \in TaskCall, NEW runs \in BOOLEAN,
           Sch!AddTask(n, k, runs)
    PROVE  Following'
<1> DEFINE row == Sch!Row(Custom, runs)
<1>1. PICK t \in Task :
          /\ tasks[t] = none /\ tasks' = [tasks EXCEPT ![t] = row]
          /\ changing' = IF runs
                           THEN [changing EXCEPT ![k] = [node |-> n, task |-> t, step |-> "schedule"]]
                           ELSE changing
          /\ Sch!Changed(n, t)
  BY DEF Sch!AddTask, Sch!Fresh
<1>2. boot[n] = "ready" /\ changing[k] = none /\ UNCHANGED <<boot, left, cron, cronJobs>>
  BY DEF Sch!AddTask
<1>3. SchedTyped /\ Follows(n, t)
  BY DEF Following
<1>4. row \in TaskRow /\ row.isActive = runs
  BY DEF Sch!Row, TaskRow
<1> HIDE DEF row
<1>5. tasks' \in [Task -> TaskRow \cup {none, gone}] /\ tasks'[t] = row /\ row # none
      /\ \A u \in Task : u # t => tasks'[u] = tasks[u]
  BY <1>1, <1>3, <1>4, TaskSet
<1>6. cron[n][t] = 0 /\ t \notin cronJobs[n] /\ On(n, t, changing) = {}
  BY <1>1, <1>3 DEF Follows
<1>7. Active(t)' <=> runs
  BY <1>4, <1>5, AbsentAssumption DEF Active
<1>8. spoiled \subseteq spoiled' /\ \A m \in Node \ {n} : boot[m] # "down" => t \in spoiled'
  BY <1>1, ChangeSpoils
<1>9. CASE ~runs
  <2>1. changing' = changing
    BY <1>1, <1>9
  <2>2. Jobs(t)' = 0
    BY <1>7, <1>9 DEF Jobs
  <2>3. Follows(n, t)'
    BY <1>2, <1>5, <1>6, <2>1, <2>2 DEF Follows
  <2>4. SchedTyped'
    BY <1>2, <1>3, <1>5, <2>1 DEF SchedTyped
  <2>5. Elsewhere(n, t)
    BY <1>2, <2>1 DEF Elsewhere
  <2> QED
    BY <1>2, <1>5, <1>8, <2>3, <2>4, <2>5, OneTask
<1>10. CASE runs
  <2> DEFINE new == [node |-> n, task |-> t, step |-> "schedule"]
  <2>1. changing' = [changing EXCEPT ![k] = new]
    BY <1>1, <1>10
  <2>2. new \in TaskChange /\ new # none /\ new.node = n /\ new.task = t /\ new.step = "schedule"
    BY AbsentAssumption DEF TaskChange
  <2> HIDE DEF new
  <2>3. Put(n, t, k, new)
    BY <1>2, <1>3, <2>1, <2>2, CallSet
  <2>4. On(n, t, changing') = {k}
    BY <1>6, <2>2, <2>3 DEF Put
  <2>5. Follows(n, t)'
    BY <1>2, <1>5, <1>6, <1>7, <1>10, <2>4 DEF Follows
  <2>6. SchedTyped'
    BY <1>2, <1>3, <1>5, <2>3 DEF SchedTyped, Put
  <2>7. Elsewhere(n, t)
    BY <1>2, <2>3 DEF Elsewhere, Put
  <2> QED
    BY <1>2, <1>5, <1>8, <2>5, <2>6, <2>7, OneTask
<1> QED
  BY <1>9, <1>10

LEMMA BeginStep ==
    ASSUME Following, NEW n \in Node, NEW k \in TaskCall, NEW t \in Task,
           NEW what \in {"update", "delete", "refused"}, Sch!BeginChange(n, k, t, what)
    PROVE  Following'
<1>1. /\ boot[n] = "ready" /\ changing[k] = none /\ tasks[t] # none /\ Sch!StopJob(n, t)
      /\ changing' = IF what = "refused" THEN changing
                     ELSE [changing EXCEPT ![k] = [node |-> n, task |-> t, step |-> what]]
      /\ spoiled' = IF what = "refused" \/ On(n, t, changing) # {} THEN spoiled \cup {t} ELSE spoiled
      /\ UNCHANGED <<tasks, boot, left>>
  BY DEF Sch!BeginChange, Sch!Rows, Sch!OnTask, On
<1>2. SchedTyped /\ Follows(n, t)
  BY DEF Following
<1>3. /\ cron' \in [Node -> [Task -> Int]]
      /\ cron'[n][t] = IF t \in cronJobs[n] THEN cron[n][t] - 1 ELSE cron[n][t]
      /\ cronJobs' = [m \in Node |-> cronJobs'[m]] /\ t \notin cronJobs'[n]
      /\ \A m \in Node, u \in Task : m # n \/ u # t =>
            cron'[m][u] = cron[m][u] /\ (u \in cronJobs'[m] <=> u \in cronJobs[m])
  BY <1>1, <1>2, JobStopped
<1>4. spoiled \subseteq spoiled'
  BY <1>1
<1>5. t \notin spoiled => cron'[n][t] = 0
  BY <1>1, <1>2, <1>3 DEF Follows
<1>6. CASE what = "refused"
  <2>1. changing' = changing /\ t \in spoiled'
    BY <1>1, <1>6
  <2>2. SchedTyped'
    BY <1>1, <1>2, <1>3, <2>1 DEF SchedTyped
  <2>3. Follows(n, t)'
    BY <1>1, <2>1 DEF Follows
  <2>4. Elsewhere(n, t)
    BY <1>1, <1>3, <2>1 DEF Elsewhere
  <2> QED
    BY <1>1, <1>4, <2>2, <2>3, <2>4, OneTask
<1>7. CASE what # "refused"
  <2> DEFINE new == [node |-> n, task |-> t, step |-> what]
  <2>1. changing' = [changing EXCEPT ![k] = new]
    BY <1>1, <1>7
  <2>2. new \in TaskChange /\ new # none /\ new.node = n /\ new.task = t /\ new.step # "schedule"
    BY <1>7, AbsentAssumption DEF TaskChange
  <2> HIDE DEF new
  <2>3. Put(n, t, k, new)
    BY <1>1, <1>2, <2>1, <2>2, CallSet
  <2>4. SchedTyped'
    BY <1>1, <1>2, <1>3, <2>3 DEF SchedTyped, Put
  <2>5. Elsewhere(n, t)
    <3> SUFFICES ASSUME NEW m \in Node, NEW u \in Task, m # n \/ u # t
                 PROVE  /\ u \in left'[m] <=> u \in left[m]
                        /\ cron'[m][u] = cron[m][u]
                        /\ u \in cronJobs'[m] <=> u \in cronJobs[m]
                        /\ On(m, u, changing') = On(m, u, changing)
                        /\ \A j \in On(m, u, changing) : changing'[j] = changing[j]
      BY DEF Elsewhere
    <3>1. left' = left
      BY <1>1
    <3>2. cron'[m][u] = cron[m][u] /\ (u \in cronJobs'[m] <=> u \in cronJobs[m])
      BY <1>3
    <3>3. /\ On(m, u, changing') = On(m, u, changing)
          /\ \A j \in On(m, u, changing) : changing'[j] = changing[j]
      BY <2>3 DEF Put
    <3> QED
      BY <3>1, <3>2, <3>3
  <2>6. CASE On(n, t, changing) # {}
    <3>1. Follows(n, t)'
      BY <1>1, <2>6 DEF Follows
    <3> QED
      BY <1>1, <1>4, <2>4, <2>5, <3>1, OneTask
  <2>7. CASE On(n, t, changing) = {}
    <3>1. On(n, t, changing') = {k} /\ spoiled' = spoiled
      BY <1>1, <1>7, <2>2, <2>3, <2>7 DEF Put
    <3>2. Follows(n, t)'
      BY <1>1, <1>3, <1>5, <2>2, <2>3, <3>1 DEF Follows, Put
    <3> QED
      BY <1>1, <1>4, <2>4, <2>5, <3>2, OneTask
  <2> QED
    BY <2>6, <2>7
<1> QED
  BY <1>6, <1>7

(* A call that is under way is the only one, or its task is spoiled.         *)
LEMMA OneCall ==
    ASSUME Following, NEW k \in TaskCall, changing[k] # none
    PROVE  \E n \in Node, t \in Task :
               /\ changing[k].node = n /\ changing[k].task = t /\ changing[k] \in TaskChange
               /\ boot[n] = "ready" /\ tasks[t] # none /\ k \in On(n, t, changing)
               /\ t \notin spoiled =>
                      /\ On(n, t, changing) = {k} /\ cron[n][t] = 0 /\ t \notin cronJobs[n]
                      /\ changing[k].step = "schedule" => Active(t)
<1>1. PICK n \in Node, t \in Task :
          changing[k].node = n /\ changing[k].task = t /\ changing[k] \in TaskChange
  BY DEF Following, SchedTyped, TaskChange
<1>2. k \in On(n, t, changing)
  BY <1>1 DEF On
<1>3. Follows(n, t)
  BY DEF Following
<1>4. boot[n] = "ready" /\ tasks[t] # none
  BY <1>2, <1>3 DEF Follows
<1>5. ASSUME t \notin spoiled
      PROVE  /\ On(n, t, changing) = {k} /\ cron[n][t] = 0 /\ t \notin cronJobs[n]
             /\ changing[k].step = "schedule" => Active(t)
  BY <1>2, <1>3, <1>4, <1>5 DEF Follows
<1> QED
  BY <1>1, <1>2, <1>4, <1>5

LEMMA UpdateStep ==
    ASSUME Following, NEW k \in TaskCall, NEW runs \in BOOLEAN, Sch!StoreUpdate(k, runs)
    PROVE  Following'
<1>1. changing[k] # none
  BY DEF Sch!StoreUpdate
<1>2. PICK n \in Node, t \in Task :
          /\ changing[k].node = n /\ changing[k].task = t /\ changing[k] \in TaskChange
          /\ boot[n] = "ready" /\ tasks[t] # none /\ k \in On(n, t, changing)
          /\ t \notin spoiled =>
                 /\ On(n, t, changing) = {k} /\ cron[n][t] = 0 /\ t \notin cronJobs[n]
                 /\ changing[k].step = "schedule" => Active(t)
  BY <1>1, OneCall
<1> DEFINE more == [changing[k] EXCEPT !.step = "schedule"]
           row == [tasks[t] EXCEPT !.isActive = runs]
<1>3. /\ changing[k] # none /\ UNCHANGED <<boot, left, cron, cronJobs>>
      /\ \/ /\ t \notin Sch!Rows /\ changing' = [changing EXCEPT ![k] = none]
            /\ UNCHANGED <<tasks, spoiled>>
         \/ /\ t \in Sch!Rows /\ Sch!Changed(n, t) /\ tasks' = [tasks EXCEPT ![t] = row]
            /\ changing' = [changing EXCEPT ![k] = IF runs THEN more ELSE none]
  BY <1>2 DEF Sch!StoreUpdate
<1>4. more \in TaskChange /\ more # none /\ more.node = n /\ more.task = t
  BY <1>2, AbsentAssumption DEF TaskChange
<1> HIDE DEF more
<1>5. SchedTyped
  BY DEF Following
<1>6. CASE /\ t \notin Sch!Rows /\ changing' = [changing EXCEPT ![k] = none]
           /\ UNCHANGED <<tasks, spoiled>>
  <2>1. Put(n, t, k, none)
    BY <1>2, <1>5, <1>6, CallSet
  <2>2. Elsewhere(n, t)
    BY <1>3, <2>1 DEF Elsewhere, Put
  <2>3. SchedTyped'
    BY <1>3, <1>5, <1>6, <2>1 DEF SchedTyped, Put
  <2>4. On(n, t, changing') = On(n, t, changing) \ {k}
    BY <2>1 DEF Put
  <2>5. Jobs(t)' = 0
    BY <1>6 DEF Jobs, Active, Sch!Rows
  <2>6. Follows(n, t)'
    BY <1>2, <1>3, <1>6, <2>4, <2>5 DEF Follows
  <2> QED
    BY <1>2, <1>3, <1>6, <2>2, <2>3, <2>6, OneTask
<1>7. CASE /\ t \in Sch!Rows /\ Sch!Changed(n, t) /\ tasks' = [tasks EXCEPT ![t] = row]
           /\ changing' = [changing EXCEPT ![k] = IF runs THEN more ELSE none]
  <2> DEFINE new == IF runs THEN more ELSE none
  <2>1. new = none \/ (new \in TaskChange /\ new.node = n /\ new.task = t)
    BY <1>4
  <2>2. changing' = [changing EXCEPT ![k] = new]
    BY <1>7
  <2>3. (runs => new # none) /\ (~runs => new = none)
    BY <1>4
  <2> HIDE DEF new
  <2>4. Put(n, t, k, new)
    BY <1>2, <1>5, <2>1, <2>2, CallSet
  <2>5. row \in TaskRow /\ row.isActive = runs
    BY <1>2, <1>5, <1>7 DEF SchedTyped, Sch!Rows, TaskRow
  <2> HIDE DEF row
  <2>6. tasks' \in [Task -> TaskRow \cup {none, gone}] /\ tasks'[t] = row /\ row # none
        /\ \A u \in Task : u # t => tasks'[u] = tasks[u]
    BY <1>2, <1>5, <1>7, <2>5, TaskSet
  <2>7. Active(t)' <=> runs
    BY <2>5, <2>6, AbsentAssumption DEF Active
  <2>8. Elsewhere(n, t)
    BY <1>3, <2>4 DEF Elsewhere, Put
  <2>9. SchedTyped'
    BY <1>3, <1>5, <2>4, <2>6 DEF SchedTyped, Put
  <2>10. spoiled \subseteq spoiled' /\ \A m \in Node \ {n} : boot[m] # "down" => t \in spoiled'
    BY <1>7, ChangeSpoils
  <2>11. Follows(n, t)'
    <3>1. CASE runs
      <4>1. On(n, t, changing') = On(n, t, changing) \cup {k}
        BY <1>2, <2>3, <2>4, <3>1 DEF Put
      <4> QED
        BY <1>2, <1>3, <2>6, <2>7, <2>10, <3>1, <4>1 DEF Follows
    <3>2. CASE ~runs
      <4>1. On(n, t, changing') = On(n, t, changing) \ {k}
        BY <2>3, <2>4, <3>2 DEF Put
      <4>2. Jobs(t)' = 0
        BY <2>7, <3>2 DEF Jobs
      <4> QED
        BY <1>2, <1>3, <2>6, <2>10, <4>1, <4>2 DEF Follows
    <3> QED
      BY <3>1, <3>2
  <2> QED
    BY <1>2, <1>3, <2>6, <2>8, <2>9, <2>10, <2>11, OneTask
<1> QED
  BY <1>3, <1>6, <1>7

LEMMA ScheduleStep ==
    ASSUME Following, NEW k \in TaskCall, Sch!Schedule(k)
    PROVE  Following'
<1>1. changing[k] # none
  BY DEF Sch!Schedule
<1>2. PICK n \in Node, t \in Task :
          /\ changing[k].node = n /\ changing[k].task = t /\ changing[k] \in TaskChange
          /\ boot[n] = "ready" /\ tasks[t] # none /\ k \in On(n, t, changing)
          /\ t \notin spoiled =>
                 /\ On(n, t, changing) = {k} /\ cron[n][t] = 0 /\ t \notin cronJobs[n]
                 /\ changing[k].step = "schedule" => Active(t)
  BY <1>1, OneCall
<1>3. /\ changing[k] # none /\ changing[k].step = "schedule"
      /\ changing' = [changing EXCEPT ![k] = none] /\ UNCHANGED <<tasks, boot, left, spoiled>>
      /\ \/ t \notin Sch!Rows /\ UNCHANGED <<cron, cronJobs>>
         \/ t \in Sch!Rows /\ Sch!CreateJob(n, t)
  BY <1>2 DEF Sch!Schedule
<1>4. SchedTyped
  BY DEF Following
<1>5. Put(n, t, k, none)
  BY <1>2, <1>3, <1>4, CallSet
<1>6. On(n, t, changing') = On(n, t, changing) \ {k}
  BY <1>5 DEF Put
<1>7. (Active(t)' <=> Active(t)) /\ Jobs(t)' = Jobs(t)
  BY <1>3 DEF Active, Jobs
<1>8. CASE t \notin Sch!Rows /\ UNCHANGED <<cron, cronJobs>>
  <2>1. Elsewhere(n, t)
    BY <1>3, <1>5, <1>8 DEF Elsewhere, Put
  <2>2. SchedTyped'
    BY <1>3, <1>4, <1>5, <1>8 DEF SchedTyped, Put
  <2>3. ~Active(t)
    BY <1>2, <1>8 DEF Active, Sch!Rows
  <2>4. Follows(n, t)'
    BY <1>2, <1>3, <1>6, <1>7, <1>8, <2>3 DEF Follows
  <2> QED
    BY <1>2, <1>3, <2>1, <2>2, <2>4, OneTask
<1>9. CASE t \in Sch!Rows /\ Sch!CreateJob(n, t)
  <2>1. /\ cron' \in [Node -> [Task -> Int]] /\ cron'[n][t] = cron[n][t] + 1
        /\ cronJobs' = [m \in Node |-> cronJobs'[m]] /\ t \in cronJobs'[n]
        /\ \A m \in Node, u \in Task : m # n \/ u # t =>
              cron'[m][u] = cron[m][u] /\ (u \in cronJobs'[m] <=> u \in cronJobs[m])
    BY <1>2, <1>4, <1>9, JobCreated
  <2>2. Elsewhere(n, t)
    BY <1>3, <1>5, <2>1 DEF Elsewhere, Put
  <2>3. SchedTyped'
    BY <1>3, <1>4, <1>5, <2>1 DEF SchedTyped, Put
  <2>4. Active(t) => Jobs(t) = 1
    BY DEF Jobs
  <2>5. Follows(n, t)'
    <3>1. t \notin spoiled => cron'[n][t] = 1 /\ Jobs(t)' = 1 /\ On(n, t, changing') = {}
      <4>1. ASSUME t \notin spoiled
            PROVE  On(n, t, changing) = {k} /\ cron[n][t] = 0 /\ Active(t)
        BY <1>2, <1>3, <4>1
      <4>2. ASSUME t \notin spoiled
            PROVE  On(n, t, changing') = {}
        BY <1>6, <4>1, <4>2
      <4> QED
        BY <1>7, <2>1, <2>4, <4>1, <4>2
    <3> QED
      BY <1>2, <1>3, <2>1, <3>1 DEF Follows
  <2> QED
    BY <1>2, <1>3, <2>2, <2>3, <2>5, OneTask
<1> QED
  BY <1>3, <1>8, <1>9

LEMMA FailStep ==
    ASSUME Following, NEW k \in TaskCall, Sch!WriteFails(k)
    PROVE  Following'
<1>1. changing[k] # none
  BY DEF Sch!WriteFails
<1>2. PICK n \in Node, t \in Task :
          /\ changing[k].node = n /\ changing[k].task = t /\ changing[k] \in TaskChange
          /\ boot[n] = "ready" /\ tasks[t] # none /\ k \in On(n, t, changing)
  BY <1>1, OneCall
<1>3. /\ changing[k] # none /\ changing' = [changing EXCEPT ![k] = none]
      /\ spoiled' = spoiled \cup {t} /\ UNCHANGED <<tasks, boot, left, cron, cronJobs>>
  BY <1>2 DEF Sch!WriteFails
<1>4. SchedTyped
  BY DEF Following
<1>5. Put(n, t, k, none)
  BY <1>2, <1>3, <1>4, CallSet
<1>6. Elsewhere(n, t)
  BY <1>3, <1>5 DEF Elsewhere, Put
<1>7. SchedTyped'
  BY <1>3, <1>4, <1>5 DEF SchedTyped, Put
<1>8. Follows(n, t)'
  BY <1>2, <1>3 DEF Follows
<1> QED
  BY <1>3, <1>6, <1>7, <1>8, OneTask

LEMMA DeleteStep ==
    ASSUME Following, NEW k \in TaskCall, Sch!StoreDelete(k)
    PROVE  Following'
<1>1. changing[k] # none
  BY DEF Sch!StoreDelete
<1>2. PICK n \in Node, t \in Task :
          /\ changing[k].node = n /\ changing[k].task = t /\ changing[k] \in TaskChange
          /\ boot[n] = "ready" /\ tasks[t] # none /\ k \in On(n, t, changing)
          /\ t \notin spoiled =>
                 /\ On(n, t, changing) = {k} /\ cron[n][t] = 0 /\ t \notin cronJobs[n]
                 /\ changing[k].step = "schedule" => Active(t)
  BY <1>1, OneCall
<1>3. /\ changing[k] # none /\ changing' = [changing EXCEPT ![k] = none]
      /\ Sch!Changed(n, t) /\ tasks' = [tasks EXCEPT ![t] = gone]
      /\ UNCHANGED <<boot, left, cron, cronJobs>>
  BY <1>2 DEF Sch!StoreDelete
<1>4. SchedTyped
  BY DEF Following
<1>5. Put(n, t, k, none)
  BY <1>2, <1>3, <1>4, CallSet
<1>6. On(n, t, changing') = On(n, t, changing) \ {k}
  BY <1>5 DEF Put
<1>7. tasks' \in [Task -> TaskRow \cup {none, gone}] /\ tasks'[t] = gone /\ gone # none
      /\ \A u \in Task : u # t => tasks'[u] = tasks[u]
  BY <1>2, <1>3, <1>4, TaskSet, AbsentAssumption
<1>8. Jobs(t)' = 0
  BY <1>7 DEF Jobs, Active
<1>9. Elsewhere(n, t)
  BY <1>3, <1>5 DEF Elsewhere, Put
<1>10. SchedTyped'
  BY <1>3, <1>4, <1>5, <1>7 DEF SchedTyped, Put
<1>11. spoiled \subseteq spoiled' /\ \A m \in Node \ {n} : boot[m] # "down" => t \in spoiled'
  BY <1>3, ChangeSpoils
<1>12. Follows(n, t)'
  BY <1>2, <1>3, <1>6, <1>7, <1>8, <1>11 DEF Follows
<1> QED
  BY <1>2, <1>3, <1>7, <1>9, <1>10, <1>11, <1>12, OneTask

(* A process that was alone in changing a task, one call at a time and none  *)
(* of them refused or left half stored, has one job for it when it is active *)
(* and none otherwise, through its start, the loading and migration of the   *)
(* tasks, and crashes.                                                       *)
THEOREM JobsFollow == RecordsSpec => []SchedulerJobsFollow
<1>1. RecordsInit => FollowKept
  <2> SUFFICES ASSUME RecordsInit
               PROVE  Following
    BY DEF FollowKept
  <2>1. Sch!Init
    BY DEF RecordsInit
  <2>2. SchedTyped
    <3>1. [t \in Task |-> 0] \in [Task -> Int]
      OBVIOUS
    <3>2. cron \in [Node -> [Task -> Int]]
      BY <2>1, <3>1 DEF Sch!Init
    <3> QED
      BY <2>1, <3>2 DEF Sch!Init, SchedTyped
  <2>3. ASSUME NEW n \in Node, NEW t \in Task
        PROVE  Follows(n, t)
    <3>1. boot[n] = "down" /\ cron[n][t] = 0 /\ t \notin cronJobs[n]
      BY <2>1 DEF Sch!Init
    <3>2. On(n, t, changing) = {}
      BY <2>1 DEF Sch!Init, On
    <3> QED
      BY <3>1, <3>2 DEF Follows
  <2> QED
    BY <2>2, <2>3 DEF Following
<1>2. FollowKept /\ [RecordsNext]_recordVars => FollowKept'
  <2> SUFFICES ASSUME FollowKept, [RecordsNext]_recordVars, part' = "scheduler"
               PROVE  Following'
    BY DEF FollowKept
  <2>1. part = "scheduler" /\ Following /\ (Sch!Next \/ UNCHANGED schedVars)
    BY OnePart DEF FollowKept
  <2>2. CASE UNCHANGED schedVars
    <3>1. UNCHANGED <<tasks, boot, left, cron, cronJobs, changing, spoiled>>
      BY <2>2 DEF schedVars
    <3>2. SchedTyped'
      BY <2>1, <3>1 DEF Following, SchedTyped
    <3>3. \A n \in Node, t \in Task : Follows(n, t)'
      BY <2>1, <3>1, Unmoved DEF Following
    <3> QED
      BY <3>2, <3>3 DEF Following
  <2> QED
    BY <2>1, <2>2, ProcessSteps, LoadStep, MigrateStep, AddStep, BeginStep, UpdateStep,
       ScheduleStep, FailStep, DeleteStep DEF Sch!Next
<1>3. FollowKept => SchedulerJobsFollow
  <2> SUFFICES ASSUME Following, NEW n \in Node, NEW t \in Task, boot[n] = "ready",
                      t \notin spoiled, Sch!OnTask(n, t) = {}
               PROVE  cron[n][t] = IF t \in Sch!Rows /\ tasks[t].isActive THEN 1 ELSE 0
    BY DEF FollowKept, SchedulerJobsFollow, Sch!JobsFollowTasks
  <2>1. On(n, t, changing) = {}
    BY DEF Sch!OnTask, On
  <2>2. Follows(n, t)
    BY DEF Following
  <2>3. cron[n][t] = Jobs(t)
    BY <2>1, <2>2 DEF Follows
  <2> QED
    BY <2>3 DEF Jobs, Active, Sch!Rows
<1> QED
  BY <1>1, <1>2, <1>3, PTL DEF RecordsSpec
=============================================================================
