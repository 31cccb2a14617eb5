---------------------------- MODULE EventIndexer ----------------------------
(***************************************************************************)
(* backend/src/services/EventIndexerService.ts: the poll that stores the   *)
(* events of new ledgers and moves a cursor, with the backfill and the     *)
(* reorg handling of EventIndexerController.ts, which run beside it.  Each *)
(* ledger of the chain has one event; a reorg replaces the last ledgers.   *)
(***************************************************************************)
EXTENDS Integers, FiniteSets

CONSTANTS
    MaxLedger, MaxForks,    \* bounds on the chain
    MaxCopies,              \* from here on copies of an event are not counted
    batchSize,
    MaxCalls                \* bound on backfills and reorg calls

VARIABLES
    latest, fork,   \* the chain: its height, and which fork each ledger is of
    stored,         \* copies of each event (ledger and fork) in the table
    lastLedger,     \* the cursor; -1: no row of eventIndexerState
    isHealthy,
    isRunning,
    poll,           \* "off", "state", "latest", "fetch", "insert", "advance", "rest"
    from, goal,     \* of the poll: first ledger of the batch, last one of the round
    batch,          \* events a round still has to insert
    fill,           \* of a backfill: the next ledger, the last, the events to insert
    reorg,          \* of a reorg call: "none" or "cursor", and its ledger
    calls,
    excused         \* history: ledgers a failure or a race kept from being indexed

chainVars == <<latest, fork>>
pollVars == <<poll, from, goal, batch>>
apiVars == <<fill, reorg, calls>>
indexVars == <<chainVars, stored, lastLedger, isHealthy, isRunning, pollVars, apiVars, excused>>

Ledgers == 1..MaxLedger
Least(a, b) == IF a < b THEN a ELSE b
NoFill == [next |-> 1, to |-> 0, batch |-> {}]
NoReorg == [step |-> "none", ledger |-> 0]

(* getEvents has a first ledger but no last one.                            *)
EventsFrom(l) == {<<k, fork[k]>> : k \in l..latest}
EndOf(l) == Least(l + batchSize - 1, goal)

Init ==
    /\ latest = 1
    /\ fork = [l \in Ledgers |-> 0]
    /\ stored = [e \in Ledgers \X (0..MaxForks) |-> 0]
    /\ lastLedger = -1
    /\ isHealthy = TRUE
    /\ isRunning = FALSE
    /\ poll = "off" /\ from = 0 /\ goal = 0 /\ batch = {}
    /\ fill = NoFill
    /\ reorg = NoReorg
    /\ calls = 0
    /\ excused = {}

-----------------------------------------------------------------------------
(* The network.                                                             *)

NewLedger ==
    /\ latest < MaxLedger
    /\ latest' = latest + 1
    /\ UNCHANGED <<fork, stored, lastLedger, isHealthy, isRunning, pollVars, apiVars, excused>>

(* Until handleReorg is called the cursor stands past the new events; a     *)
(* round under way may have read the old ones.                              *)
ChainReorg(l) ==
    /\ l \in 1..latest /\ \A k \in l..latest : fork[k] < MaxForks
    /\ fork' = [k \in Ledgers |-> IF k >= l THEN fork[k] + 1 ELSE fork[k]]
    /\ excused' = excused \cup {k \in l..latest : k <= lastLedger \/ poll \notin {"off", "rest"}}
    /\ UNCHANGED <<latest, stored, lastLedger, isHealthy, isRunning, pollVars, apiVars>>

-----------------------------------------------------------------------------
(* The poll.                                                                *)

(* start and initializeIndexerState: the cursor starts at the present       *)
(* ledger, or at 0 when the RPC does not answer.                            *)
Start(answers) ==
    /\ ~isRunning /\ poll = "off"
    /\ isRunning' = TRUE
    /\ lastLedger' = IF lastLedger >= 0 THEN lastLedger ELSE IF answers THEN latest ELSE 0
    /\ excused' = IF lastLedger < 0 /\ answers THEN 1..latest ELSE excused
    /\ poll' = "state"
    /\ UNCHANGED <<chainVars, stored, isHealthy, from, goal, batch, apiVars>>

(* stop clears the timer; a round under way goes on.                        *)
Stop ==
    /\ isRunning
    /\ isRunning' = FALSE
    /\ poll' = IF poll = "rest" THEN "off" ELSE poll
    /\ UNCHANGED <<chainVars, stored, lastLedger, isHealthy, from, goal, batch, apiVars, excused>>

Poll ==
    /\ poll = "rest" /\ isRunning
    /\ poll' = "state"
    /\ UNCHANGED <<chainVars, stored, lastLedger, isHealthy, isRunning, from, goal, batch, apiVars, excused>>

(* A round that ends after stop arms a timer that finds nothing to do.      *)
Rest == poll' = IF isRunning THEN "rest" ELSE "off"

GetIndexerState(ok) ==
    /\ poll = "state"
    /\ IF ok THEN poll' = "latest" /\ from' = lastLedger + 1
             ELSE Rest /\ UNCHANGED from
    /\ UNCHANGED <<chainVars, stored, lastLedger, isHealthy, isRunning, goal, batch, apiVars, excused>>

(* An error is the ledger 0: nothing new, and healthy.                      *)
GetLatestLedger(ok) ==
    /\ poll = "latest"
    /\ goal' = IF ok THEN latest ELSE 0
    /\ IF goal' < from
         THEN Rest /\ isHealthy' = TRUE
         ELSE poll' = "fetch" /\ UNCHANGED isHealthy
    /\ UNCHANGED <<chainVars, stored, lastLedger, isRunning, from, batch, apiVars, excused>>

(* fetchEventsForLedgerRange: an error is logged, and the round goes on.    *)
FetchEvents(ok) ==
    /\ poll = "fetch"
    /\ batch' = IF ok THEN EventsFrom(from) ELSE {}
    /\ poll' = IF ok THEN "insert" ELSE "advance"
    /\ excused' = IF ok THEN excused ELSE excused \cup (from..EndOf(from))
    /\ UNCHANGED <<chainVars, stored, lastLedger, isHealthy, isRunning, from, goal, apiVars>>

(* indexEvents: the table has no unique key, so copies are stored.          *)
Insert(e) ==
    stored' = [stored EXCEPT ![e] = IF @ < MaxCopies THEN @ + 1 ELSE @]

InsertEvent(e, ok) ==
    /\ poll = "insert" /\ e \in batch
    /\ batch' = batch \ {e}
    /\ poll' = IF batch' = {} THEN "advance" ELSE "insert"
    /\ IF ok THEN Insert(e) /\ UNCHANGED excused
             ELSE excused' = excused \cup {e[1]} /\ UNCHANGED stored
    /\ UNCHANGED <<chainVars, lastLedger, isHealthy, isRunning, from, goal, apiVars>>

(* updateLastLedger of the batch, an error of which is logged; then the     *)
(* next batch, or the end of the round.                                     *)
UpdateLastLedger(ok) ==
    /\ poll = "advance"
    /\ lastLedger' = IF ok THEN EndOf(from) ELSE lastLedger
    /\ from' = from + batchSize
    /\ IF from' <= goal
         THEN poll' = "fetch" /\ UNCHANGED isHealthy
         ELSE Rest /\ isHealthy' = TRUE
    /\ UNCHANGED <<chainVars, stored, isRunning, goal, batch, apiVars, excused>>

-----------------------------------------------------------------------------
(* The calls of the API.                                                    *)

BackfillEvents(l, m) ==
    /\ calls < MaxCalls /\ fill = NoFill /\ l <= m
    /\ calls' = calls + 1
    /\ fill' = [next |-> l, to |-> m, batch |-> {}]
    /\ UNCHANGED <<chainVars, stored, lastLedger, isHealthy, isRunning, pollVars, reorg, excused>>

FillStep(ok) ==
    /\ fill # NoFill
    /\ IF fill.batch # {}
         THEN \E e \in fill.batch :
                 /\ IF ok THEN Insert(e) ELSE UNCHANGED stored
                 /\ fill' = [fill EXCEPT !.batch = @ \ {e}]
         ELSE /\ fill' = IF fill.next > fill.to THEN NoFill
                         ELSE [fill EXCEPT !.next = @ + batchSize,
                                           !.batch = IF ok THEN EventsFrom(fill.next) ELSE {}]
              /\ UNCHANGED stored
    /\ UNCHANGED <<chainVars, lastLedger, isHealthy, isRunning, pollVars, reorg, calls, excused>>

(* handleReorg: delete, then reset the cursor.  A round of the poll that is *)
(* under way moves the cursor on past what was deleted.                     *)
DeleteFrom(l) ==
    /\ calls < MaxCalls /\ reorg = NoReorg /\ lastLedger >= 0
    /\ calls' = calls + 1
    /\ reorg' = [step |-> "cursor", ledger |-> l]
    /\ stored' = [e \in DOMAIN stored |-> IF e[1] >= l THEN 0 ELSE stored[e]]
    /\ excused' = excused \cup {k \in Ledgers : k >= l /\ k <= latest}
    /\ UNCHANGED <<chainVars, lastLedger, isHealthy, isRunning, pollVars, fill>>

(* Once the cursor is back and no round was under way, the ledgers are      *)
(* indexed again; a ledger not reached yet moves the cursor on instead.     *)
Reindexed(ok) ==
    IF ok /\ poll \in {"off", "rest"}
    THEN (excused \ (reorg.ledger..MaxLedger)) \cup (lastLedger + 1)..(reorg.ledger - 1)
    ELSE excused \cup (lastLedger + 1)..(reorg.ledger - 1)
MutKeepCursor(ok) ==
    /\ reorg.step = "cursor"
    /\ reorg' = NoReorg
    /\ excused' = Reindexed(ok)
    /\ UNCHANGED <<chainVars, stored, lastLedger, isHealthy, isRunning, pollVars, fill, calls>>
ResetCursor(ok) ==
    /\ reorg.step = "cursor"
    /\ lastLedger' = IF ok THEN reorg.ledger - 1 ELSE lastLedger
    /\ reorg' = NoReorg
    /\ excused' = Reindexed(ok)
    /\ UNCHANGED <<chainVars, stored, isHealthy, isRunning, pollVars, fill, calls>>

(* The process ends between two steps and is started again by Start.        *)
Crash ==
    /\ isRunning
    /\ isRunning' = FALSE
    /\ poll' = "off" /\ batch' = {} /\ fill' = NoFill /\ reorg' = NoReorg
    /\ UNCHANGED <<chainVars, stored, lastLedger, isHealthy, from, goal, calls, excused>>

Next ==
    \/ NewLedger
    \/ \E l \in Ledgers : ChainReorg(l) \/ DeleteFrom(l)
    \/ Stop
    \/ Poll
    \/ Crash
    \/ \E ok \in BOOLEAN : Start(ok) \/ GetIndexerState(ok) \/ GetLatestLedger(ok)
                           \/ FetchEvents(ok) \/ UpdateLastLedger(ok)
                           \/ FillStep(ok) \/ ResetCursor(ok)
    \/ \E e \in DOMAIN stored, ok \in BOOLEAN : InsertEvent(e, ok)
    \/ \E l, m \in Ledgers : BackfillEvents(l, m)

Spec == Init /\ [][Next]_indexVars

-----------------------------------------------------------------------------
(* The cursor does not pass over an event: every ledger up to it has its    *)
(* present event stored, whatever polls, backfills and reorgs did between,  *)
(* unless a failed request or insert was passed over, or a reorg met a      *)
(* round under way.                                                         *)
NothingPassedOver ==
    \A l \in Ledgers : l <= lastLedger /\ l \notin excused => stored[<<l, fork[l]>>] > 0

(* "Handle duplicate events gracefully": an event is stored once.           *)
StoredOnce == \A e \in DOMAIN stored : stored[e] <= 1
=============================================================================
