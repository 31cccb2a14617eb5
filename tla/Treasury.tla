------------------------------ MODULE Treasury ------------------------------
(***************************************************************************)
(* The treasury of contracts/soroban/src/treasury.rs: managers vote on     *)
(* typed proposals; withdrawals wait for a time lock and are limited per   *)
(* day, week and month.  initialize may be called again at any time, and   *)
(* starts the managers, the limits, their counters and the ids anew beside *)
(* the proposals and requests there are.                                   *)
(*                                                                         *)
(* Every entry point takes env.current_contract_address() for its caller:  *)
(* whoever invokes the treasury, it asks whether the treasury itself is a  *)
(* manager, and it is the treasury itself that votes.  An invocation that  *)
(* returns Err changes nothing.                                            *)
(***************************************************************************)
EXTENDS Integers, Sequences, FiniteSets, FiniteSetsExt

CONSTANTS
    Address, Self,              \* Self is the treasury's own address
    Asset,                      \* token contracts
    InitManagers, InitThreshold, InitLimits, InitTimeLock,
    MAX_MANAGERS, Period,       \* SECONDS_PER_DAY, _WEEK, _MONTH
    min_proposal_duration, max_proposal_duration,
    Limits, TimeLocks, Setups,  \* bounds: configurations tried
    Motions, Durations, Candidates, Deposits,      \* and proposals filed
    MaxFunds, MaxProposals, MaxTime, MaxSetups

Window == {"daily", "weekly", "monthly"}
Withdrawal == {"standard", "emergency", "budget"}
ProposalType == Withdrawal \cup {"parameter", "add", "remove"}
Limit == [Window -> Nat]
TimeLock == [standard : Nat, emergency : Nat, extended : Nat, large : Int]
Proposal == [id : Nat, type : ProposalType, who : Address, amount : Int, asset : Asset,
             created : Nat, expires : Nat, lockedUntil : Nat,
             executed : BOOLEAN, voters : SUBSET Address, required : Nat]

(* What initialize checks of its arguments.                                *)
ASSUME InitAssumption ==
    /\ Self \in Address
    /\ IsFiniteSet(Address)
    /\ InitManagers \subseteq Address
    /\ Cardinality(InitManagers) \in 1..MAX_MANAGERS
    /\ InitThreshold \in 1..Cardinality(InitManagers)
    /\ InitLimits \in [Window -> Nat \ {0}]
    /\ InitTimeLock \in TimeLock
    /\ 0 \notin {InitTimeLock.standard, InitTimeLock.emergency, InitTimeLock.extended}

ASSUME NumberAssumption ==
    /\ Period \in [Window -> Nat \ {0}]
    /\ {min_proposal_duration, max_proposal_duration, MAX_MANAGERS} \subseteq Nat
    /\ Limits \subseteq [Window -> Int]
    /\ TimeLocks \subseteq TimeLock
    /\ Motions \subseteq [type : ProposalType, who : Address, amount : Int]
    /\ Durations \subseteq Nat
    /\ Candidates \subseteq Address
    /\ Deposits \subseteq Nat
    /\ Setups \subseteq [managers : SUBSET Address, threshold : Nat, limits : [Window -> Int],
                        timeLock : TimeLock, durations : SUBSET Nat]
    /\ {MaxFunds, MaxProposals, MaxTime, MaxSetups} \subseteq Nat

VARIABLES
    now,
    managers, threshold, limits, timeLock,
    durations,          \* of TREASURY_CONFIG: those a proposal may have
    proposalCount,              \* PROPOSAL_COUNT
    setups,             \* history: how often initialize was called
    proposals,          \* PROPOSALS with PROPOSAL_VOTES, in order of id
    requests,           \* WITHDRAWAL_REQUESTS; limits and setup are history fields
    withdrawn,          \* the counters of TREASURY_STATS
    lastReset,          \* LAST_DAILY_RESET, LAST_WEEKLY_RESET, LAST_MONTHLY_RESET
    balance

govVars == <<managers, threshold>>
setupVars == <<durations, proposalCount, setups>>
configVars == <<limits, timeLock, setupVars>>
moneyVars == <<requests, withdrawn, lastReset, balance>>
vars == <<now, govVars, configVars, proposals, moneyVars>>

Init ==
    /\ now = 0
    /\ managers = InitManagers
    /\ threshold = InitThreshold
    /\ limits = InitLimits
    /\ timeLock = InitTimeLock
    /\ durations = min_proposal_duration..max_proposal_duration
    /\ proposalCount = 0
    /\ setups = 1
    /\ proposals = <<>>
    /\ requests = <<>>
    /\ withdrawn = [w \in Window |-> 0]
    /\ lastReset = [w \in Window |-> 0]
    /\ balance = [k \in Asset |-> 0]

(* initialize, by whoever calls it: it does not ask for an earlier call.    *)
Initialize(s) ==
    /\ setups < MaxSetups
    /\ Cardinality(s.managers) \in 1..MAX_MANAGERS
    /\ s.threshold \in 1..Cardinality(s.managers)
    /\ \A w \in Window : s.limits[w] > 0
    /\ 0 \notin {s.timeLock.standard, s.timeLock.emergency, s.timeLock.extended}
    /\ managers' = s.managers
    /\ threshold' = s.threshold
    /\ limits' = s.limits
    /\ timeLock' = s.timeLock
    /\ durations' = s.durations
    /\ withdrawn' = [w \in Window |-> 0]
    /\ lastReset' = [w \in Window |-> now]
    /\ proposalCount' = 0
    /\ setups' = setups + 1
    /\ UNCHANGED <<now, proposals, requests, balance>>

(* is_manager(caller): the check every other entry point starts with.       *)
CallerIsManager == Self \in managers

(***************************************************************************)
(* Managers: also what "add" and "remove" proposals execute                *)
(***************************************************************************)
EnlistManager(a) ==
    /\ CallerIsManager
    /\ a \notin managers
    /\ Cardinality(managers) < MAX_MANAGERS
    /\ managers' = managers \cup {a}
    /\ UNCHANGED threshold

DismissManager(a) ==
    /\ CallerIsManager
    /\ a \in managers
    /\ Cardinality(managers) > 1
    /\ managers' = managers \ {a}
    /\ threshold' = IF threshold > Cardinality(managers') THEN Cardinality(managers')
                                                          ELSE threshold

AddManager(a) == EnlistManager(a) /\ UNCHANGED <<now, configVars, proposals, moneyVars>>
RemoveManager(a) == DismissManager(a) /\ UNCHANGED <<now, configVars, proposals, moneyVars>>

(***************************************************************************)
(* Configuration                                                           *)
(***************************************************************************)
UpdateWithdrawalLimits(l) ==
    /\ CallerIsManager
    /\ 0 < l.daily /\ l.daily <= l.weekly /\ l.weekly <= l.monthly
    /\ limits' = l
    /\ UNCHANGED <<now, govVars, timeLock, setupVars, proposals, moneyVars>>

UpdateTimeLockConfig(t) ==
    /\ CallerIsManager
    /\ 0 \notin {t.standard, t.emergency, t.extended}
    /\ t.large > 0
    /\ timeLock' = t
    /\ UNCHANGED <<now, govVars, limits, setupVars, proposals, moneyVars>>

(***************************************************************************)
(* Proposals                                                               *)
(***************************************************************************)
TimeLockPeriod(type, amount) ==
    CASE type = "standard" -> IF amount >= timeLock.large THEN timeLock.extended
                                                          ELSE timeLock.standard
      [] type = "emergency" -> timeLock.emergency
      [] OTHER -> 0

CreateProposal(type, who, amount, asset, d) ==
    /\ CallerIsManager
    /\ Len(proposals) < MaxProposals
    /\ d \in durations
    /\ proposals' = Append(proposals,
          [id |-> proposalCount + 1, type |-> type, who |-> who, amount |-> amount, asset |-> asset,
           created |-> now, expires |-> now + d,
           lockedUntil |-> now + TimeLockPeriod(type, amount),
           executed |-> FALSE, voters |-> {}, required |-> threshold])
    /\ proposalCount' = proposalCount + 1
    /\ UNCHANGED <<now, govVars, limits, timeLock, durations, setups, moneyVars>>

(* reset_withdrawal_counters_if_needed: a window starts at the first        *)
(* withdrawal after the last one ended.                                     *)
Stale(w) == now - lastReset[w] >= Period[w]
Spent(w) == IF Stale(w) THEN 0 ELSE withdrawn[w]

(* transfer panics on a negative amount.                                    *)
MutDailyForgotten(p) ==
    /\ Spent("weekly") + p.amount <= limits["weekly"]
    /\ Spent("monthly") + p.amount <= limits["monthly"]
    /\ p.amount \in 0..balance[p.asset]
Allowed(p) ==
    /\ \A w \in Window : Spent(w) + p.amount <= limits[w]
    /\ p.amount \in 0..balance[p.asset]

(* execute_withdrawal *)
Withdraw(p) ==
    /\ Allowed(p)
    /\ balance' = [balance EXCEPT ![p.asset] = @ - p.amount]
    /\ withdrawn' = [w \in Window |-> Spent(w) + p.amount]
    /\ lastReset' = [w \in Window |-> IF Stale(w) THEN now ELSE lastReset[w]]
    /\ requests' = Append(requests, [amount |-> p.amount, at |-> now, asset |-> p.asset,
                                    limits |-> limits, setup |-> setups])

Carry(p) ==
    \/ p.type \in Withdrawal /\ Withdraw(p) /\ UNCHANGED govVars
    \/ p.type = "parameter" /\ UNCHANGED <<govVars, moneyVars>>
    \/ p.type = "add" /\ EnlistManager(p.who) /\ UNCHANGED moneyVars
    \/ p.type = "remove" /\ DismissManager(p.who) /\ UNCHANGED moneyVars

Outvoted(p) == Cardinality(p.voters) >= p.required

(* An id finds the first proposal that has it: after an initialize new ones  *)
(* may never be found.                                                      *)
Found(i) == \A j \in 1..(i - 1) : proposals[j].id # proposals[i].id

(* execute_proposal on the stored list *)
MutExecuteAgain(list, i) ==
    LET p == list[i] IN
    /\ now <= p.expires
    /\ Outvoted(p)
    /\ now >= p.lockedUntil
    /\ Carry(p)
    /\ proposals' = [list EXCEPT ![i].executed = TRUE]
Execute(list, i) ==
    LET p == list[i] IN
    /\ CallerIsManager
    /\ ~p.executed
    /\ now <= p.expires
    /\ Outvoted(p)
    /\ now >= p.lockedUntil
    /\ Carry(p)
    /\ proposals' = [list EXCEPT ![i].executed = TRUE]

VoteOnProposal(i) ==
    LET p == proposals[i]
        voted == [p EXCEPT !.voters = @ \cup {Self}]
        after == [proposals EXCEPT ![i] = voted]
    IN /\ CallerIsManager
       /\ Found(i)
       /\ ~p.executed
       /\ now <= p.expires
       /\ Self \notin p.voters
       /\ IF Outvoted(voted) /\ now >= p.lockedUntil
          THEN Execute(after, i)
          ELSE proposals' = after /\ UNCHANGED <<govVars, moneyVars>>
       /\ UNCHANGED <<now, configVars>>

ExecuteProposal(i) == Found(i) /\ Execute(proposals, i) /\ UNCHANGED <<now, configVars>>

(***************************************************************************)
(* The world                                                               *)
(***************************************************************************)
Deposit(k, n) ==
    /\ balance[k] + n <= MaxFunds
    /\ balance' = [balance EXCEPT ![k] = @ + n]
    /\ UNCHANGED <<now, govVars, configVars, proposals, requests, withdrawn, lastReset>>

Tick ==
    /\ now < MaxTime
    /\ now' = now + 1
    /\ UNCHANGED <<govVars, configVars, proposals, moneyVars>>

Next ==
    \/ \E s \in Setups : Initialize(s)
    \/ \E a \in Candidates : AddManager(a) \/ RemoveManager(a)
    \/ \E l \in Limits : UpdateWithdrawalLimits(l)
    \/ \E t \in TimeLocks : UpdateTimeLockConfig(t)
    \/ \E m \in Motions, k \in Asset, d \in Durations :
          CreateProposal(m.type, m.who, m.amount, k, d)
    \/ \E i \in DOMAIN proposals : VoteOnProposal(i) \/ ExecuteProposal(i)
    \/ \E k \in Asset, n \in Deposits : Deposit(k, n)
    \/ Tick

Spec == Init /\ [][Next]_vars

(***************************************************************************)
(* Properties                                                              *)
(***************************************************************************)
(* The stored data keep their types; no asset is ever overdrawn.            *)
TypeOK ==
    /\ now \in Nat
    /\ managers \subseteq Address
    /\ threshold \in Nat
    /\ limits \in Limit
    /\ timeLock \in TimeLock
    /\ proposals \in Seq(Proposal)
    /\ requests \in Seq([amount : Nat, at : Nat, asset : Asset, limits : Limit, setup : Nat])
    /\ durations \subseteq Nat /\ proposalCount \in Nat /\ setups \in Nat
    /\ withdrawn \in [Window -> Nat]
    /\ lastReset \in [Window -> 0..now]
    /\ balance \in [Asset -> Nat]

(* remove_manager lowers the threshold when it must, so through any mix of  *)
(* direct removals and removal proposals the threshold stays one the        *)
(* managers can reach, and at least one of them is left.                    *)
ThresholdFits == threshold \in 1..Cardinality(managers)

Between(from, to, s) == {i \in DOMAIN requests : requests[i].setup = s /\ requests[i].at \in from..to}
Total(S) == MapThenSumSet(LAMBDA i : requests[i].amount, S)

(* The counters of TREASURY_STATS are what the request log says was paid    *)
(* out since their last reset under the last initialize.                    *)
CountersMatchLog == \A w \in Window : withdrawn[w] = Total(Between(lastReset[w], now, setups))

(* A limit is kept per window that opens with a withdrawal, not per rolling *)
(* period, and may be raised and lowered in between; still no day, week or  *)
(* month, wherever it starts, carries more than twice the highest limit its *)
(* withdrawals were made under.  That holds from one initialize to the next,*)
(* which forgets what was withdrawn.                                        *)
RollingLimit ==
    \A w \in Window, from \in 0..now, s \in 1..setups :
        LET S == Between(from, from + Period[w] - 1, s)
        IN S # {} => \E i \in S : Total(S) <= 2 * requests[i].limits[w]

(* Withdrawals of the types that are locked wait the period configured when *)
(* they were proposed and are paid before they expire: no later             *)
(* update_time_lock_config and no change of managers shortens the wait.     *)
WaitsOutItsLock(p, q) ==
    /\ q.lockedUntil = p.lockedUntil
    /\ q.executed /\ ~p.executed /\ p.type \in {"standard", "emergency"} =>
          /\ now > p.created
          /\ now \in p.lockedUntil..p.expires
WithdrawalsWait == \A i \in DOMAIN proposals : WaitsOutItsLock(proposals[i], proposals'[i])

(* The treasury is a vault: each proposal pays at most once and its amount. *)
Filing(q) == [asset |-> q.asset, amount |-> IF q.type \in Withdrawal THEN q.amount ELSE 0]
Filings(list) == [i \in DOMAIN list |-> Filing(list[i])]
Executed(list) == {i \in DOMAIN list : list[i].executed}
Vlt == INSTANCE Vault WITH
    Account <- Asset,
    Request <- [asset : Asset, amount : {m.amount : m \in Motions} \cup {0}],
    filed <- Filings(proposals),
    settled <- Executed(proposals),
    funds <- balance

(* test_proposal_creation_and_voting (treasury_test.rs:209-217): a manager   *)
(* that has not voted can vote on an open proposal, and the "Second vote     *)
(* should execute the proposal".  (Of a parameter proposal, whose execution  *)
(* does nothing that could fail.)                                            *)
EveryManagerCanVote ==
    \A i \in DOMAIN proposals :
        LET p == proposals[i] IN
        p.type = "parameter" /\ ~p.executed /\ now <= p.expires
        /\ ~(managers \subseteq p.voters) => ENABLED VoteOnProposal(i)
=============================================================================
