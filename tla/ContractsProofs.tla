--------------------------- MODULE ContractsProofs ---------------------------
(***************************************************************************)
(* Proofs about the contracts of MCContracts: for each an inductive        *)
(* invariant (EscrowKept and Disputing; Governed and WindowsKept of the    *)
(* treasury; Vests, BridgeKept, AllTold, OracleKept, Polled, Splitting,    *)
(* Pooled, Marketed, Filled), for any people, amounts and parameters that  *)
(* the assumptions of Treasury and MCContracts admit.                      *)
(***************************************************************************)
EXTENDS MCContracts, Sums, SequenceTheorems, FiniteSetTheorems, TLAPS

(* A behavior deploys one contract and no other.                            *)
LEMMA OneContract ==
    ASSUME [ContractsNext]_contractVars
    PROVE  /\ deployed' = deployed
           /\ deployed = "treasury" => Next \/ UNCHANGED vars
           /\ deployed = "escrow" => Esc!Next \/ UNCHANGED Esc!vars
           /\ deployed = "vesting" => Vest!Next \/ UNCHANGED Vest!vars
           /\ deployed = "splitter" => Splt!Next \/ UNCHANGED Splt!vars
           /\ deployed = "staking" => Stk!Next \/ UNCHANGED Stk!vars
           /\ deployed = "oracle" => Orc!Next \/ UNCHANGED Orc!vars
           /\ deployed = "nft" => Nft!Next \/ UNCHANGED Nft!vars
           /\ deployed = "pool" => Pool!Next \/ UNCHANGED Pool!vars
           /\ deployed = "bridge" => Brg!Next \/ UNCHANGED Brg!vars
           /\ deployed = "voting" => Ext!VotingNext \/ UNCHANGED <<now, ownerVars, votingVars>>
           /\ deployed = "import" => Ext!ImportNext \/ UNCHANGED <<ownerVars, importVars>>
BY DEF ContractsNext, contractVars, escrowVars, vestingVars, splitterVars, stakingVars, oracleVars,
       nftVars, poolVars, bridgeVars, ownerVars, votingVars, importVars, treasuryVars,
       govVars, configVars, moneyVars, vars,
       Esc!vars, Vest!vars, Splt!vars, Stk!vars, Orc!vars, Nft!vars, Pool!vars, Brg!vars

(* Products and rounded quotients.                                          *)
LEMMA TimesOrdered ==
    ASSUME NEW k \in Nat, NEW m \in Int, NEW n \in Int, m <= n
    PROVE  k * m <= k * n
<1>1. k * (n - m) >= 0 /\ k * (n - m) = k * n - k * m
  OBVIOUS
<1>2. k * m \in Int /\ k * n \in Int
  OBVIOUS
<1> QED
  BY <1>1, <1>2

LEMMA QuotientBounds ==
    ASSUME NEW a \in Int, NEW d \in Nat \ {0}
    PROVE  /\ a \div d \in Int /\ d * (a \div d) \in Int
           /\ d * (a \div d) <= a /\ a < d * (a \div d) + d
OBVIOUS

LEMMA QuotientLeast ==
    ASSUME NEW a \in Int, NEW d \in Nat \ {0}, NEW c \in Int, d * c <= a
    PROVE  c <= a \div d
<1> DEFINE q == a \div d
<1>1. q \in Int /\ d * q <= a /\ a < d * q + d /\ d * q \in Int
  BY QuotientBounds
<1> HIDE DEF q
<1>2. SUFFICES ASSUME q + 1 <= c PROVE FALSE
  BY <1>1 DEF q
<1>3. d * (q + 1) <= d * c
  BY <1>1, <1>2, TimesOrdered
<1>4. d * (q + 1) = d * q + d /\ d * c \in Int
  BY <1>1
<1> QED
  BY <1>1, <1>3, <1>4

LEMMA QuotientMost ==
    ASSUME NEW a \in Int, NEW d \in Nat \ {0}, NEW c \in Int, a <= d * c
    PROVE  a \div d <= c
<1> DEFINE q == a \div d
<1>1. q \in Int /\ d * q <= a /\ d * q \in Int
  BY QuotientBounds
<1> HIDE DEF q
<1>2. SUFFICES ASSUME c + 1 <= q PROVE FALSE
  BY <1>1 DEF q
<1>3. d * (c + 1) <= d * q
  BY <1>1, <1>2, TimesOrdered
<1>4. d * (c + 1) = d * c + d /\ d * c \in Int
  BY <1>1
<1> QED
  BY <1>1, <1>3, <1>4

LEMMA QuotientOrdered ==
    ASSUME NEW a \in Int, NEW b \in Int, a <= b, NEW d \in Nat \ {0}
    PROVE  a \div d <= b \div d
<1>1. a \div d \in Int /\ d * (a \div d) \in Int /\ d * (a \div d) <= a
  BY QuotientBounds
<1>2. d * (a \div d) <= b
  BY <1>1
<1> QED
  BY <1>1, <1>2, QuotientLeast

(***************************************************************************)
(* Escrow                                                                  *)
(***************************************************************************)
EscrowKept ==
    deployed = "escrow" =>
        /\ terms \in Terms
        /\ paid = [p \in Esc!Party |-> paid[p]]
        /\ Esc!SettledOnce

(* pay_out moves the whole amount to the side named and to the collector.   *)
LEMMA EscrowPays ==
    ASSUME terms \in Terms, paid = [p \in Esc!Party |-> paid[p]], Esc!SettledOnce,
           state \in {"Funded", "Disputed"}, UNCHANGED terms,
           \/ Esc!PayOut("beneficiary") /\ state' = "Released"
           \/ Esc!PayOut("depositor") /\ state' = "Refunded"
    PROVE  paid' = [p \in Esc!Party |-> paid'[p]] /\ Esc!SettledOnce'
<1> DEFINE fee == Esc!Fee
           net == terms.amount - fee
<1>1. fee \in Int /\ terms.amount \in Int /\ fee' = fee /\ terms'.amount = terms.amount
  BY EscrowAssumption DEF Esc!Fee
<1>2. /\ held = terms.amount
      /\ paid["depositor"] = 0 /\ paid["beneficiary"] = 0 /\ paid["collector"] = 0
  BY DEF Esc!SettledOnce
<1>3. \/ /\ state' = "Released" /\ held' = held - terms.amount
         /\ paid' = [paid EXCEPT !["collector"] = @ + fee, !["beneficiary"] = @ + net]
      \/ /\ state' = "Refunded" /\ held' = held - terms.amount
         /\ paid' = [paid EXCEPT !["collector"] = @ + fee, !["depositor"] = @ + net]
  BY DEF Esc!PayOut
<1>a. net \in Int /\ (net = 0 + net) /\ (fee = 0 + fee)
  BY <1>1
<1> HIDE DEF fee, net
<1>4. CASE /\ state' = "Released" /\ held' = held - terms.amount
           /\ paid' = [paid EXCEPT !["collector"] = @ + fee, !["beneficiary"] = @ + net]
  <2>0. DOMAIN paid = Esc!Party
    OBVIOUS
  <2>a. paid' = [p \in Esc!Party |-> paid'[p]]
    BY <1>4, <2>0
  <2>b. paid'["depositor"] = 0 /\ paid'["beneficiary"] = net /\ paid'["collector"] = fee
    BY <1>2, <1>4, <1>a, <2>0 DEF Esc!Party
  <2>1. /\ paid' = [p \in Esc!Party |-> paid'[p]]
        /\ paid'["depositor"] = 0 /\ paid'["beneficiary"] = net /\ paid'["collector"] = fee
    BY <2>a, <2>b
  <2>2. paid' = [depositor |-> 0, beneficiary |-> net, collector |-> fee]
    BY <2>1 DEF Esc!Party
  <2> QED
    BY <1>1, <1>2, <1>4, <2>1, <2>2 DEF Esc!SettledOnce, fee, net
<1>5. CASE /\ state' = "Refunded" /\ held' = held - terms.amount
           /\ paid' = [paid EXCEPT !["collector"] = @ + fee, !["depositor"] = @ + net]
  <2>0. DOMAIN paid = Esc!Party
    OBVIOUS
  <2>a. paid' = [p \in Esc!Party |-> paid'[p]]
    BY <1>5, <2>0
  <2>b. paid'["depositor"] = net /\ paid'["beneficiary"] = 0 /\ paid'["collector"] = fee
    BY <1>2, <1>5, <1>a, <2>0 DEF Esc!Party
  <2>1. /\ paid' = [p \in Esc!Party |-> paid'[p]]
        /\ paid'["depositor"] = net /\ paid'["beneficiary"] = 0 /\ paid'["collector"] = fee
    BY <2>a, <2>b
  <2>2. paid' = [depositor |-> net, beneficiary |-> 0, collector |-> fee]
    BY <2>1 DEF Esc!Party
  <2> QED
    BY <1>1, <1>2, <1>5, <2>1, <2>2 DEF Esc!SettledOnce, fee, net
<1> QED
  BY <1>3, <1>4, <1>5

LEMMA EscrowStays ==
    ASSUME terms \in Terms, paid = [p \in Esc!Party |-> paid[p]], Esc!SettledOnce, Esc!Next
    PROVE  /\ terms' = terms
           /\ paid' = [p \in Esc!Party |-> paid'[p]]
           /\ Esc!SettledOnce'
<1>1. terms.amount \in Int
  BY EscrowAssumption
<1>2. terms' = terms
  BY DEF Esc!Next, Esc!Fund, Esc!Release, Esc!Dispute, Esc!Arbitrate, Esc!RefundExpired, Esc!Tick
<1>3. CASE Esc!Fund
  BY <1>1, <1>3 DEF Esc!Fund, Esc!SettledOnce, Esc!Fee
<1>4. CASE Esc!Dispute
  BY <1>4 DEF Esc!Dispute, Esc!SettledOnce, Esc!Fee
<1>5. CASE Esc!Tick
  BY <1>5 DEF Esc!Tick, Esc!SettledOnce, Esc!Fee
<1>6. ASSUME NEW caller, Esc!Release(caller)
      PROVE  paid' = [p \in Esc!Party |-> paid'[p]] /\ Esc!SettledOnce'
  BY <1>2, <1>6, EscrowPays DEF Esc!Release
<1>7. CASE Esc!RefundExpired
  BY <1>2, <1>7, EscrowPays DEF Esc!RefundExpired
<1>8. ASSUME NEW a \in Arbitrators, NEW w \in Esc!Award, Esc!Arbitrate(a, w)
      PROVE  paid' = [p \in Esc!Party |-> paid'[p]] /\ Esc!SettledOnce'
  <2>1. state = "Disputed" /\ Esc!Tally(votes')
    BY <1>8 DEF Esc!Arbitrate
  <2>2. CASE UNCHANGED <<state, held, paid>>
    BY <1>2, <2>2 DEF Esc!SettledOnce, Esc!Fee
  <2> QED
    BY <1>2, <2>1, <2>2, EscrowPays DEF Esc!Tally, Esc!Award
<1> QED
  BY <1>2, <1>3, <1>4, <1>5, <1>6, <1>7, <1>8 DEF Esc!Next

(* Through deadlines, disputes and votes the escrow holds the whole amount  *)
(* or has paid it out once, fee and rest, to the side its state names.      *)
THEOREM EscrowPaysOnce == ContractsSpec => []EscrowSettledOnce
<1>1. ContractsInit => EscrowKept
  BY DEF ContractsInit, Esc!Init, EscrowKept, Esc!SettledOnce, Esc!Party
<1>2. EscrowKept /\ [ContractsNext]_contractVars => EscrowKept'
  <2> SUFFICES ASSUME EscrowKept, [ContractsNext]_contractVars, deployed' = "escrow"
               PROVE  EscrowKept'
    BY DEF EscrowKept
  <2>1. deployed = "escrow" /\ (Esc!Next \/ UNCHANGED Esc!vars)
    BY OneContract
  <2>2. CASE UNCHANGED Esc!vars
    BY <2>1, <2>2 DEF EscrowKept, Esc!vars, Esc!SettledOnce, Esc!Fee
  <2>3. CASE Esc!Next
    BY <2>1, <2>3, EscrowStays DEF EscrowKept
  <2> QED
    BY <2>1, <2>2, <2>3
<1>3. EscrowKept => EscrowSettledOnce
  BY DEF EscrowKept, EscrowSettledOnce
<1> QED
  BY <1>1, <1>2, <1>3, PTL DEF ContractsSpec

(* The counters of a dispute are the votes cast, and while it goes on       *)
(* neither side has reached the number asked for.                           *)
Ballots(b, w) == {a \in Arbitrators : b[a] = w}
Disputing ==
    /\ terms \in Terms
    /\ votes \in [Esc!Award -> Nat]
    /\ ballot = [a \in Arbitrators |-> ballot[a]]
    /\ \A w \in Esc!Award : votes[w] = Cardinality(Ballots(ballot, w))
    /\ state \in {"Pending", "Funded", "Disputed"} /\ terms.required > 0 =>
           \A w \in Esc!Award : votes[w] < terms.required
DisputesKept == deployed = "escrow" => Disputing

(* One vote adds one voter to its side and none to the other.               *)
LEMMA VoteIsCounted ==
    ASSUME Disputing, NEW a \in Arbitrators, NEW w \in Esc!Award, Esc!Arbitrate(a, w)
    PROVE  /\ terms' = terms /\ state = "Disputed"
           /\ votes' \in [Esc!Award -> Nat]
           /\ ballot' = [b \in Arbitrators |-> ballot'[b]]
           /\ \A v \in Esc!Award : /\ votes'[v] = IF v = w THEN votes[v] + 1 ELSE votes[v]
                                   /\ votes'[v] = Cardinality(Ballots(ballot', v))
<1>1. /\ terms' = terms /\ state = "Disputed"
      /\ ballot' = [ballot EXCEPT ![a] = w] /\ ballot[a] = "none"
      /\ votes' = [votes EXCEPT ![w] = @ + 1]
  BY DEF Esc!Arbitrate
<1>2. /\ Ballots(ballot', w) = Ballots(ballot, w) \cup {a}
      /\ a \notin Ballots(ballot, w)
      /\ \A v \in Esc!Award \ {w} : Ballots(ballot', v) = Ballots(ballot, v)
      /\ ballot' = [b \in Arbitrators |-> ballot'[b]]
  BY <1>1 DEF Disputing, Ballots, Esc!Award
<1>3. IsFiniteSet(Ballots(ballot, w))
  <2>1. IsFiniteSet(Arbitrators) /\ Ballots(ballot, w) \in SUBSET Arbitrators
    BY EscrowAssumption DEF Ballots
  <2> QED
    BY <2>1, FS_Subset, Zenon
<1>4. Cardinality(Ballots(ballot', w)) = Cardinality(Ballots(ballot, w)) + 1
  BY <1>2, <1>3, FS_AddElement
<1> QED
  BY <1>1, <1>2, <1>4 DEF Disputing

LEMMA DisputesStay ==
    ASSUME Disputing, Esc!Next
    PROVE  Disputing' /\ Esc!AwardHasItsVotes
<1>0. terms.required \in Nat
  BY EscrowAssumption DEF Disputing
<1>1. CASE Esc!Fund \/ Esc!Dispute \/ Esc!Tick
  BY <1>1 DEF Esc!Fund, Esc!Dispute, Esc!Tick, Disputing, Ballots, Esc!AwardHasItsVotes
<1>2. CASE Esc!RefundExpired \/ \E caller \in {"depositor", "anyone"} : Esc!Release(caller)
  BY <1>2 DEF Esc!RefundExpired, Esc!Release, Disputing, Ballots, Esc!AwardHasItsVotes
<1>3. ASSUME NEW a \in Arbitrators, NEW w \in Esc!Award, Esc!Arbitrate(a, w)
      PROVE  Disputing' /\ Esc!AwardHasItsVotes
  <2>1. /\ terms' = terms /\ state = "Disputed"
        /\ votes' \in [Esc!Award -> Nat]
        /\ ballot' = [b \in Arbitrators |-> ballot'[b]]
        /\ \A v \in Esc!Award : /\ votes'[v] = IF v = w THEN votes[v] + 1 ELSE votes[v]
                                /\ votes'[v] = Cardinality(Ballots(ballot', v))
    BY <1>3, VoteIsCounted
  <2>2. /\ Ballots(ballot, w)' = Ballots(ballot', w)
        /\ \A v \in Esc!Award : Esc!VotedFor(v)' = Cardinality(Ballots(ballot', v))
    BY DEF Esc!VotedFor, Ballots, Esc!Cardinality, Cardinality
  <2>3. \/ votes'["release"] >= terms.required /\ state' = "Released"
        \/ /\ votes'["release"] < terms.required /\ votes'["refund"] >= terms.required
           /\ state' = "Refunded"
        \/ (\A v \in Esc!Award : votes'[v] < terms.required) /\ UNCHANGED state
    BY <1>3 DEF Esc!Arbitrate, Esc!Tally
  <2>4. Disputing'
    BY <2>1, <2>2, <2>3 DEF Disputing, Ballots
  <2>5. ASSUME terms.required > 0, state' # state
        PROVE  LET won == IF state' = "Released" THEN "release" ELSE "refund" IN
               \A v \in Esc!Award : votes'[v] >= terms.required <=> v = won
    <3>1. \A v \in Esc!Award : votes[v] < terms.required /\ votes[v] \in Nat
      BY <2>1, <2>5 DEF Disputing
    <3> QED
      BY <1>0, <2>1, <2>3, <2>5, <3>1 DEF Esc!Award
  <2>6. Esc!AwardHasItsVotes
    BY <2>1, <2>2, <2>5 DEF Esc!AwardHasItsVotes
  <2> QED
    BY <2>4, <2>6
<1> QED
  BY <1>1, <1>2, <1>3 DEF Esc!Next

(* A dispute ends with an award that as many different arbitrators voted    *)
(* for as the terms ask, and the other side was short of it.                *)
THEOREM AwardsAreVoted ==
    ContractsSpec => [][deployed = "escrow" => Esc!AwardHasItsVotes]_contractVars
<1>1. ContractsInit => DisputesKept
  <2> SUFFICES ASSUME ContractsInit, deployed = "escrow" PROVE Disputing
    BY DEF DisputesKept
  <2>1. Esc!Init
    BY DEF ContractsInit
  <2>2. \A w \in Esc!Award : Ballots(ballot, w) = {}
    BY <2>1 DEF Esc!Init, Ballots, Esc!Award
  <2> QED
    BY <2>1, <2>2, FS_EmptySet DEF Esc!Init, Disputing, Esc!Award
<1>2. DisputesKept /\ [ContractsNext]_contractVars
        => DisputesKept' /\ (deployed = "escrow" => Esc!AwardHasItsVotes)
  <2> SUFFICES ASSUME DisputesKept, [ContractsNext]_contractVars, deployed = "escrow"
               PROVE  Disputing' /\ Esc!AwardHasItsVotes
    BY OneContract DEF DisputesKept
  <2>1. Esc!Next \/ UNCHANGED Esc!vars
    BY OneContract
  <2>2. CASE UNCHANGED Esc!vars
    BY <2>2 DEF DisputesKept, Disputing, Ballots, Esc!vars, Esc!AwardHasItsVotes
  <2> QED
    BY <2>1, <2>2, DisputesStay DEF DisputesKept
<1> QED
  BY <1>1, <1>2, PTL DEF ContractsSpec

(***************************************************************************)
(* Treasury: types, thresholds and time locks                              *)
(***************************************************************************)
(* No configured period is 0 but that of large amounts' bound; and of the   *)
(* types that are locked a proposal is locked past its creation.            *)
PeriodsHold == 0 \notin {timeLock.standard, timeLock.emergency, timeLock.extended}
Locked == {"standard", "emergency"}
LocksHold == \A i \in DOMAIN proposals :
                 proposals[i].type \in Locked => proposals[i].lockedUntil > proposals[i].created
Governed == TypeOK /\ ThresholdFits /\ PeriodsHold /\ LocksHold
TreasuryKept == deployed = "treasury" => Governed

Log == [amount : Nat, at : Nat, asset : Asset, limits : Limit, setup : Nat]
GovTyped == managers \subseteq Address /\ threshold \in Nat /\ ThresholdFits
SetupTyped == durations \subseteq Nat /\ proposalCount \in Nat /\ setups \in Nat
MoneyTyped == /\ requests \in Seq(Log) /\ withdrawn \in [Window -> Nat]
              /\ lastReset \in [Window -> 0..now] /\ balance \in [Asset -> Nat]

LEMMA ManagersCounted ==
    ASSUME NEW S \in SUBSET Address
    PROVE  IsFiniteSet(S) /\ Cardinality(S) \in Nat
BY InitAssumption, FS_Subset, FS_CardinalityType

LEMMA EnlistKeeps ==
    ASSUME GovTyped, NEW a \in Address, EnlistManager(a)
    PROVE  GovTyped'
<1>1. managers' = managers \cup {a} /\ a \notin managers /\ threshold' = threshold
  BY DEF EnlistManager
<1>2. IsFiniteSet(managers) /\ Cardinality(managers) \in Nat
  BY ManagersCounted DEF GovTyped
<1>3. Cardinality(managers \cup {a}) = Cardinality(managers) + 1
  BY <1>1, <1>2, FS_AddElement
<1> QED
  BY <1>1, <1>2, <1>3 DEF GovTyped, ThresholdFits

LEMMA DismissKeeps ==
    ASSUME GovTyped, NEW a \in Address, DismissManager(a)
    PROVE  GovTyped'
<1> DEFINE n == Cardinality(managers \ {a})
<1>1. /\ managers' = managers \ {a} /\ a \in managers /\ Cardinality(managers) > 1
      /\ threshold' = IF threshold > n THEN n ELSE threshold
  BY DEF DismissManager
<1>2. IsFiniteSet(managers) /\ Cardinality(managers) \in Nat
  BY ManagersCounted DEF GovTyped
<1>3. n = Cardinality(managers) - 1
  BY <1>1, <1>2, FS_RemoveElement
<1> QED
  BY <1>1, <1>2, <1>3 DEF GovTyped, ThresholdFits

LEMMA SpentTyped ==
    ASSUME now \in Nat, MoneyTyped
    PROVE  \A w \in Window : Spent(w) \in Nat
BY DEF Spent, MoneyTyped

LEMMA WithdrawKeeps ==
    ASSUME now \in Nat, MoneyTyped, limits \in Limit, setups \in Nat,
           NEW q \in Proposal, Withdraw(q), UNCHANGED now
    PROVE  /\ MoneyTyped'
           /\ requests' = Append(requests, [amount |-> q.amount, at |-> now, asset |-> q.asset,
                                            limits |-> limits, setup |-> setups])
<1>1. q.amount \in Int /\ q.asset \in Asset
  BY DEF Proposal
<1>2. q.amount \in Nat /\ balance[q.asset] - q.amount \in Nat
  BY <1>1 DEF Withdraw, Allowed, MoneyTyped
<1>3. balance' \in [Asset -> Nat]
  BY <1>1, <1>2 DEF Withdraw, MoneyTyped
<1>4. requests' \in Seq(Log)
  BY <1>1, <1>2, AppendProperties DEF Withdraw, MoneyTyped, Log
<1>5. withdrawn' \in [Window -> Nat]
  BY <1>2, SpentTyped DEF Withdraw
<1>6. lastReset' \in [Window -> 0..now]
  BY DEF Withdraw, MoneyTyped
<1> QED
  BY <1>3, <1>4, <1>5, <1>6 DEF Withdraw, MoneyTyped

(* What executing the proposal id of list leaves.                           *)
LEMMA ExecuteKeeps ==
    ASSUME now \in Nat, GovTyped, MoneyTyped, limits \in Limit, setups \in Nat,
           NEW list \in Seq(Proposal), NEW id \in DOMAIN list, Execute(list, id), UNCHANGED now
    PROVE  /\ GovTyped' /\ MoneyTyped'
           /\ proposals' \in Seq(Proposal) /\ DOMAIN proposals' = DOMAIN list
           /\ \A i \in DOMAIN list :
                 proposals'[i] = IF i = id THEN [list[i] EXCEPT !.executed = TRUE] ELSE list[i]
<1> DEFINE q == list[id]
<1>1. q \in Proposal /\ id \in 1..Len(list)
  BY LenProperties, ElementOfSeq
<1>2. Carry(q) /\ proposals' = [list EXCEPT ![id].executed = TRUE]
  BY DEF Execute
<1>3. [q EXCEPT !.executed = TRUE] \in Proposal
  BY <1>1 DEF Proposal
<1>4. /\ proposals' \in Seq(Proposal) /\ DOMAIN proposals' = DOMAIN list
      /\ \A i \in DOMAIN list : proposals'[i] = IF i = id THEN [q EXCEPT !.executed = TRUE] ELSE list[i]
  BY <1>1, <1>2, <1>3, ExceptSeq, LenProperties
<1> HIDE DEF q
<1>5. q.who \in Address
  BY <1>1 DEF Proposal
<1>6. GovTyped'
  <2>1. CASE UNCHANGED govVars
    BY <2>1 DEF govVars, GovTyped, ThresholdFits
  <2> QED
    BY <1>2, <1>5, <2>1, EnlistKeeps, DismissKeeps DEF Carry
<1>7. MoneyTyped'
  <2>1. CASE UNCHANGED moneyVars
    BY <2>1 DEF moneyVars, MoneyTyped
  <2> QED
    BY <1>1, <1>2, <2>1, WithdrawKeeps DEF Carry
<1> QED
  BY <1>4, <1>6, <1>7 DEF q

(* A vote or an execution changes one proposal, and no field of it but the  *)
(* voters and the mark of its execution.                                    *)
Same(q, r) ==
    r.type = q.type /\ r.who = q.who /\ r.amount = q.amount /\ r.asset = q.asset
    /\ r.created = q.created /\ r.expires = q.expires /\ r.lockedUntil = q.lockedUntil
    /\ r.required = q.required

LEMMA VoteKeeps ==
    ASSUME Governed, NEW id \in DOMAIN proposals, VoteOnProposal(id)
    PROVE  /\ GovTyped' /\ MoneyTyped'
           /\ proposals' \in Seq(Proposal) /\ DOMAIN proposals' = DOMAIN proposals
           /\ \A i \in DOMAIN proposals : i # id => proposals'[i] = proposals[i]
           /\ Same(proposals[id], proposals'[id])
           /\ ~proposals[id].executed
           /\ proposals'[id].executed => now \in proposals[id].lockedUntil..proposals[id].expires
<1> DEFINE q == proposals[id]
           voted == [q EXCEPT !.voters = @ \cup {Self}]
           after == [proposals EXCEPT ![id] = voted]
<1>0. /\ proposals \in Seq(Proposal) /\ now \in Nat /\ limits \in Limit
      /\ GovTyped /\ MoneyTyped /\ setups \in Nat
  BY DEF Governed, TypeOK, GovTyped, MoneyTyped, Log
<1>1. q \in Proposal /\ id \in 1..Len(proposals) /\ Self \in Address
  BY <1>0, LenProperties, ElementOfSeq, InitAssumption
<1>2. /\ voted \in Proposal /\ Same(q, voted) /\ voted.executed = q.executed
  BY <1>1 DEF Proposal, Same
<1>3. /\ ~q.executed /\ UNCHANGED <<now, configVars>>
      /\ \/ Execute(after, id) 
         \/ proposals' = after /\ UNCHANGED <<govVars, moneyVars>>
  BY DEF VoteOnProposal
<1>4. /\ after \in Seq(Proposal) /\ DOMAIN after = DOMAIN proposals
      /\ \A i \in DOMAIN proposals : after[i] = IF i = id THEN voted ELSE proposals[i]
  BY <1>0, <1>1, <1>2, ExceptSeq, LenProperties
<1> HIDE DEF voted, after
<1>5. CASE proposals' = after /\ UNCHANGED <<govVars, moneyVars>>
  <2>1. GovTyped' /\ MoneyTyped'
    BY <1>0, <1>3, <1>5 DEF govVars, moneyVars, GovTyped, MoneyTyped, ThresholdFits
  <2> QED
    BY <1>2, <1>3, <1>4, <1>5, <2>1
<1>6. CASE Execute(after, id)
  <2>1. now <= voted.expires /\ now >= voted.lockedUntil
    BY <1>4, <1>6 DEF Execute
  <2>2. /\ GovTyped' /\ MoneyTyped'
        /\ proposals' \in Seq(Proposal) /\ DOMAIN proposals' = DOMAIN proposals
        /\ \A i \in DOMAIN proposals :
               proposals'[i] = IF i = id THEN [after[i] EXCEPT !.executed = TRUE] ELSE after[i]
    BY <1>0, <1>3, <1>4, <1>6, ExecuteKeeps
  <2>3. proposals'[id] = [voted EXCEPT !.executed = TRUE]
    BY <1>4, <2>2
  <2>4. Same(voted, [voted EXCEPT !.executed = TRUE])
    BY <1>2 DEF Same, Proposal
  <2>5. Same(q, proposals'[id]) /\ now \in q.lockedUntil..q.expires
    <3>1. now \in Nat /\ q.lockedUntil \in Nat /\ q.expires \in Nat
      BY <1>0, <1>1 DEF Proposal
    <3> QED
      BY <1>2, <2>1, <2>3, <2>4, <3>1 DEF Same
  <2> QED
    BY <1>3, <1>4, <2>2, <2>5
<1> QED
  BY <1>3, <1>5, <1>6

LEMMA ExecuteProposalKeeps ==
    ASSUME Governed, NEW id \in DOMAIN proposals, ExecuteProposal(id)
    PROVE  /\ GovTyped' /\ MoneyTyped'
           /\ proposals' \in Seq(Proposal) /\ DOMAIN proposals' = DOMAIN proposals
           /\ \A i \in DOMAIN proposals : i # id => proposals'[i] = proposals[i]
           /\ Same(proposals[id], proposals'[id])
           /\ ~proposals[id].executed
           /\ now \in proposals[id].lockedUntil..proposals[id].expires
<1> DEFINE q == proposals[id]
<1>0. /\ proposals \in Seq(Proposal) /\ now \in Nat /\ limits \in Limit
      /\ GovTyped /\ MoneyTyped /\ setups \in Nat
  BY DEF Governed, TypeOK, GovTyped, MoneyTyped, Log
<1>1. q \in Proposal
  BY <1>0, LenProperties, ElementOfSeq
<1>2. Execute(proposals, id) /\ UNCHANGED now
  BY DEF ExecuteProposal
<1>3. ~q.executed /\ now <= q.expires /\ now >= q.lockedUntil
  BY <1>2 DEF Execute
<1>4. /\ GovTyped' /\ MoneyTyped'
      /\ proposals' \in Seq(Proposal) /\ DOMAIN proposals' = DOMAIN proposals
      /\ \A i \in DOMAIN proposals :
             proposals'[i] = IF i = id THEN [proposals[i] EXCEPT !.executed = TRUE] ELSE proposals[i]
  BY <1>0, <1>2, ExecuteKeeps
<1>5. Same(q, [q EXCEPT !.executed = TRUE])
  BY <1>1 DEF Same, Proposal
<1>6. now \in q.lockedUntil..q.expires
  BY <1>0, <1>1, <1>3 DEF Proposal
<1>7. Same(q, proposals'[id])
  BY <1>4, <1>5
<1> QED
  BY <1>3, <1>4, <1>6, <1>7

FiledAs(q, type, amount, asset) ==
    /\ proposals' = Append(proposals, q)
    /\ proposals' \in Seq(Proposal) /\ DOMAIN proposals' = DOMAIN proposals \cup {Len(proposals) + 1}
    /\ Len(proposals) + 1 \notin DOMAIN proposals
    /\ \A i \in DOMAIN proposals : proposals'[i] = proposals[i]
    /\ proposals'[Len(proposals) + 1] = q
    /\ q.type = type /\ q.amount = amount /\ q.asset = asset /\ ~q.executed
    /\ q.type \in Locked => q.lockedUntil > q.created

LEMMA FilingKeeps ==
    ASSUME Governed, NEW type \in ProposalType, NEW who \in Address, NEW amount \in Int,
           NEW asset \in Asset, NEW d \in Nat, CreateProposal(type, who, amount, asset, d)
    PROVE  \E q \in Proposal : FiledAs(q, type, amount, asset)
<1> DEFINE wait == TimeLockPeriod(type, amount)
           q == [id |-> proposalCount + 1, type |-> type, who |-> who, amount |-> amount, asset |-> asset,
                 created |-> now, expires |-> now + d, lockedUntil |-> now + wait,
                 executed |-> FALSE, voters |-> {}, required |-> threshold]
<1>1. /\ proposals \in Seq(Proposal) /\ now \in Nat /\ threshold \in Nat
      /\ timeLock \in TimeLock /\ PeriodsHold /\ proposalCount \in Nat
  BY DEF Governed, TypeOK
<1>2. wait \in Nat /\ (type \in Locked => wait > 0)
  BY <1>1 DEF TimeLockPeriod, TimeLock, PeriodsHold, Locked
<1>3. proposals' = Append(proposals, q)
  BY DEF CreateProposal
<1> HIDE DEF wait
<1>4. q \in Proposal
  BY <1>1, <1>2 DEF Proposal
<1>5. /\ q.type = type /\ q.amount = amount /\ q.asset = asset /\ ~q.executed
      /\ q.type \in Locked => q.lockedUntil > q.created
  BY <1>1, <1>2
<1> HIDE DEF q
<1>6. /\ proposals' \in Seq(Proposal) /\ Len(proposals) \in Nat /\ DOMAIN proposals = 1..Len(proposals)
      /\ Len(proposals') = Len(proposals) + 1
      /\ \A i \in 1..Len(proposals) : proposals'[i] = proposals[i]
      /\ proposals'[Len(proposals) + 1] = q
  BY <1>1, <1>3, <1>4, AppendProperties, LenProperties
<1>7. DOMAIN proposals' = 1..(Len(proposals) + 1)
  BY <1>6, LenProperties
<1> QED
  BY <1>3, <1>4, <1>5, <1>6, <1>7 DEF FiledAs

LEMMA SamesLocked ==
    ASSUME Governed, DOMAIN proposals' = DOMAIN proposals,
           NEW id \in DOMAIN proposals, Same(proposals[id], proposals'[id]),
           \A i \in DOMAIN proposals : i # id => proposals'[i] = proposals[i]
    PROVE  LocksHold'
BY DEF Governed, LocksHold, Same

(* The configuration is changed one part at a time, within what is checked. *)
LEMMA ConfigurationKeeps ==
    ASSUME Governed,
           \/ \E l \in Limits : UpdateWithdrawalLimits(l)
           \/ \E t \in TimeLocks : UpdateTimeLockConfig(t)
    PROVE  limits' \in Limit /\ timeLock' \in TimeLock /\ PeriodsHold'
           /\ UNCHANGED <<now, govVars, setupVars, proposals, moneyVars>>
<1>1. limits \in Limit /\ timeLock \in TimeLock /\ PeriodsHold
  BY DEF Governed, TypeOK
<1>2. ASSUME NEW l \in Limits, UpdateWithdrawalLimits(l)
      PROVE  limits' \in Limit /\ UNCHANGED timeLock
  <2>1. l \in [Window -> Int]
    BY NumberAssumption
  <2>2. 0 < l["daily"] /\ l["daily"] <= l["weekly"] /\ l["weekly"] <= l["monthly"]
    BY <1>2 DEF UpdateWithdrawalLimits
  <2>3. \A w \in Window : l[w] \in Nat
    BY <2>1, <2>2 DEF Window
  <2> QED
    BY <1>2, <2>1, <2>3 DEF UpdateWithdrawalLimits, Limit
<1>3. ASSUME NEW t \in TimeLocks, UpdateTimeLockConfig(t)
      PROVE  timeLock' \in TimeLock /\ PeriodsHold' /\ UNCHANGED limits
  BY <1>3, NumberAssumption DEF UpdateTimeLockConfig, PeriodsHold
<1>4. UNCHANGED <<now, govVars, setupVars, proposals, moneyVars>>
  BY DEF UpdateWithdrawalLimits, UpdateTimeLockConfig
<1>5. UNCHANGED timeLock => PeriodsHold'
  BY <1>1 DEF PeriodsHold
<1> QED
  BY <1>1, <1>2, <1>3, <1>4, <1>5

LEMMA GovernedFrom ==
    ASSUME now' \in Nat, GovTyped', MoneyTyped', limits' \in Limit, timeLock' \in TimeLock,
           SetupTyped', proposals' \in Seq(Proposal), PeriodsHold', LocksHold'
    PROVE  Governed'
BY DEF Governed, TypeOK, GovTyped, SetupTyped, MoneyTyped, Log

(* Initialization starts with what it has checked, and leaves what was      *)
(* proposed and paid.                                                       *)
LEMMA InitializeKeeps ==
    ASSUME now \in Nat, MoneyTyped, SetupTyped, NEW s \in Setups, Initialize(s)
    PROVE  /\ GovTyped' /\ MoneyTyped' /\ SetupTyped' /\ PeriodsHold'
           /\ limits' \in Limit /\ timeLock' \in TimeLock
           /\ UNCHANGED <<now, proposals, requests, balance>>
<1>1. /\ s.managers \in SUBSET Address /\ s.threshold \in Nat /\ s.limits \in [Window -> Int]
      /\ s.timeLock \in TimeLock /\ s.durations \in SUBSET Nat
  BY NumberAssumption
<1>2. GovTyped'
  BY <1>1 DEF Initialize, GovTyped, ThresholdFits
<1>3. limits' \in Limit
  BY <1>1 DEF Initialize, Limit
<1>4. timeLock' \in TimeLock /\ PeriodsHold'
  BY <1>1 DEF Initialize, PeriodsHold
<1>5. SetupTyped'
  BY <1>1 DEF Initialize, SetupTyped
<1>6. withdrawn' \in [Window -> Nat] /\ lastReset' \in [Window -> 0..now]
  BY DEF Initialize
<1>7. UNCHANGED <<now, proposals, requests, balance>>
  BY DEF Initialize
<1>8. MoneyTyped'
  BY <1>6, <1>7 DEF MoneyTyped
<1> QED
  BY <1>2, <1>3, <1>4, <1>5, <1>7, <1>8

LEMMA TreasuryStays ==
    ASSUME Governed, Next
    PROVE  Governed' /\ WithdrawalsWait
<1>0. /\ now \in Nat /\ GovTyped /\ MoneyTyped /\ limits \in Limit /\ timeLock \in TimeLock
      /\ proposals \in Seq(Proposal) /\ PeriodsHold /\ LocksHold /\ SetupTyped
  BY DEF Governed, TypeOK, GovTyped, SetupTyped, MoneyTyped, Log
<1>a. UNCHANGED setupVars => SetupTyped'
  BY <1>0 DEF setupVars, SetupTyped
<1>1. CASE UNCHANGED proposals
  <2>1. WithdrawalsWait /\ LocksHold'
    BY <1>0, <1>1 DEF WithdrawalsWait, WaitsOutItsLock, LocksHold
  <2>2. CASE \E a \in Candidates : AddManager(a) \/ RemoveManager(a)
    <3>1. GovTyped'
      BY <1>0, <2>2, EnlistKeeps, DismissKeeps, NumberAssumption DEF AddManager, RemoveManager
    <3>2. UNCHANGED <<now, configVars, moneyVars>>
      BY <2>2 DEF AddManager, RemoveManager
    <3> QED
      BY <1>0, <1>a, <1>1, <2>1, <3>1, <3>2, GovernedFrom
         DEF configVars, moneyVars, MoneyTyped, PeriodsHold
  <2>3. CASE \/ \E l \in Limits : UpdateWithdrawalLimits(l)
             \/ \E t \in TimeLocks : UpdateTimeLockConfig(t)
    <3>1. limits' \in Limit /\ timeLock' \in TimeLock /\ PeriodsHold'
          /\ UNCHANGED <<now, govVars, setupVars, proposals, moneyVars>>
      BY <2>3, ConfigurationKeeps
    <3>2. GovTyped' /\ MoneyTyped'
      BY <1>0, <3>1 DEF govVars, moneyVars, GovTyped, MoneyTyped, ThresholdFits
    <3> QED
      BY <1>0, <1>a, <1>1, <2>1, <3>1, <3>2, GovernedFrom
  <2>4. ASSUME NEW k \in Asset, NEW n \in Deposits, Deposit(k, n)
        PROVE  Governed'
    <3>1. balance' \in [Asset -> Nat]
      BY <1>0, <2>4, NumberAssumption DEF Deposit, MoneyTyped
    <3>2. UNCHANGED <<now, govVars, configVars, requests, withdrawn, lastReset>>
      BY <2>4 DEF Deposit
    <3>3. GovTyped' /\ MoneyTyped' /\ PeriodsHold'
      BY <1>0, <3>1, <3>2 DEF govVars, configVars, GovTyped, MoneyTyped, ThresholdFits, PeriodsHold
    <3> QED
      BY <1>0, <1>a, <1>1, <2>1, <3>2, <3>3, GovernedFrom DEF configVars
  <2>5. CASE Tick
    <3>1. now' = now + 1 /\ UNCHANGED <<govVars, configVars, moneyVars>>
      BY <2>5 DEF Tick
    <3>2. GovTyped' /\ PeriodsHold'
      BY <1>0, <3>1 DEF govVars, configVars, GovTyped, ThresholdFits, PeriodsHold
    <3>3. MoneyTyped'
      BY <1>0, <3>1 DEF moneyVars, MoneyTyped
    <3> QED
      BY <1>0, <1>a, <1>1, <2>1, <3>1, <3>2, <3>3, GovernedFrom DEF configVars
  <2>6. ASSUME NEW id \in DOMAIN proposals, VoteOnProposal(id) \/ ExecuteProposal(id)
        PROVE  Governed'
    <3>1. GovTyped' /\ MoneyTyped'
      BY <2>6, VoteKeeps, ExecuteProposalKeeps
    <3>2. UNCHANGED <<now, configVars>>
      BY <2>6 DEF VoteOnProposal, ExecuteProposal
    <3> QED
      BY <1>0, <1>a, <1>1, <2>1, <3>1, <3>2, GovernedFrom DEF configVars, PeriodsHold
  <2>7. ASSUME NEW m \in Motions, NEW k \in Asset, NEW d \in Durations,
               CreateProposal(m.type, m.who, m.amount, k, d)
        PROVE  Governed'
    <3>1. UNCHANGED <<now, govVars, limits, timeLock, moneyVars>> /\ SetupTyped'
      BY <1>0, <2>7 DEF CreateProposal, SetupTyped
    <3>2. GovTyped' /\ MoneyTyped' /\ PeriodsHold'
      BY <1>0, <3>1 DEF govVars, moneyVars, GovTyped, MoneyTyped, ThresholdFits, PeriodsHold
    <3> QED
      BY <1>0, <1>1, <2>1, <3>1, <3>2, GovernedFrom
  <2>8. ASSUME NEW s \in Setups, Initialize(s)
        PROVE  Governed'
    BY <1>0, <1>1, <2>1, <2>8, InitializeKeeps, GovernedFrom
  <2> QED
    BY <2>1, <2>2, <2>3, <2>4, <2>5, <2>6, <2>7, <2>8 DEF Next
<1>2. ASSUME NEW id \in DOMAIN proposals, VoteOnProposal(id) \/ ExecuteProposal(id)
      PROVE  Governed' /\ WithdrawalsWait
  <2>1. /\ GovTyped' /\ MoneyTyped'
        /\ proposals' \in Seq(Proposal) /\ DOMAIN proposals' = DOMAIN proposals
        /\ \A i \in DOMAIN proposals : i # id => proposals'[i] = proposals[i]
        /\ Same(proposals[id], proposals'[id])
        /\ ~proposals[id].executed
        /\ proposals'[id].executed => now \in proposals[id].lockedUntil..proposals[id].expires
    BY <1>2, VoteKeeps, ExecuteProposalKeeps
  <2>2. LocksHold'
    BY <2>1, SamesLocked
  <2>3. UNCHANGED <<now, configVars>>
    BY <1>2 DEF VoteOnProposal, ExecuteProposal
  <2>4. Governed'
    BY <1>0, <1>a, <2>1, <2>2, <2>3, GovernedFrom DEF configVars, PeriodsHold
  <2>5. WaitsOutItsLock(proposals[id], proposals'[id])
    <3>1. /\ proposals[id].type \in Locked => proposals[id].lockedUntil > proposals[id].created
          /\ proposals[id].lockedUntil \in Nat /\ proposals[id].created \in Nat
          /\ proposals[id].expires \in Nat
      <4>1. proposals[id] \in Proposal
        BY <1>0, LenProperties, ElementOfSeq
      <4> QED
        BY <1>0, <4>1 DEF LocksHold, Proposal
    <3> QED
      BY <1>0, <2>1, <3>1 DEF WaitsOutItsLock, Same, Locked
  <2>6. ASSUME NEW i \in DOMAIN proposals, i # id
        PROVE  WaitsOutItsLock(proposals[i], proposals'[i])
    BY <2>1, <2>6 DEF WaitsOutItsLock
  <2>7. WithdrawalsWait
    BY <2>5, <2>6 DEF WithdrawalsWait
  <2> QED
    BY <2>4, <2>7
<1>3. ASSUME NEW m \in Motions, NEW k \in Asset, NEW d \in Durations,
             CreateProposal(m.type, m.who, m.amount, k, d)
      PROVE  Governed' /\ WithdrawalsWait
  <2>0. m.type \in ProposalType /\ m.who \in Address /\ m.amount \in Int /\ d \in Nat
    BY NumberAssumption
  <2>a. \E q \in Proposal : FiledAs(q, m.type, m.amount, k)
    BY <1>3, <2>0, FilingKeeps
  <2>1. PICK q \in Proposal : FiledAs(q, m.type, m.amount, k)
    BY <2>a
  <2>2. LocksHold'
    BY <1>0, <2>1 DEF LocksHold, FiledAs
  <2>3. UNCHANGED <<now, govVars, limits, timeLock, moneyVars>> /\ SetupTyped'
    BY <1>0, <1>3 DEF CreateProposal, SetupTyped
  <2>4. GovTyped' /\ MoneyTyped' /\ PeriodsHold'
    BY <1>0, <2>3 DEF govVars, moneyVars, GovTyped, MoneyTyped, ThresholdFits, PeriodsHold
  <2>5. WithdrawalsWait
    BY <2>1 DEF WithdrawalsWait, WaitsOutItsLock, FiledAs
  <2> QED
    BY <1>0, <2>1, <2>2, <2>3, <2>4, <2>5, GovernedFrom DEF FiledAs
<1>4. \/ UNCHANGED proposals
      \/ \E id \in DOMAIN proposals : VoteOnProposal(id) \/ ExecuteProposal(id)
      \/ \E m \in Motions, k \in Asset, d \in Durations : CreateProposal(m.type, m.who, m.amount, k, d)
  BY DEF Next, Initialize, AddManager, RemoveManager, UpdateWithdrawalLimits, UpdateTimeLockConfig,
         Deposit, Tick
<1> QED
  BY <1>1, <1>2, <1>3, <1>4

LEMMA TreasuryBegins == ContractsInit => TreasuryKept
<1> SUFFICES ASSUME ContractsInit, deployed = "treasury" PROVE Governed
  BY DEF TreasuryKept
<1>1. Init
  BY DEF ContractsInit
<1>2. ThresholdFits /\ PeriodsHold /\ LocksHold
  BY <1>1, InitAssumption DEF Init, ThresholdFits, PeriodsHold, LocksHold
<1>3. threshold \in Nat
  BY <1>1, <1>2, ManagersCounted, InitAssumption DEF Init, ThresholdFits
<1>4. durations \subseteq Nat
  BY <1>1, NumberAssumption DEF Init
<1>5. TypeOK
  BY <1>1, <1>3, <1>4, InitAssumption, EmptySeq DEF Init, TypeOK, Limit
<1> QED
  BY <1>2, <1>5 DEF Governed

LEMMA TreasuryStep ==
    TreasuryKept /\ [ContractsNext]_contractVars
      => TreasuryKept' /\ (deployed = "treasury" => WithdrawalsWait)
<1> SUFFICES ASSUME TreasuryKept, [ContractsNext]_contractVars, deployed = "treasury"
             PROVE  Governed' /\ WithdrawalsWait
  BY OneContract DEF TreasuryKept
<1>1. Next \/ UNCHANGED vars
  BY OneContract
<1>2. CASE UNCHANGED vars
  BY <1>2 DEF TreasuryKept, Governed, TypeOK, ThresholdFits, PeriodsHold, LocksHold, WithdrawalsWait,
              WaitsOutItsLock, vars, govVars, setupVars, configVars, moneyVars
<1> QED
  BY <1>1, <1>2, TreasuryStays DEF TreasuryKept

LEMMA TreasuryAlways == ContractsSpec => []TreasuryKept
BY TreasuryBegins, TreasuryStep, PTL DEF ContractsSpec

(* The treasury's data keep their types, whoever proposes, votes and is     *)
(* dismissed, and the threshold is one the managers left can reach.         *)
THEOREM TreasuryTyped == ContractsSpec => [](deployed = "treasury" => TypeOK /\ ThresholdFits)
<1>1. TreasuryKept => (deployed = "treasury" => TypeOK /\ ThresholdFits)
  BY DEF TreasuryKept, Governed
<1> QED
  BY <1>1, TreasuryAlways, PTL

(* A withdrawal of a locked type is paid after the period configured when   *)
(* it was proposed and before it expires.                                   *)
THEOREM LocksAreWaitedOut ==
    ContractsSpec => [][deployed = "treasury" => WithdrawalsWait]_contractVars
BY TreasuryAlways, TreasuryStep, PTL DEF ContractsSpec

(***************************************************************************)
(* Treasury: counters and limits                                           *)
(***************************************************************************)
(* The withdrawals D of the log h, with the window each fell in: r[i] is    *)
(* when the window of the i-th began.  Windows are a period p long and do   *)
(* not overlap, the last begins at last and carries out; what a window      *)
(* carried with each of its withdrawals was within the limit at that time.  *)
Amounts(h) == [i \in DOMAIN h |-> h[i].amount]
SameWindow(D, r, j) == {i \in D : i <= j /\ r[i] = r[j]}
Since(h, D, last, t) == {i \in D : h[i].at \in last..t}
Began(D, r, s) == {i \in D : r[i] = s}
Windowed(h, D, r, w, p, last, out) ==
    /\ r \in [D -> Nat]
    /\ \A i \in D : /\ r[i] <= h[i].at /\ h[i].at < r[i] + p
                    /\ r[i] = last \/ r[i] + p <= last
    /\ \A i, j \in D : r[i] = r[j] \/ r[i] + p <= r[j] \/ r[j] + p <= r[i]
    /\ \A j \in D : SumOver(Amounts(h), SameWindow(D, r, j)) <= h[j].limits[w]
    /\ out = SumOver(Amounts(h), Began(D, r, last))

Within(r, S, j) == {i \in S : r[i] = r[j]}

LEMMA LogEntry ==
    ASSUME NEW h \in Seq(Log), NEW i \in DOMAIN h
    PROVE  /\ h[i].at \in Nat /\ h[i].amount \in Nat
           /\ \A w \in Window : h[i].limits[w] \in Nat
<1>1. h[i] \in Log
  <2>1. DOMAIN h = 1..Len(h)
    BY LenProperties
  <2> QED
    BY <2>1, ElementOfSeq
<1> QED
  BY <1>1 DEF Log, Limit

LEMMA LogFinite ==
    ASSUME NEW h \in Seq(Log), NEW S \in SUBSET DOMAIN h
    PROVE  /\ IsFiniteSet(S)
           /\ \A i \in S : Amounts(h)[i] \in Nat
           /\ SumOver(Amounts(h), S) \in Nat
<1>1. DOMAIN h = 1..Len(h) /\ Len(h) \in Nat
  BY LenProperties
<1>2. IsFiniteSet(S)
  <2>1. IsFiniteSet(1..Len(h)) /\ S \in SUBSET (1..Len(h))
    BY <1>1, FS_Interval
  <2> QED
    BY <2>1, FS_Subset, Zenon
<1>3. \A i \in S : Amounts(h)[i] \in Nat
  BY LogEntry DEF Amounts
<1> QED
  BY <1>2, <1>3, SumNat

LEMMA WindowGrows ==
    ASSUME NEW h \in Seq(Log), NEW D \in SUBSET DOMAIN h, NEW r, NEW w \in Window,
           NEW p \in Nat \ {0}, NEW last \in Nat, NEW out \in Nat, Windowed(h, D, r, w, p, last, out),
           NEW e \in Log, last <= e.at,
           NEW start, start = IF e.at - last >= p THEN e.at ELSE last,
           NEW spent, spent = IF e.at - last >= p THEN 0 ELSE out,
           spent + e.amount <= e.limits[w]
    PROVE  \E q : Windowed(Append(h, e), D \cup {Len(h) + 1}, q, w, p, start, spent + e.amount)
<1> DEFINE n == Len(h) + 1
           g == Append(h, e)
           E == D \cup {n}
           q == [i \in E |-> IF i = n THEN start ELSE r[i]]
<1>1. /\ DOMAIN h = 1..Len(h) /\ Len(h) \in Nat
      /\ g \in Seq(Log) /\ DOMAIN g = DOMAIN h \cup {n} /\ n \notin DOMAIN h
      /\ g[n] = e /\ \A i \in D : g[i] = h[i]
  <2>1. /\ DOMAIN h = 1..Len(h) /\ Len(h) \in Nat /\ g \in Seq(Log) /\ Len(g) = n
        /\ g[n] = e /\ \A i \in 1..Len(h) : g[i] = h[i]
    BY AppendProperties, LenProperties
  <2>2. DOMAIN g = 1..n
    BY <2>1, LenProperties
  <2> QED
    BY <2>1, <2>2
<1>2. e.at \in Nat /\ e.amount \in Nat
  BY DEF Log
<1>3. start \in Nat /\ start <= e.at /\ e.at < start + p
  BY <1>2
<1>4. \A i \in D : /\ r[i] \in Nat /\ q[i] = r[i] /\ h[i].at \in Nat
                   /\ r[i] <= h[i].at /\ h[i].at < r[i] + p
                   /\ r[i] = last \/ r[i] + p <= last
                   /\ r[i] = start \/ r[i] + p <= start
  <2> TAKE i \in D
  <2>1. r[i] \in Nat /\ r[i] <= h[i].at /\ h[i].at < r[i] + p /\ (r[i] = last \/ r[i] + p <= last)
    BY DEF Windowed
  <2>2. q[i] = r[i] /\ i \in DOMAIN h
    BY <1>1
  <2>3. h[i].at \in Nat
    BY <2>2, LogEntry
  <2>4. r[i] = start \/ r[i] + p <= start
    BY <1>2, <2>1
  <2> QED
    BY <2>1, <2>2, <2>3, <2>4
<1>5. q[n] = start /\ q \in [E -> Nat]
  BY <1>1, <1>3, <1>4
<1> HIDE DEF g, q
<1>6. \A S \in SUBSET D : SumOver(Amounts(g), S) = SumOver(Amounts(h), S)
  <2> TAKE S \in SUBSET D
  <2>1. \A i \in S : Amounts(g)[i] = Amounts(h)[i]
    BY <1>1 DEF Amounts
  <2> QED
    BY <2>1, SumEqual
<1>7. SumOver(Amounts(g), Began(E, q, start)) = spent + e.amount
  <2> DEFINE S == Began(D, r, start)
  <2>1. Began(E, q, start) = S \cup {n} /\ n \notin S /\ S \in SUBSET D
    BY <1>1, <1>4, <1>5 DEF Began
  <2>2. SumOver(Amounts(h), S) = spent
    <3>1. CASE e.at - last >= p
      <4>1. S = {}
        <5>1. start = e.at /\ last < start
          BY <1>2, <3>1
        <5>2. ASSUME NEW i \in D PROVE r[i] # start
          <6>1. r[i] \in Nat /\ (r[i] = last \/ r[i] + p <= last)
            BY <1>4
          <6>2. r[i] <= last
            BY <6>1
          <6> QED
            BY <5>1, <6>1, <6>2
        <5> QED
          BY <5>2 DEF Began
      <4> QED
        BY <3>1, <4>1, SumEmpty
    <3>2. CASE ~(e.at - last >= p)
      BY <3>2 DEF Windowed
    <3> QED
      BY <3>1, <3>2
  <2>3. Amounts(g)[n] = e.amount
    BY <1>1 DEF Amounts
  <2>4. /\ IsFiniteSet(S \cup {n}) /\ \A i \in S \cup {n} : Amounts(g)[i] \in Nat
        /\ (S \cup {n}) \ {n} = S
    BY <1>1, <2>1, LogFinite, ZenonT(60)
  <2>5. SumOver(Amounts(g), S \cup {n}) = Amounts(g)[n] + SumOver(Amounts(g), S)
    BY <2>4, SumPick
  <2>6. spent \in Nat
    OBVIOUS
  <2>7. SumOver(Amounts(g), S) = spent
    BY <1>6, <2>1, <2>2
  <2> HIDE DEF S
  <2>8. SumOver(Amounts(g), S \cup {n}) = e.amount + spent
    BY <2>3, <2>5, <2>7
  <2>9. e.amount + spent = spent + e.amount
    BY <1>2, <2>6
  <2> QED
    BY <2>1, <2>8, <2>9, Zenon
<1>8. \A j \in E : SumOver(Amounts(g), SameWindow(E, q, j)) <= g[j].limits[w]
  <2>1. ASSUME NEW j \in D
        PROVE  SumOver(Amounts(g), SameWindow(E, q, j)) <= g[j].limits[w]
    <3>1. SameWindow(E, q, j) = SameWindow(D, r, j) /\ SameWindow(D, r, j) \in SUBSET D
      BY <1>1, <1>4 DEF SameWindow
    <3> QED
      BY <1>1, <1>6, <3>1 DEF Windowed
  <2>2. SameWindow(E, q, n) = Began(E, q, start)
    BY <1>1, <1>5 DEF SameWindow, Began
  <2> QED
    BY <1>1, <1>7, <2>1, <2>2
<1>9. \A i \in E : /\ q[i] <= g[i].at /\ g[i].at < q[i] + p
                   /\ q[i] = start \/ q[i] + p <= start
  BY <1>1, <1>3, <1>4, <1>5
<1>10. \A i, j \in E : q[i] = q[j] \/ q[i] + p <= q[j] \/ q[j] + p <= q[i]
  <2> TAKE i, j \in E
  <2>1. CASE i = n \/ j = n
    BY <1>5, <1>9, <2>1
  <2>2. CASE i \in D /\ j \in D
    BY <1>4, <2>2 DEF Windowed
  <2> QED
    BY <1>1, <2>1, <2>2
<1> QED
  BY <1>5, <1>7, <1>8, <1>9, <1>10 DEF Windowed, g, E

(* Of the log, what is in the last window is what is not before it.         *)
LEMMA WindowCounts ==
    ASSUME NEW h \in Seq(Log), NEW D \in SUBSET DOMAIN h, NEW r, NEW w, NEW p \in Nat \ {0},
           NEW last \in Nat, NEW out, Windowed(h, D, r, w, p, last, out),
           NEW t \in Nat, \A i \in D : h[i].at <= t
    PROVE  out = SumOver(Amounts(h), Since(h, D, last, t))
<1>1. \A i \in D : h[i].at \in Nat
  BY LogEntry
<1>2. Began(D, r, last) = Since(h, D, last, t)
  BY <1>1 DEF Began, Windowed, Since
<1> QED
  BY <1>2 DEF Windowed

(* The withdrawals of one window among those in S, with the last of them.   *)
LEMMA OneWindow ==
    ASSUME NEW h \in Seq(Log), NEW D \in SUBSET DOMAIN h, NEW r, NEW w \in Window, NEW p, NEW last,
           NEW out, Windowed(h, D, r, w, p, last, out), NEW S \in SUBSET D, NEW j \in S
    PROVE  \E m \in S : SumOver(Amounts(h), Within(r, S, j)) <= h[m].limits[w]
<1> DEFINE T == Within(r, S, j)
           n == Len(h)
           back == {n - i : i \in T}
<1>1. n \in Nat /\ DOMAIN h = 1..n /\ T \in SUBSET S /\ j \in T
  BY LenProperties DEF Within
<1>2. back \in SUBSET Nat /\ back # {}
  <2>1. \A i \in T : n - i \in Nat
    BY <1>1
  <2> QED
    BY <1>1, <2>1
<1>3. PICK d \in back : \A c \in back : d <= c
  BY <1>2, LeastNumber
<1>4. PICK m \in T : d = n - m
  BY <1>3
<1>5. ASSUME NEW i \in T PROVE i <= m
  <2>1. n - i \in back
    OBVIOUS
  <2>2. d <= n - i
    BY <1>3, <2>1
  <2>3. i \in Nat /\ m \in Nat
    BY <1>1, <1>4
  <2> QED
    BY <1>1, <1>4, <2>2, <2>3
<1>6. T \in SUBSET SameWindow(D, r, m) /\ SameWindow(D, r, m) \in SUBSET DOMAIN h
  BY <1>4, <1>5 DEF SameWindow, Within
<1>7. IsFiniteSet(SameWindow(D, r, m)) /\ \A i \in SameWindow(D, r, m) : Amounts(h)[i] \in Nat
  BY <1>6, LogFinite
<1> HIDE DEF T
<1>8. /\ SumOver(Amounts(h), T) \in Nat /\ SumOver(Amounts(h), SameWindow(D, r, m)) \in Nat
      /\ SumOver(Amounts(h), T) <= SumOver(Amounts(h), SameWindow(D, r, m))
  BY <1>6, <1>7, SumSubset
<1>9. h[m].limits[w] \in Nat
  BY <1>1, <1>4, LogEntry
<1>10. SumOver(Amounts(h), SameWindow(D, r, m)) <= h[m].limits[w]
  BY <1>1, <1>4 DEF Windowed
<1>11. SumOver(Amounts(h), T) <= h[m].limits[w]
  BY <1>8, <1>9, <1>10
<1> QED
  BY <1>1, <1>4, <1>11 DEF T

LEMMA NoThirdWindow ==
    ASSUME NEW p \in Nat \ {0}, NEW from \in Nat, NEW a \in Nat, NEW b \in Nat, NEW c \in Nat,
           a <= from + p - 1, from < a + p, b <= from + p - 1, from < b + p,
           c <= from + p - 1, from < c + p,
           a + p <= b \/ b + p <= a, a + p <= c \/ c + p <= a, b + p <= c \/ c + p <= b
    PROVE  FALSE
OBVIOUS

LEMMA WindowMet ==
    ASSUME NEW at \in Nat, NEW start \in Nat, NEW from \in Nat, NEW p \in Nat,
           from <= at, at <= from + p - 1, start <= at, at < start + p
    PROVE  start <= from + p - 1 /\ from < start + p
OBVIOUS

LEMMA AtMostTwice ==
    ASSUME NEW s \in Nat, NEW a \in Nat, NEW b \in Nat, NEW k \in Nat, NEW m \in Nat,
           s <= a + b, a <= k, b <= m
    PROVE  s <= 2 * k \/ s <= 2 * m
OBVIOUS

(* No stretch as long as a window meets more than two of them.              *)
LEMMA TwoWindows ==
    ASSUME NEW h \in Seq(Log), NEW D \in SUBSET DOMAIN h, NEW r, NEW w \in Window,
           NEW p \in Nat \ {0}, NEW last, NEW out, Windowed(h, D, r, w, p, last, out),
           NEW from \in Nat, NEW S, S = {i \in D : h[i].at \in from..(from + p - 1)}, S # {}
    PROVE  \E m \in S : SumOver(Amounts(h), S) <= 2 * h[m].limits[w]
<1> DEFINE f == Amounts(h)
           In(j) == Within(r, S, j)
<1>1. \A i \in S : r[i] \in Nat /\ r[i] <= from + p - 1 /\ from < r[i] + p
  <2> TAKE i \in S
  <2>1. h[i].at \in Nat /\ h[i].at >= from /\ h[i].at <= from + p - 1
    OBVIOUS
  <2>2. r[i] \in Nat /\ r[i] <= h[i].at /\ h[i].at < r[i] + p
    BY DEF Windowed
  <2>3. r[i] <= from + p - 1 /\ from < r[i] + p
    BY <2>1, <2>2, WindowMet
  <2> QED
    BY <2>2, <2>3
<1>2. S \in SUBSET D /\ S \in SUBSET DOMAIN h
  OBVIOUS
<1>3. PICK a \in S : TRUE
  OBVIOUS
<1>4. PICK j \in S : \A i \in S : r[i] = r[a] \/ r[i] = r[j]
  <2>1. CASE \A i \in S : r[i] = r[a]
    BY <1>3, <2>1
  <2>2. CASE \E j \in S : r[j] # r[a]
    <3>1. PICK j \in S : r[j] # r[a]
      BY <2>2
    <3>2. ASSUME NEW i \in S, r[i] # r[a], r[i] # r[j] PROVE FALSE
      <4>1. /\ r[i] + p <= r[j] \/ r[j] + p <= r[i]
            /\ r[i] + p <= r[a] \/ r[a] + p <= r[i]
            /\ r[j] + p <= r[a] \/ r[a] + p <= r[j]
        BY <1>2, <1>3, <3>1, <3>2 DEF Windowed
      <4>2. /\ r[i] \in Nat /\ r[i] <= from + p - 1 /\ from < r[i] + p
            /\ r[j] \in Nat /\ r[j] <= from + p - 1 /\ from < r[j] + p
            /\ r[a] \in Nat /\ r[a] <= from + p - 1 /\ from < r[a] + p
        BY <1>1, <1>3, <3>1, <3>2
      <4> QED
        BY <4>1, <4>2, NoThirdWindow
    <3> QED
      BY <3>1, <3>2
  <2> QED
    BY <2>1, <2>2
<1>5. S \in SUBSET (In(a) \cup In(j)) /\ In(a) \in SUBSET DOMAIN h /\ In(j) \in SUBSET DOMAIN h
  BY <1>2, <1>4 DEF Within
<1>6. /\ IsFiniteSet(In(a)) /\ IsFiniteSet(In(j))
      /\ \A i \in In(a) \cup In(j) : f[i] \in Nat
      /\ SumOver(f, S) \in Nat /\ SumOver(f, In(a)) \in Nat /\ SumOver(f, In(j)) \in Nat
  BY <1>2, <1>5, LogFinite
<1>7. SumOver(f, S) <= SumOver(f, In(a)) + SumOver(f, In(j))
  <2> HIDE DEF f, In
  <2> QED
    BY <1>5, <1>6, SumCovered
<1>8. PICK m \in S : SumOver(f, In(a)) <= h[m].limits[w]
  BY <1>2, <1>3, OneWindow
<1>9. PICK k \in S : SumOver(f, In(j)) <= h[k].limits[w]
  BY <1>2, <1>4, OneWindow
<1>10. h[m].limits[w] \in Nat /\ h[k].limits[w] \in Nat
  BY <1>2, LogEntry
<1> HIDE DEF f, In
<1>11. SumOver(f, S) <= 2 * h[m].limits[w] \/ SumOver(f, S) <= 2 * h[k].limits[w]
  BY <1>6, <1>7, <1>8, <1>9, <1>10, AtMostTwice
<1> QED
  BY <1>11 DEF f

(* Whatever is appended to the log, D stays divided as it was.              *)
LEMMA WindowsStay ==
    ASSUME NEW h \in Seq(Log), NEW g \in Seq(Log), NEW D \in SUBSET DOMAIN h,
           \A i \in D : g[i] = h[i], NEW r, NEW w, NEW p, NEW last, NEW out,
           Windowed(h, D, r, w, p, last, out), DOMAIN h \subseteq DOMAIN g
    PROVE  Windowed(g, D, r, w, p, last, out)
<1>1. ASSUME NEW S \in SUBSET D
      PROVE  SumOver(Amounts(g), S) = SumOver(Amounts(h), S)
  <2>1. \A i \in S : Amounts(g)[i] = Amounts(h)[i]
    BY DEF Amounts
  <2> QED
    BY <2>1, SumEqual
<1>2. \A j \in D : SameWindow(D, r, j) \in SUBSET D
  BY DEF SameWindow
<1>3. Began(D, r, last) \in SUBSET D
  BY DEF Began
<1>4. SumOver(Amounts(g), Began(D, r, last)) = SumOver(Amounts(h), Began(D, r, last))
  BY <1>1, <1>3
<1>5. \A j \in D : SumOver(Amounts(g), SameWindow(D, r, j)) = SumOver(Amounts(h), SameWindow(D, r, j))
  BY <1>1, <1>2
<1> QED
  BY <1>4, <1>5 DEF Windowed

(* Every window has such a division of what was paid under each initialize. *)
PaidUnder(s) == {i \in DOMAIN requests : requests[i].setup = s}
WindowsKept ==
    /\ \A i \in DOMAIN requests : requests[i].at <= now /\ requests[i].setup <= setups
    /\ \A w \in Window : \E r :
          Windowed(requests, PaidUnder(setups), r, w, Period[w], lastReset[w], withdrawn[w])
    /\ \A w \in Window, s \in 1..setups : \E r, last, out :
          Windowed(requests, PaidUnder(s), r, w, Period[w], last, out)
LimitsKept == deployed = "treasury" => Governed /\ WindowsKept

(* Money leaves by an execution, of a proposal as it was stored; beside     *)
(* that the counters change when the treasury is initialized.               *)
LEMMA PaidByWithdrawal ==
    ASSUME Governed, Next
    PROVE  \/ UNCHANGED <<requests, withdrawn, lastReset, setups>> /\ now' \in {now, now + 1}
           \/ UNCHANGED <<now, setups>> /\ \E q \in Proposal : Withdraw(q)
           \/ \E s \in Setups : Initialize(s)
<1>0. proposals \in Seq(Proposal) /\ DOMAIN proposals = 1..Len(proposals)
  BY LenProperties DEF Governed, TypeOK
<1>1. CASE UNCHANGED <<requests, withdrawn, lastReset, setups>> /\ now' \in {now, now + 1}
  BY <1>1
<1>2. ASSUME NEW list \in Seq(Proposal), NEW id \in DOMAIN list, Execute(list, id)
      PROVE  \/ UNCHANGED <<requests, withdrawn, lastReset>>
             \/ \E q \in Proposal : Withdraw(q)
  <2>1. list[id] \in Proposal
    BY LenProperties, ElementOfSeq
  <2>2. Carry(list[id])
    BY <1>2 DEF Execute
  <2> QED
    BY <2>1, <2>2 DEF Carry, moneyVars
<1>3. ASSUME NEW id \in DOMAIN proposals, VoteOnProposal(id)
      PROVE  \/ UNCHANGED <<requests, withdrawn, lastReset>>
             \/ \E q \in Proposal : Withdraw(q)
  <2> DEFINE voted == [proposals[id] EXCEPT !.voters = @ \cup {Self}]
             after == [proposals EXCEPT ![id] = voted]
  <2>1. proposals[id] \in Proposal /\ Self \in Address
    BY <1>0, ElementOfSeq, InitAssumption
  <2>2. voted \in Proposal
    BY <2>1 DEF Proposal
  <2>3. after \in Seq(Proposal) /\ DOMAIN after = DOMAIN proposals
    BY <1>0, <2>2, ExceptSeq, LenProperties
  <2>4. Execute(after, id) \/ UNCHANGED moneyVars
    BY <1>3 DEF VoteOnProposal
  <2> QED
    BY <1>2, <2>3, <2>4 DEF moneyVars
<1>4. ASSUME NEW id \in DOMAIN proposals, ExecuteProposal(id)
      PROVE  \/ UNCHANGED <<requests, withdrawn, lastReset>>
             \/ \E q \in Proposal : Withdraw(q)
  BY <1>0, <1>2, <1>4 DEF ExecuteProposal
<1>5. ASSUME NEW id \in DOMAIN proposals, VoteOnProposal(id) \/ ExecuteProposal(id)
      PROVE  UNCHANGED <<now, setups>>
  BY <1>5 DEF VoteOnProposal, ExecuteProposal, configVars, setupVars
<1>6. \/ UNCHANGED <<requests, withdrawn, lastReset, setups>> /\ now' \in {now, now + 1}
      \/ \E id \in DOMAIN proposals : VoteOnProposal(id) \/ ExecuteProposal(id)
      \/ \E s \in Setups : Initialize(s)
  BY DEF Next, AddManager, RemoveManager, UpdateWithdrawalLimits, UpdateTimeLockConfig,
         CreateProposal, Deposit, Tick, moneyVars, configVars, setupVars
<1> QED
  BY <1>1, <1>3, <1>4, <1>5, <1>6

LEMMA WithdrawalLogged ==
    ASSUME Governed, WindowsKept, NEW q \in Proposal, Withdraw(q), UNCHANGED <<now, setups>>
    PROVE  WindowsKept'
<1> DEFINE e == [amount |-> q.amount, at |-> now, asset |-> q.asset, limits |-> limits,
                 setup |-> setups]
           n == Len(requests) + 1
<1>1. /\ now \in Nat /\ limits \in Limit /\ MoneyTyped /\ setups \in Nat
  BY DEF Governed, TypeOK, MoneyTyped, Log
<1>2. /\ requests' = Append(requests, e)
      /\ requests \in Seq(Log) /\ requests' \in Seq(Log)
  BY <1>1, WithdrawKeeps DEF MoneyTyped
<1>3. q.amount \in Nat /\ q.asset \in Asset
  BY <1>1 DEF Proposal, Withdraw, Allowed, MoneyTyped
<1>4. e \in Log /\ e.at = now /\ e.amount = q.amount /\ e.limits = limits /\ e.setup = setups
  BY <1>1, <1>3 DEF Log
<1> HIDE DEF e
<1>a. /\ DOMAIN requests' = DOMAIN requests \cup {n} /\ n \notin DOMAIN requests
      /\ requests'[n] = e /\ \A i \in DOMAIN requests : requests'[i] = requests[i]
  <2>1. /\ DOMAIN requests = 1..Len(requests) /\ Len(requests) \in Nat
        /\ Len(requests') = Len(requests) + 1
        /\ \A i \in 1..Len(requests) : requests'[i] = requests[i]
        /\ requests'[n] = e
    BY <1>2, <1>4, AppendProperties, LenProperties
  <2>2. DOMAIN requests' = 1..n
    BY <1>2, <2>1, LenProperties
  <2> QED
    BY <2>1, <2>2
<1> HIDE DEF n
<1>5. \A i \in DOMAIN requests' : requests'[i].at <= now' /\ requests'[i].setup <= setups'
  <2>1. ASSUME NEW i \in DOMAIN requests'
        PROVE  requests'[i].at <= now' /\ requests'[i].setup <= setups'
    <3>1. CASE i = n
      BY <1>1, <1>4, <1>a, <3>1
    <3>2. CASE i \in DOMAIN requests
      BY <1>a, <3>2 DEF WindowsKept
    <3> QED
      BY <1>a, <3>1, <3>2
  <2> QED
    BY <2>1
<1>b. PaidUnder(setups)' = PaidUnder(setups) \cup {n} /\ PaidUnder(setups) \in SUBSET DOMAIN requests
  BY <1>4, <1>a DEF PaidUnder
<1>6. ASSUME NEW w \in Window
      PROVE  \E r : Windowed(requests', PaidUnder(setups)', r, w, Period[w], lastReset'[w], withdrawn'[w])
  <2>1. PICK r : Windowed(requests, PaidUnder(setups), r, w, Period[w], lastReset[w], withdrawn[w])
    BY DEF WindowsKept
  <2>2. /\ Period[w] \in Nat \ {0} /\ lastReset[w] \in Nat /\ withdrawn[w] \in Nat /\ lastReset[w] <= now
    BY <1>1, NumberAssumption DEF MoneyTyped
  <2>3. /\ lastReset'[w] = IF now - lastReset[w] >= Period[w] THEN now ELSE lastReset[w]
        /\ withdrawn'[w] = Spent(w) + q.amount
        /\ Spent(w) + q.amount <= limits[w]
        /\ Spent(w) = IF now - lastReset[w] >= Period[w] THEN 0 ELSE withdrawn[w]
    BY DEF Withdraw, Allowed, Spent, Stale
  <2>4. \E p : Windowed(Append(requests, e), PaidUnder(setups) \cup {n}, p, w, Period[w],
                       lastReset'[w], Spent(w) + e.amount)
    BY <1>2, <1>4, <1>b, <2>1, <2>2, <2>3, WindowGrows DEF n
  <2> QED
    BY <1>2, <1>4, <1>b, <2>3, <2>4
<1>7. ASSUME NEW w \in Window, NEW s \in 1..setups
      PROVE  \E r, last, out : Windowed(requests', PaidUnder(s)', r, w, Period[w], last, out)
  <2>1. CASE s = setups
    <3>1. PICK r : Windowed(requests', PaidUnder(setups)', r, w, Period[w], lastReset'[w], withdrawn'[w])
      BY <1>6
    <3>2. PaidUnder(s)' = PaidUnder(setups)'
      BY <2>1
    <3>3. Windowed(requests', PaidUnder(s)', r, w, Period[w], lastReset'[w], withdrawn'[w])
      BY <3>1, <3>2
    <3> QED
      BY <3>3
  <2>2. CASE s # setups
    <3>1. PICK r, last, out : Windowed(requests, PaidUnder(s), r, w, Period[w], last, out)
      BY DEF WindowsKept
    <3>2. PaidUnder(s)' = PaidUnder(s) /\ PaidUnder(s) \in SUBSET DOMAIN requests
      BY <1>4, <1>a, <2>2 DEF PaidUnder
    <3>3. Windowed(requests', PaidUnder(s), r, w, Period[w], last, out)
      BY <1>2, <1>a, <3>1, <3>2, WindowsStay
    <3> QED
      BY <3>1, <3>2, <3>3
  <2> QED
    BY <2>1, <2>2
<1> QED
  BY <1>5, <1>6, <1>7 DEF WindowsKept

(* After an initialize nothing is paid under it yet.                        *)
LEMMA InitializeForgets ==
    ASSUME Governed, WindowsKept, NEW s \in Setups, Initialize(s)
    PROVE  WindowsKept'
<1>1. /\ now \in Nat /\ setups \in Nat /\ requests \in Seq(Log) /\ MoneyTyped /\ SetupTyped
  BY DEF Governed, TypeOK, MoneyTyped, SetupTyped, Log
<1>2. /\ setups' = setups + 1 /\ UNCHANGED <<now, requests>>
      /\ withdrawn' = [w \in Window |-> 0] /\ lastReset' = [w \in Window |-> now]
  BY DEF Initialize
<1>3. \A i \in DOMAIN requests : requests[i].setup \in Nat /\ requests[i].setup <= setups
  <2>1. \A i \in DOMAIN requests : requests[i] \in Log
    BY <1>1, LenProperties, ElementOfSeq
  <2> QED
    BY <2>1 DEF WindowsKept, Log
<1>4. PaidUnder(setups') = {} /\ \A t : PaidUnder(t)' = PaidUnder(t)
  BY <1>1, <1>2, <1>3 DEF PaidUnder
<1>5. ASSUME NEW w \in Window
      PROVE  Windowed(requests, {}, [i \in {} |-> 0], w, Period[w], now, 0)
  <2>1. Began({}, [i \in {} |-> 0], now) = {}
    BY DEF Began
  <2> QED
    BY <2>1, SumEmpty DEF Windowed
<1>6. ASSUME NEW w \in Window
      PROVE  \E r : Windowed(requests, PaidUnder(setups'), r, w, Period[w], lastReset'[w], withdrawn'[w])
  BY <1>2, <1>4, <1>5
<1>7. ASSUME NEW w \in Window, NEW t \in 1..(setups + 1)
      PROVE  \E r, last, out : Windowed(requests, PaidUnder(t), r, w, Period[w], last, out)
  <2>1. CASE t \in 1..setups
    BY <2>1 DEF WindowsKept
  <2>2. CASE t = setups'
    <3>1. Windowed(requests, PaidUnder(t), [i \in {} |-> 0], w, Period[w], now, 0)
      BY <1>4, <1>5, <2>2
    <3> QED
      BY <3>1
  <2> QED
    BY <1>1, <1>2, <2>1, <2>2
<1>8. \A i \in DOMAIN requests : requests[i].at <= now /\ requests[i].setup <= setups + 1
  BY <1>1, <1>3 DEF WindowsKept
<1>9. PaidUnder(setups)' = PaidUnder(setups')
  BY <1>2 DEF PaidUnder
<1> QED
  BY <1>2, <1>4, <1>6, <1>7, <1>8, <1>9 DEF WindowsKept

LEMMA LimitsStay ==
    ASSUME Governed, WindowsKept, Next
    PROVE  WindowsKept'
<1>1. CASE UNCHANGED <<requests, withdrawn, lastReset, setups>> /\ now' \in {now, now + 1}
  <2>1. now \in Nat /\ now' \in Nat /\ now <= now'
    BY <1>1 DEF Governed, TypeOK
  <2>2. \A i \in DOMAIN requests : requests[i].at <= now'
    <3>1. \A i \in DOMAIN requests : requests[i].at \in Nat /\ requests[i].at <= now
      BY LogEntry DEF WindowsKept, Governed, TypeOK, Log
    <3> QED
      BY <2>1, <3>1
  <2>3. UNCHANGED <<requests, withdrawn, lastReset, setups>>
    BY <1>1
  <2>4. \A s : PaidUnder(s)' = PaidUnder(s)
    BY <2>3 DEF PaidUnder
  <2>5. PaidUnder(setups)' = PaidUnder(setups)
    BY <2>3 DEF PaidUnder
  <2> QED
    BY <2>2, <2>3, <2>4, <2>5 DEF WindowsKept
<1> QED
  BY <1>1, PaidByWithdrawal, WithdrawalLogged, InitializeForgets

(* What the totals of the log are.                                          *)
LEMMA TotalIsSum ==
    ASSUME NEW S \in SUBSET DOMAIN requests
    PROVE  Total(S) = SumOver(Amounts(requests), S)
<1>1. \A i \in S : Amounts(requests)[i] = requests[i].amount
  BY DEF Amounts
<1>2. Total(S) = AmountsIn(requests, S)
  BY DEF Total, AmountsIn, MapThenSumSet, MapThenFoldSet
<1> QED
  BY <1>1, <1>2, SumOfAmounts

LEMMA LimitsHold ==
    ASSUME Governed, WindowsKept
    PROVE  CountersMatchLog /\ RollingLimit
<1>1. /\ requests \in Seq(Log) /\ now \in Nat /\ lastReset \in [Window -> 0..now]
      /\ Period \in [Window -> Nat \ {0}] /\ \A s : PaidUnder(s) \in SUBSET DOMAIN requests
  BY NumberAssumption DEF Governed, TypeOK, Log, PaidUnder
<1>2. ASSUME NEW w \in Window
      PROVE  withdrawn[w] = Total(Between(lastReset[w], now, setups))
  <2>1. PICK r : Windowed(requests, PaidUnder(setups), r, w, Period[w], lastReset[w], withdrawn[w])
    BY DEF WindowsKept
  <2>2. \A i \in PaidUnder(setups) : requests[i].at <= now
    BY DEF WindowsKept, PaidUnder
  <2>3. Period[w] \in Nat \ {0} /\ lastReset[w] \in Nat
    BY <1>1
  <2>4. withdrawn[w] = SumOver(Amounts(requests), Since(requests, PaidUnder(setups), lastReset[w], now))
    BY <1>1, <2>1, <2>2, <2>3, WindowCounts
  <2>5. Between(lastReset[w], now, setups) = Since(requests, PaidUnder(setups), lastReset[w], now)
    BY DEF Between, Since, PaidUnder
  <2>6. Between(lastReset[w], now, setups) \in SUBSET DOMAIN requests
    BY DEF Between
  <2> QED
    BY <2>4, <2>5, <2>6, TotalIsSum
<1>3. ASSUME NEW w \in Window, NEW from \in 0..now, NEW s \in 1..setups,
             Between(from, from + Period[w] - 1, s) # {}
      PROVE  \E i \in Between(from, from + Period[w] - 1, s) :
                 Total(Between(from, from + Period[w] - 1, s)) <= 2 * requests[i].limits[w]
  <2> DEFINE S == Between(from, from + Period[w] - 1, s)
  <2>1. PICK r, last, out : Windowed(requests, PaidUnder(s), r, w, Period[w], last, out)
    BY DEF WindowsKept
  <2>2. Period[w] \in Nat \ {0} /\ from \in Nat
    BY <1>1
  <2>3. /\ S = {i \in PaidUnder(s) : requests[i].at \in from..(from + Period[w] - 1)} /\ S # {}
        /\ S \in SUBSET DOMAIN requests
    BY <1>3 DEF Between, PaidUnder
  <2> HIDE DEF S
  <2>4. \E m \in S : SumOver(Amounts(requests), S) <= 2 * requests[m].limits[w]
    <3>1. requests \in Seq(Log) /\ PaidUnder(s) \in SUBSET DOMAIN requests
      BY <1>1
    <3> QED
      BY <2>1, <2>2, <2>3, <3>1, TwoWindows, ZenonT(60)
  <2>5. Total(S) = SumOver(Amounts(requests), S)
    BY <2>3, TotalIsSum
  <2> QED
    BY <2>4, <2>5 DEF S
<1> QED
  BY <1>2, <1>3 DEF CountersMatchLog, RollingLimit

(* Treasury: the threshold can be reached, the counters are what the log    *)
(* says was paid, and no day, week or month carries more than twice the     *)
(* limit one of its withdrawals was made under.                             *)
THEOREM TreasuryWithinLimits == ContractsSpec => []TreasuryLimitsHold
<1>1. ContractsInit => LimitsKept
  <2> SUFFICES ASSUME ContractsInit, deployed = "treasury" PROVE Governed /\ WindowsKept
    BY DEF LimitsKept
  <2>1. Governed /\ Init
    BY TreasuryBegins DEF TreasuryKept, ContractsInit
  <2>2. requests = <<>> /\ DOMAIN requests = {}
    BY <2>1 DEF Init
  <2>3. ASSUME NEW w \in Window
        PROVE  /\ withdrawn[w] = 0 /\ lastReset[w] = 0
               /\ Windowed(requests, {}, [i \in {} |-> 0], w, Period[w], 0, 0)
    <3>1. withdrawn[w] = 0 /\ lastReset[w] = 0 /\ Began({}, [i \in {} |-> 0], 0) = {}
      BY <2>1 DEF Init, Began
    <3> QED
      BY <3>1, SumEmpty DEF Windowed
  <2>4. \A s : PaidUnder(s) = {}
    BY <2>2 DEF PaidUnder
  <2>5. ASSUME NEW w \in Window
        PROVE  \E r : Windowed(requests, PaidUnder(setups), r, w, Period[w], lastReset[w], withdrawn[w])
    <3>1. Windowed(requests, PaidUnder(setups), [i \in {} |-> 0], w, Period[w], lastReset[w], withdrawn[w])
      BY <2>3, <2>4
    <3> QED
      BY <3>1
  <2>6. ASSUME NEW w \in Window, NEW s \in 1..setups
        PROVE  \E r, last, out : Windowed(requests, PaidUnder(s), r, w, Period[w], last, out)
    <3>1. PaidUnder(s) = PaidUnder(setups)
      BY <2>4
    <3> QED
      BY <2>5, <3>1
  <2> QED
    BY <2>1, <2>2, <2>5, <2>6 DEF WindowsKept
<1>2. LimitsKept /\ [ContractsNext]_contractVars => LimitsKept'
  <2> SUFFICES ASSUME LimitsKept, [ContractsNext]_contractVars, deployed' = "treasury"
               PROVE  Governed' /\ WindowsKept'
    BY DEF LimitsKept
  <2>1. deployed = "treasury" /\ (Next \/ UNCHANGED vars) /\ Governed /\ WindowsKept
    BY OneContract DEF LimitsKept
  <2>2. Governed'
    BY <2>1, TreasuryStep DEF TreasuryKept
  <2>3. CASE UNCHANGED vars
    <3>1. UNCHANGED <<now, requests, withdrawn, lastReset, setups>>
      BY <2>3 DEF vars, moneyVars, configVars, setupVars
    <3>2. PaidUnder(setups)' = PaidUnder(setups) /\ \A s : PaidUnder(s)' = PaidUnder(s)
      BY <3>1 DEF PaidUnder
    <3> QED
      BY <2>1, <2>2, <3>1, <3>2 DEF WindowsKept
  <2> QED
    BY <2>1, <2>2, <2>3, LimitsStay
<1>3. LimitsKept => TreasuryLimitsHold
  BY LimitsHold DEF LimitsKept, TreasuryLimitsHold, Governed
<1> QED
  BY <1>1, <1>2, <1>3, PTL DEF ContractsSpec

(***************************************************************************)
(* Treasury: the vault                                                     *)
(***************************************************************************)
(* An execution pays what the proposal says, or nothing.                    *)
LEMMA CarryPays ==
    ASSUME balance \in [Asset -> Nat], NEW q \in Proposal, Carry(q)
    PROVE  Vlt!Pay(Filing(q))
<1>1. q.asset \in Asset /\ q.amount \in Int
  BY DEF Proposal
<1> DEFINE f == Filing(q)
<1>2. CASE q.type \in Withdrawal
  <2>1. f.asset = q.asset /\ f.amount = q.amount
    BY <1>2 DEF Filing
  <2>2. Withdraw(q)
    BY <1>2 DEF Carry, Withdrawal
  <2>3. /\ q.amount >= 0 /\ q.amount <= balance[q.asset]
        /\ balance' = [balance EXCEPT ![q.asset] = @ - q.amount]
    BY <1>1, <2>2 DEF Withdraw, Allowed
  <2> HIDE DEF f
  <2>4. CASE q.amount > 0
    BY <1>1, <2>1, <2>3, <2>4 DEF f, Vlt!Pay, Vlt!Moves
  <2>5. CASE q.amount = 0
    <3>1. balance' = balance
      BY <1>1, <2>3, <2>5
    <3> QED
      BY <2>1, <2>5, <3>1 DEF f, Vlt!Pay, Vlt!Moves
  <2> QED
    BY <1>1, <2>3, <2>4, <2>5 DEF f
<1>3. CASE q.type \notin Withdrawal
  <2>1. f.amount = 0
    BY <1>3 DEF Filing
  <2>2. balance' = balance
    BY <1>3 DEF Carry, moneyVars
  <2> HIDE DEF f
  <2>3. Vlt!Pay(f)
    BY <2>1, <2>2 DEF Vlt!Pay, Vlt!Moves
  <2> QED
    BY <2>3 DEF f
<1> QED
  BY <1>2, <1>3

LEMMA ExecuteRefines ==
    ASSUME Governed, NEW list \in Seq(Proposal), NEW id \in DOMAIN list, Execute(list, id), UNCHANGED now
    PROVE  /\ Filings(proposals') = Filings(list)
           /\ id \notin Executed(list) /\ Executed(proposals') = Executed(list) \cup {id}
           /\ Vlt!Pay(Filings(list)[id])
<1> DEFINE q == list[id]
           done == [q EXCEPT !.executed = TRUE]
<1>1. q \in Proposal
  BY LenProperties, ElementOfSeq
<1>2. Filing(done) = Filing(q) /\ done.executed
  BY <1>1 DEF Proposal, Filing
<1>3. /\ GovTyped /\ MoneyTyped /\ now \in Nat /\ limits \in Limit /\ balance \in [Asset -> Nat]
      /\ setups \in Nat
  BY DEF Governed, TypeOK, GovTyped, MoneyTyped, Log
<1>4. /\ DOMAIN proposals' = DOMAIN list
      /\ \A i \in DOMAIN list : proposals'[i] = IF i = id THEN done ELSE list[i]
  BY <1>3, ExecuteKeeps, ZenonT(60)
<1>5. ~q.executed /\ Carry(q)
  BY DEF Execute
<1>6. Vlt!Pay(Filing(q))
  BY <1>1, <1>3, <1>5, CarryPays
<1> HIDE DEF done
<1>7. Filings(proposals') = Filings(list)
  BY <1>2, <1>4 DEF Filings
<1>8. Executed(proposals') = Executed(list) \cup {id} /\ id \notin Executed(list)
  BY <1>2, <1>4, <1>5 DEF Executed
<1>9. Filings(list)[id] = Filing(q)
  BY DEF Filings
<1> QED
  BY <1>6, <1>7, <1>8, <1>9

LEMMA VoteRefines ==
    ASSUME Governed, NEW id \in DOMAIN proposals, VoteOnProposal(id)
    PROVE  /\ Filings(proposals') = Filings(proposals)
           /\ id \notin Executed(proposals)
           /\ \/ Executed(proposals') = Executed(proposals) \cup {id} /\ Vlt!Pay(Filings(proposals)[id])
              \/ Executed(proposals') = Executed(proposals) /\ UNCHANGED balance
<1> DEFINE q == proposals[id]
           voted == [q EXCEPT !.voters = @ \cup {Self}]
           after == [proposals EXCEPT ![id] = voted]
<1>1. proposals \in Seq(Proposal) /\ id \in 1..Len(proposals)
  BY LenProperties DEF Governed, TypeOK
<1>2. q \in Proposal /\ Self \in Address
  BY <1>1, ElementOfSeq, InitAssumption
<1>3. voted \in Proposal /\ Filing(voted) = Filing(q) /\ voted.executed = q.executed
  BY <1>2 DEF Proposal, Filing
<1>4. /\ ~q.executed /\ UNCHANGED now
      /\ Execute(after, id) \/ (proposals' = after /\ UNCHANGED <<govVars, moneyVars>>)
  BY DEF VoteOnProposal
<1>5. /\ after \in Seq(Proposal) /\ DOMAIN after = DOMAIN proposals
      /\ \A i \in DOMAIN proposals : after[i] = IF i = id THEN voted ELSE proposals[i]
  BY <1>1, <1>3, ExceptSeq, LenProperties
<1> HIDE DEF voted, after
<1>6. Filings(after) = Filings(proposals)
  BY <1>3, <1>5 DEF Filings
<1>7. Executed(after) = Executed(proposals)
  BY <1>3, <1>5 DEF Executed
<1>8. id \notin Executed(proposals)
  BY <1>4 DEF Executed
<1>9. CASE Execute(after, id)
  BY <1>4, <1>5, <1>6, <1>7, <1>8, <1>9, ExecuteRefines
<1>10. CASE proposals' = after /\ UNCHANGED <<govVars, moneyVars>>
  BY <1>6, <1>7, <1>8, <1>10 DEF moneyVars
<1> QED
  BY <1>4, <1>9, <1>10

LEMMA FilingRefines ==
    ASSUME Governed, NEW m \in Motions, NEW k \in Asset, NEW d \in Durations,
           CreateProposal(m.type, m.who, m.amount, k, d)
    PROVE  \E id \in DOMAIN Filings(proposals') :
               /\ id \notin DOMAIN Filings(proposals)
               /\ Filings(proposals')[id] \in [asset : Asset, amount : {a.amount : a \in Motions} \cup {0}]
               /\ Filings(proposals') = [i \in DOMAIN Filings(proposals) \cup {id} |->
                      IF i = id THEN Filings(proposals')[id] ELSE Filings(proposals)[i]]
               /\ Executed(proposals') = Executed(proposals)
<1> DEFINE id == Len(proposals) + 1
<1>1. m.type \in ProposalType /\ m.who \in Address /\ m.amount \in Int /\ d \in Nat
  BY NumberAssumption
<1>2. \E q \in Proposal : FiledAs(q, m.type, m.amount, k)
  BY <1>1, FilingKeeps
<1>3. PICK q \in Proposal : FiledAs(q, m.type, m.amount, k)
  BY <1>2
<1>4. /\ DOMAIN proposals' = DOMAIN proposals \cup {id} /\ id \notin DOMAIN proposals
      /\ \A i \in DOMAIN proposals : proposals'[i] = proposals[i]
      /\ proposals'[id] = q
  BY <1>3 DEF FiledAs
<1>5. Filing(q) \in [asset : Asset, amount : {a.amount : a \in Motions} \cup {0}] /\ ~q.executed
  BY <1>3 DEF FiledAs, Filing
<1> HIDE DEF id
<1>6. /\ DOMAIN Filings(proposals') = DOMAIN Filings(proposals) \cup {id}
      /\ DOMAIN Filings(proposals) = DOMAIN proposals
      /\ Filings(proposals')[id] = Filing(q)
      /\ \A i \in DOMAIN proposals : Filings(proposals')[i] = Filings(proposals)[i]
  BY <1>4 DEF Filings
<1>7. Filings(proposals') = [i \in DOMAIN proposals' |-> Filings(proposals')[i]]
  BY DEF Filings
<1>8. Filings(proposals') = [i \in DOMAIN Filings(proposals) \cup {id} |->
          IF i = id THEN Filings(proposals')[id] ELSE Filings(proposals)[i]]
  BY <1>4, <1>6, <1>7
<1>9. Executed(proposals') = Executed(proposals)
  BY <1>4, <1>5 DEF Executed
<1>10. id \in DOMAIN Filings(proposals') /\ id \notin DOMAIN Filings(proposals)
  BY <1>4, <1>6
<1> QED
  BY <1>5, <1>6, <1>8, <1>9, <1>10

LEMMA TreasuryRefines ==
    ASSUME Governed, Governed', Next
    PROVE  Vlt!VaultNext \/ UNCHANGED Vlt!vaultVars
<1>1. CASE UNCHANGED <<proposals, balance>>
  BY <1>1 DEF Vlt!vaultVars
<1>2. ASSUME NEW id \in DOMAIN proposals, VoteOnProposal(id) \/ ExecuteProposal(id)
      PROVE  Vlt!VaultNext \/ UNCHANGED Vlt!vaultVars
  <2>1. /\ Filings(proposals') = Filings(proposals) /\ id \notin Executed(proposals)
        /\ \/ Executed(proposals') = Executed(proposals) \cup {id} /\ Vlt!Pay(Filings(proposals)[id])
           \/ Executed(proposals') = Executed(proposals) /\ UNCHANGED balance
    <3>1. CASE VoteOnProposal(id)
      BY <3>1, VoteRefines
    <3>2. CASE ExecuteProposal(id)
      BY <3>2, ExecuteRefines DEF ExecuteProposal, Governed, TypeOK
    <3> QED
      BY <1>2, <3>1, <3>2
  <2>2. id \in DOMAIN Filings(proposals) /\ id \in DOMAIN Filings(proposals')
    BY <2>1 DEF Filings
  <2>3. CASE Executed(proposals') = Executed(proposals) \cup {id} /\ Vlt!Pay(Filings(proposals)[id])
    <3>1. Vlt!Settle(id)
      BY <2>1, <2>2, <2>3 DEF Vlt!Settle
    <3> QED
      BY <2>2, <3>1 DEF Vlt!VaultNext
  <2>4. CASE Executed(proposals') = Executed(proposals) /\ UNCHANGED balance
    BY <2>1, <2>4 DEF Vlt!vaultVars
  <2> QED
    BY <2>1, <2>3, <2>4
<1>3. ASSUME NEW m \in Motions, NEW k \in Asset, NEW d \in Durations,
             CreateProposal(m.type, m.who, m.amount, k, d)
      PROVE  Vlt!VaultNext
  <2>1. PICK id \in DOMAIN Filings(proposals') :
               /\ id \notin DOMAIN Filings(proposals)
               /\ Filings(proposals')[id] \in [asset : Asset, amount : {a.amount : a \in Motions} \cup {0}]
               /\ Filings(proposals') = [i \in DOMAIN Filings(proposals) \cup {id} |->
                      IF i = id THEN Filings(proposals')[id] ELSE Filings(proposals)[i]]
               /\ Executed(proposals') = Executed(proposals)
    BY <1>3, FilingRefines
  <2>2. balance' = balance
    BY <1>3 DEF CreateProposal, moneyVars
  <2>3. Vlt!Filed(id, Filings(proposals')[id])
    BY <2>1 DEF Vlt!Filed
  <2>4. Vlt!File(id)
    BY <2>1, <2>2, <2>3 DEF Vlt!File
  <2> QED
    BY <2>1, <2>4 DEF Vlt!VaultNext
<1>4. ASSUME NEW k \in Asset, NEW n \in Deposits, Deposit(k, n)
      PROVE  Vlt!VaultNext
  <2>1. balance' = [balance EXCEPT ![k] = @ + n] /\ UNCHANGED proposals /\ n \in Nat
    BY <1>4, NumberAssumption DEF Deposit
  <2>2. balance \in [Asset -> Nat] /\ balance' \in [Asset -> Nat]
    BY DEF Governed, TypeOK
  <2>3. \A a \in Asset : balance'[a] >= balance[a]
    BY <2>1, <2>2
  <2>4. Vlt!Receive
    BY <2>1, <2>2, <2>3 DEF Vlt!Receive
  <2> QED
    BY <2>4 DEF Vlt!VaultNext
<1>5. \/ UNCHANGED <<proposals, balance>>
      \/ \E id \in DOMAIN proposals : VoteOnProposal(id) \/ ExecuteProposal(id)
      \/ \E m \in Motions, k \in Asset, d \in Durations : CreateProposal(m.type, m.who, m.amount, k, d)
      \/ \E k \in Asset, n \in Deposits : Deposit(k, n)
  BY DEF Next, Initialize, AddManager, RemoveManager, UpdateWithdrawalLimits, UpdateTimeLockConfig, Tick,
         moneyVars
<1> QED
  BY <1>1, <1>2, <1>3, <1>4, <1>5

(* The treasury implements the vault: each proposal pays at most once and   *)
(* its amount, and money leaves in no other way.                            *)
THEOREM TreasuryImplementsVault == ContractsSpec => TreasuryIsAVault
<1>1. ContractsInit => (deployed = "treasury" => Vlt!VaultInit)
  <2> SUFFICES ASSUME ContractsInit, deployed = "treasury" PROVE Vlt!VaultInit
    OBVIOUS
  <2>1. Init /\ balance \in [Asset -> Nat]
    BY TreasuryBegins DEF ContractsInit, TreasuryKept, Governed, TypeOK
  <2>2. proposals = <<>> /\ DOMAIN proposals = {} /\ DOMAIN <<>> = {}
    BY <2>1 DEF Init
  <2> QED
    BY <2>1, <2>2 DEF Vlt!VaultInit, Filings, Executed
<1>2. TreasuryKept /\ TreasuryKept' /\ [ContractsNext]_contractVars
        => (deployed = "treasury" => Vlt!VaultNext \/ UNCHANGED Vlt!vaultVars)
  <2> SUFFICES ASSUME TreasuryKept, TreasuryKept', [ContractsNext]_contractVars, deployed = "treasury"
               PROVE  Vlt!VaultNext \/ UNCHANGED Vlt!vaultVars
    OBVIOUS
  <2>1. Governed /\ Governed' /\ (Next \/ UNCHANGED vars)
    BY OneContract DEF TreasuryKept
  <2>2. CASE UNCHANGED vars
    BY <2>2 DEF vars, moneyVars, Vlt!vaultVars
  <2> QED
    BY <2>1, <2>2, TreasuryRefines
<1> QED
  BY <1>1, <1>2, TreasuryAlways, PTL DEF ContractsSpec, TreasuryIsAVault

(***************************************************************************)
(* Vesting                                                                 *)
(***************************************************************************)
LEMMA ScheduleTypes ==
    \A s \in Schedules : /\ s.total \in Int /\ s.start \in Nat /\ s.cliff \in Nat
                         /\ s.duration \in Nat /\ s.milestone \in Int
<1>1. Schedules \subseteq [total : Int, start : Nat, cliff : Nat, duration : Nat,
                          revocable : BOOLEAN, milestone : Int]
  BY VestingAssumption
<1> QED
  BY <1>1

(* What a schedule has vested at a time.                                    *)
VestedBy(s, t) ==
    LET elapsed == t - s.start IN
    IF elapsed < s.cliff THEN 0
    ELSE IF elapsed >= s.duration THEN s.total
    ELSE (s.total * elapsed) \div s.duration

LEMMA VestedGrows ==
    ASSUME NEW s \in Schedules, Vest!Valid(s), NEW t \in Nat
    PROVE  /\ VestedBy(s, t) \in 0..s.total
           /\ VestedBy(s, t) <= VestedBy(s, t + 1)
<1>1. /\ s.total \in Nat /\ s.total > 0 /\ s.start \in Nat /\ s.cliff \in Nat
      /\ s.duration \in Nat \ {0} /\ s.cliff <= s.duration
  BY ScheduleTypes DEF Vest!Valid
<1> DEFINE e == t - s.start
           part(k) == (s.total * k) \div s.duration
<1>2. ASSUME NEW k \in Nat, k < s.duration
      PROVE  /\ part(k) \in 0..s.total
             /\ k + 1 < s.duration => part(k) <= part(k + 1)
  <2> DEFINE a == s.total * k
             b == s.total * (k + 1)
  <2>1. a \in Nat /\ b \in Nat /\ a <= b
    BY <1>1, TimesOrdered
  <2>2. a <= s.duration * s.total
    <3>1. s.total * k <= s.total * s.duration
      BY <1>1, <1>2, TimesOrdered
    <3>2. s.total * s.duration = s.duration * s.total
      BY <1>1
    <3> QED
      BY <3>1, <3>2
  <2>3. s.duration * 0 <= a
    BY <1>1, <2>1
  <2>a. part(k) = a \div s.duration /\ part(k + 1) = b \div s.duration
    OBVIOUS
  <2> HIDE DEF part, a, b
  <2>b. a \in Int /\ s.total \in Int /\ s.duration \in Nat \ {0}
    BY <1>1, <2>1
  <2>c. a \div s.duration <= s.total
    BY <2>2, <2>b, QuotientMost
  <2>d. a \div s.duration \in Int
    BY <2>b, QuotientBounds
  <2>4. part(k) <= s.total /\ part(k) \in Int
    BY <2>a, <2>c, <2>d
  <2>5. 0 <= part(k)
    BY <1>1, <2>1, <2>3, <2>a, QuotientLeast
  <2>6. part(k) <= part(k + 1)
    BY <1>1, <2>1, <2>a, QuotientOrdered
  <2> QED
    BY <1>1, <2>4, <2>5, <2>6
<1>3. e \in Int /\ (t + 1) - s.start = e + 1
  BY <1>1
<1>4. VestedBy(s, t) = IF e < s.cliff THEN 0 ELSE IF e >= s.duration THEN s.total ELSE part(e)
  BY DEF VestedBy
<1>5. VestedBy(s, t + 1) =
        IF e + 1 < s.cliff THEN 0 ELSE IF e + 1 >= s.duration THEN s.total ELSE part(e + 1)
  BY <1>3 DEF VestedBy
<1> HIDE DEF part, e
<1>6. VestedBy(s, t) \in 0..s.total
  BY <1>1, <1>2, <1>3, <1>4
<1>7. e + 1 >= s.cliff => VestedBy(s, t + 1) \in 0..s.total
  <2>1. CASE e + 1 >= s.cliff /\ e + 1 < s.duration
    <3>1. e + 1 \in Nat
      BY <1>1, <1>3, <2>1
    <3> QED
      BY <1>1, <1>2, <1>5, <2>1, <3>1
  <2> QED
    BY <1>1, <1>3, <1>5, <2>1
<1>8. CASE e >= s.cliff /\ e < s.duration /\ e + 1 < s.duration
  <2>1. e \in Nat
    BY <1>1, <1>3, <1>8
  <2>2. part(e) <= part(e + 1)
    BY <1>2, <1>8, <2>1
  <2> QED
    BY <1>1, <1>3, <1>4, <1>5, <1>6, <1>8, <2>2
<1> QED
  BY <1>1, <1>3, <1>4, <1>5, <1>6, <1>7, <1>8

Vests ==
    /\ now \in Nat
    /\ schedule \in Schedules /\ Vest!Valid(schedule)
    /\ revoked \in BOOLEAN /\ milestoneMet \in BOOLEAN
    /\ released \in Nat /\ returned \in Int /\ confirmed \in Nat /\ vault \in Int
    /\ revoked \/ returned = 0
    /\ Vest!PaidAsVested /\ Vest!TranchePerMilestone
VestingKept == deployed = "vesting" => Vests

LEMMA VestedIs == Vest!Vested = VestedBy(schedule, now) /\ Vest!Vested' = VestedBy(schedule', now')
BY DEF Vest!Vested, VestedBy

LEMMA VestedNow ==
    ASSUME Vests
    PROVE  /\ Vest!Vested \in 0..schedule.total
           /\ schedule.total \in Nat /\ schedule.milestone \in Int
           /\ UNCHANGED <<now, schedule>> => Vest!Vested' = Vest!Vested
<1>1. schedule \in Schedules /\ Vest!Valid(schedule) /\ now \in Nat
  BY DEF Vests
<1>2. schedule.total \in Nat /\ schedule.milestone \in Int
  BY <1>1, ScheduleTypes DEF Vest!Valid
<1>3. VestedBy(schedule, now) \in 0..schedule.total
  BY <1>1, VestedGrows
<1> QED
  BY <1>2, <1>3, VestedIs

LEMMA ReleaseVests == ASSUME Vests, Vest!Release PROVE Vests'
<1> DEFINE due == Vest!Vested - released
           payout == IF Vest!Tranched THEN Vest!Least(due, schedule.milestone) ELSE due
<1>1. /\ Vest!Vested \in 0..schedule.total /\ Vest!Vested' = Vest!Vested
      /\ schedule.total \in Nat /\ schedule.milestone \in Int
  BY VestedNow DEF Vest!Release
<1>2. /\ ~revoked /\ due > 0 /\ (Vest!Tranched => milestoneMet) /\ vault >= payout
      /\ released' = released + payout /\ milestoneMet' = (milestoneMet /\ ~Vest!Tranched)
      /\ vault' = vault - payout /\ UNCHANGED <<now, schedule, revoked, returned, confirmed>>
  BY DEF Vest!Release
<1>3. /\ payout \in 1..due /\ due \in Nat
      /\ Vest!Tranched => payout <= schedule.milestone
  BY <1>1, <1>2 DEF Vests, Vest!Least, Vest!Tranched
<1>4. Vest!Tranched' = Vest!Tranched
  BY <1>2 DEF Vest!Tranched
<1>5. released' \in Nat /\ released' <= Vest!Vested /\ vault' = schedule.total - released'
  BY <1>1, <1>2, <1>3 DEF Vests, Vest!PaidAsVested
<1>6. released' + returned' + vault' = schedule'.total
  BY <1>1, <1>2, <1>3 DEF Vests, Vest!PaidAsVested
<1>a. Vest!PaidAsVested'
  BY <1>1, <1>2, <1>5, <1>6 DEF Vest!PaidAsVested
<1>7. Vest!TranchePerMilestone'
  <2> SUFFICES ASSUME Vest!Tranched PROVE released' <= schedule.milestone * confirmed
    BY <1>2, <1>4, <1>5 DEF Vest!TranchePerMilestone, Vests
  <2>1. released + schedule.milestone <= schedule.milestone * confirmed
    BY <1>2 DEF Vests, Vest!TranchePerMilestone
  <2>2. schedule.milestone * confirmed \in Int
    BY <1>1 DEF Vests
  <2> QED
    BY <1>1, <1>2, <1>3, <2>1, <2>2 DEF Vests
<1>8. milestoneMet' \in BOOLEAN
  BY <1>2
<1>9. vault' \in Int
  BY <1>1, <1>5
<1> QED
  BY <1>2, <1>5, <1>8, <1>9, <1>a, <1>7 DEF Vests

LEMMA MilestoneVests == ASSUME Vests, Vest!SetMilestoneMet PROVE Vests'
<1>1. /\ milestoneMet' = TRUE /\ confirmed' = (IF milestoneMet THEN confirmed ELSE confirmed + 1)
      /\ UNCHANGED <<now, schedule, released, revoked, returned, vault>>
  BY DEF Vest!SetMilestoneMet
<1>2. Vest!PaidAsVested'
  BY <1>1, VestedIs DEF Vests, Vest!PaidAsVested
<1>3. schedule.milestone \in Int /\ confirmed \in Nat
  BY VestedNow DEF Vests
<1>4. Vest!TranchePerMilestone'
  <2>1. schedule.milestone * (confirmed + 1) = schedule.milestone * confirmed + schedule.milestone
    BY <1>3
  <2>2. schedule.milestone * confirmed \in Int
    BY <1>3 DEF Vests
  <2>3. CASE milestoneMet
    BY <1>1, <2>3 DEF Vests, Vest!TranchePerMilestone, Vest!Tranched
  <2>4. CASE ~milestoneMet
    <3> SUFFICES ASSUME Vest!Tranched, ~revoked
                 PROVE  released + schedule.milestone <= schedule.milestone * (confirmed + 1)
      BY <1>1, <2>4 DEF Vest!TranchePerMilestone, Vest!Tranched
    <3>1. released <= schedule.milestone * confirmed
      BY <2>4 DEF Vests, Vest!TranchePerMilestone
    <3> QED
      BY <1>3, <2>1, <2>2, <3>1 DEF Vests
  <2> QED
    BY <2>3, <2>4
<1>5. confirmed' \in Nat
  BY <1>1 DEF Vests
<1> QED
  BY <1>1, <1>2, <1>4, <1>5 DEF Vests

LEMMA RevokeVests == ASSUME Vests, Vest!Revoke PROVE Vests'
<1>1. /\ Vest!Vested \in 0..schedule.total /\ Vest!Vested' = Vest!Vested /\ schedule.total \in Nat
  BY VestedNow DEF Vest!Revoke
<1>2. /\ ~revoked /\ released' = (IF Vest!Vested > released THEN Vest!Vested ELSE released)
      /\ returned' = schedule.total - released'
      /\ vault' = vault - (released' - released) - returned'
      /\ revoked' = TRUE /\ UNCHANGED <<now, schedule, milestoneMet, confirmed>>
  BY DEF Vest!Revoke
<1>3. released' = Vest!Vested
  BY <1>1, <1>2 DEF Vests, Vest!PaidAsVested
<1>4. vault' = 0
  BY <1>1, <1>2, <1>3 DEF Vests, Vest!PaidAsVested
<1>5. Vest!PaidAsVested'
  BY <1>1, <1>2, <1>3, <1>4 DEF Vest!PaidAsVested
<1>6. Vest!TranchePerMilestone'
  BY <1>2 DEF Vest!TranchePerMilestone
<1>7. released' \in Nat /\ returned' \in Int /\ vault' \in Int
  BY <1>1, <1>2, <1>3, <1>4
<1> QED
  BY <1>2, <1>5, <1>6, <1>7 DEF Vests

LEMMA TimeVests == ASSUME Vests, Vest!Tick PROVE Vests'
<1>1. now' = now + 1 /\ UNCHANGED <<schedule, released, revoked, milestoneMet, returned, confirmed, vault>>
  BY DEF Vest!Tick
<1>2. Vest!Vested <= Vest!Vested' /\ Vest!Vested \in Int /\ Vest!Vested' \in Int
  <2>1. VestedBy(schedule, now) \in 0..schedule.total /\ VestedBy(schedule, now) <= VestedBy(schedule, now + 1)
    BY VestedGrows DEF Vests
  <2>2. VestedBy(schedule, now + 1) \in 0..schedule.total
    BY VestedGrows DEF Vests
  <2> QED
    BY <1>1, <2>1, <2>2, VestedIs
<1>3. Vest!PaidAsVested'
  BY <1>1, <1>2 DEF Vests, Vest!PaidAsVested
<1>4. Vest!TranchePerMilestone'
  BY <1>1 DEF Vests, Vest!TranchePerMilestone, Vest!Tranched
<1> QED
  BY <1>1, <1>3, <1>4 DEF Vests

LEMMA VestingBegins == ContractsInit => VestingKept
<1> SUFFICES ASSUME ContractsInit, deployed = "vesting" PROVE Vests
  BY DEF VestingKept
<1>1. Vest!Init /\ now = 0
  BY DEF ContractsInit
<1>2. schedule \in Schedules /\ Vest!Valid(schedule) /\ schedule.total \in Nat /\ schedule.milestone \in Int
  BY <1>1, ScheduleTypes DEF Vest!Init, Vest!Valid
<1>3. Vest!Vested \in 0..schedule.total
  BY <1>1, <1>2, VestedIs, VestedGrows
<1>4. Vest!PaidAsVested
  BY <1>1, <1>2, <1>3 DEF Vest!Init, Vest!PaidAsVested
<1>5. Vest!TranchePerMilestone
  BY <1>1, <1>2 DEF Vest!Init, Vest!TranchePerMilestone
<1>6. /\ now \in Nat /\ released \in Nat /\ returned \in Int /\ confirmed \in Nat /\ vault \in Int
      /\ returned = 0
  BY <1>1, <1>2 DEF Vest!Init
<1>7. revoked \in BOOLEAN /\ milestoneMet \in BOOLEAN
  BY <1>1 DEF Vest!Init
<1> QED
  BY <1>2, <1>4, <1>5, <1>6, <1>7 DEF Vests

LEMMA VestingAlways == ContractsSpec => []VestingKept
<1>1. VestingKept /\ [ContractsNext]_contractVars => VestingKept'
  <2> SUFFICES ASSUME VestingKept, [ContractsNext]_contractVars, deployed = "vesting" PROVE Vests'
    BY OneContract DEF VestingKept
  <2>1. Vests /\ (Vest!Next \/ UNCHANGED Vest!vars)
    BY OneContract DEF VestingKept
  <2>2. CASE UNCHANGED Vest!vars
    BY <2>1, <2>2, VestedIs DEF Vests, Vest!vars, Vest!PaidAsVested, Vest!TranchePerMilestone, Vest!Tranched
  <2> QED
    BY <2>1, <2>2, ReleaseVests, MilestoneVests, RevokeVests, TimeVests DEF Vest!Next
<1> QED
  BY <1>1, VestingBegins, PTL DEF ContractsSpec

(***************************************************************************)
(* Bridge                                                                  *)
(***************************************************************************)
LEMMA BridgeMax ==
    ASSUME NEW a \in Int, NEW b \in Int
    PROVE  Brg!Max({a, b}) = IF a >= b THEN a ELSE b
BY DEF Brg!Max

(* What c confirmations pay, if minValidators are asked for.                *)
PaysFor(c) == LET m == IF minValidators >= 1 THEN minValidators ELSE 1
              IN  IF c - m + 1 <= 0 THEN 0 ELSE c - m + 1
BridgeKept ==
    deployed = "bridge" =>
        /\ \A i \in Inbound : IsFiniteSet(validatedBy[i]) /\ count[i] = Cardinality(validatedBy[i])
        /\ DOMAIN validatedBy = Inbound /\ DOMAIN count = Inbound /\ DOMAIN payouts = Inbound
        /\ \A i \in Inbound : payouts[i] = PaysFor(count[i])

LEMMA OnQuorum == BridgeKept => (deployed = "bridge" => Brg!PaidOnQuorum)
<1> SUFFICES ASSUME BridgeKept, deployed = "bridge", NEW i \in Inbound
             PROVE  payouts[i] # 0 => Brg!Cardinality(validatedBy[i]) >= Brg!Max({1, minValidators})
  BY DEF Brg!PaidOnQuorum
<1> DEFINE c == Brg!Cardinality(validatedBy[i])
<1>1. minValidators \in Nat
  BY BridgeAssumption
<1>2. c = Cardinality(validatedBy[i])
  BY DEF Brg!Cardinality, Cardinality
<1>3. c \in Nat /\ payouts[i] = PaysFor(c)
  BY <1>2, FS_CardinalityType DEF BridgeKept
<1> HIDE DEF c
<1>4. Brg!Max({1, minValidators}) = IF minValidators >= 1 THEN minValidators ELSE 1
  BY <1>1, BridgeMax
<1> DEFINE m == Brg!Max({1, minValidators})
<1>5. m \in Int /\ PaysFor(c) = IF c - m + 1 <= 0 THEN 0 ELSE c - m + 1
  BY <1>1, <1>3, <1>4 DEF PaysFor
<1> HIDE DEF m
<1>6. payouts[i] # 0 => c >= m
  BY <1>3, <1>5
<1> QED
  BY <1>6 DEF c, m

LEMMA InboundCounted ==
    ASSUME deployed = "bridge", UNCHANGED deployed, BridgeKept,
           NEW v \in Validator, NEW i \in Inbound, NEW n \in Payouts, Brg!ValidateInbound(v, i, n)
    PROVE  BridgeKept'
<1>1. minValidators \in Nat
  BY BridgeAssumption
<1>2. /\ v \notin validatedBy[i]
      /\ validatedBy' = [validatedBy EXCEPT ![i] = @ \cup {v}]
      /\ count' = [count EXCEPT ![i] = @ + 1]
      /\ \/ count'[i] >= minValidators /\ payouts' = [payouts EXCEPT ![i] = @ + 1]
         \/ count'[i] < minValidators /\ UNCHANGED payouts
  BY DEF Brg!ValidateInbound
<1>3. /\ IsFiniteSet(validatedBy[i]) /\ count[i] = Cardinality(validatedBy[i]) /\ count[i] \in Nat
      /\ payouts[i] = PaysFor(count[i])
  BY FS_CardinalityType DEF BridgeKept
<1>4. /\ \A j \in Inbound \ {i} : /\ validatedBy'[j] = validatedBy[j] /\ count'[j] = count[j]
                                  /\ payouts'[j] = payouts[j]
      /\ validatedBy'[i] = validatedBy[i] \cup {v} /\ count'[i] = count[i] + 1
      /\ DOMAIN validatedBy' = Inbound /\ DOMAIN count' = Inbound /\ DOMAIN payouts' = Inbound
  BY <1>2 DEF BridgeKept
<1>5. IsFiniteSet(validatedBy'[i]) /\ Cardinality(validatedBy'[i]) = count[i] + 1
  BY <1>2, <1>3, <1>4, FS_AddElement
<1>6. payouts'[i] = PaysFor(count[i] + 1)
  <2>1. payouts'[i] = IF count[i] + 1 >= minValidators THEN payouts[i] + 1 ELSE payouts[i]
    BY <1>1, <1>2, <1>3, <1>4 DEF BridgeKept
  <2> QED
    BY <1>1, <1>3, <2>1 DEF PaysFor
<1> QED
  BY <1>4, <1>5, <1>6 DEF BridgeKept

(* Nothing is paid for an inbound transfer before the minimum of different  *)
(* validators confirmed it.                                                 *)
THEOREM InboundPaidOnQuorum == ContractsSpec => [](deployed = "bridge" => Brg!PaidOnQuorum)
<1>1. ContractsInit => BridgeKept
  <2> SUFFICES ASSUME ContractsInit, deployed = "bridge" PROVE BridgeKept
    BY DEF BridgeKept
  <2>1. Brg!Init
    BY DEF ContractsInit
  <2>2. minValidators \in Nat
    BY BridgeAssumption
  <2>3. PaysFor(0) = 0
    BY <2>2 DEF PaysFor
  <2> QED
    BY <2>1, <2>3, FS_EmptySet DEF Brg!Init, BridgeKept
<1>2. BridgeKept /\ [ContractsNext]_contractVars => BridgeKept'
  <2> SUFFICES ASSUME BridgeKept, [ContractsNext]_contractVars, deployed = "bridge" PROVE BridgeKept'
    BY OneContract DEF BridgeKept
  <2>1. UNCHANGED deployed /\ (Brg!Next \/ UNCHANGED Brg!vars)
    BY OneContract
  <2>2. CASE UNCHANGED <<validatedBy, count, payouts>>
    BY <2>1, <2>2 DEF BridgeKept
  <2>3. \/ UNCHANGED <<validatedBy, count, payouts>>
        \/ \E v \in Validator, i \in Inbound, n \in Payouts : Brg!ValidateInbound(v, i, n)
    BY <2>1 DEF Brg!Next, Brg!vars, Brg!AddValidator, Brg!RemoveValidator, Brg!AddSupportedChain,
                Brg!Lock, Brg!ReclaimExpired, Brg!Tick
  <2> QED
    BY <2>1, <2>2, <2>3, InboundCounted
<1> QED
  BY <1>1, <1>2, OnQuorum, PTL DEF ContractsSpec

(***************************************************************************)
(* Batched import                                                          *)
(***************************************************************************)
ImportStatus == {"Pending", "InProgress", "Completed", "Failed", "RolledBack"}
Import == [total : Nat, processed : Nat, failed : Nat, status : ImportStatus]
EntriesOf(id, set) == {e \in set : e[1] = id}

(* What the entries and the data stored for the import id say about it.     *)
Told(id, op, entries, errors, data) ==
    /\ EntriesOf(id, entries) = {<<id, i>> : i \in 0..(op.processed - 1)}
    /\ op.failed = 0 <=> EntriesOf(id, errors) = {}
    /\ op.status = "Completed" => op.failed = 0 /\ op.processed >= op.total
    /\ op.status = "Failed" => op.failed > 0
    /\ op.status # "RolledBack" => id \in data

AllTold ==
    /\ imports \in Seq(Import)
    /\ \A e \in rollbackData \cup importErrors : e[1] \in DOMAIN imports
    /\ \A id \in DOMAIN imports : Told(id, imports[id], rollbackData, importErrors, importData)
ImportKept == deployed = "import" => AllTold

LEMMA ImportWhole == AllTold => Ext!OutcomeIsWhole
<1> SUFFICES ASSUME AllTold, NEW id \in DOMAIN imports
             PROVE  /\ imports[id].status = "Completed" =>
                           /\ imports[id].processed >= imports[id].total
                           /\ EntriesOf(id, rollbackData) = {<<id, i>> : i \in 0..(imports[id].processed - 1)}
                           /\ EntriesOf(id, importErrors) = {}
                    /\ imports[id].status = "Failed" => EntriesOf(id, importErrors) # {}
                    /\ imports[id].status # "RolledBack" => id \in importData
  BY DEF Ext!OutcomeIsWhole, Ext!Recorded, Ext!Erring, EntriesOf
<1>1. Told(id, imports[id], rollbackData, importErrors, importData) /\ imports[id] \in Import
  BY LenProperties, ElementOfSeq DEF AllTold
<1> QED
  BY <1>1 DEF Told, Import

(* Other imports are not concerned by what is stored for one.               *)
LEMMA OthersTold ==
    ASSUME NEW id, NEW other, other # id, NEW op, NEW entries, NEW errors, NEW data,
           NEW more, NEW wrong, NEW left,
           \A e \in more \cup wrong : e[1] = id, data \ {id} \subseteq left,
           Told(other, op, entries, errors, data)
    PROVE  Told(other, op, entries \cup more, errors \cup wrong, left)
<1>1. EntriesOf(other, entries \cup more) = EntriesOf(other, entries)
  BY DEF EntriesOf
<1>2. EntriesOf(other, errors \cup wrong) = EntriesOf(other, errors)
  BY DEF EntriesOf
<1>3. other \in data => other \in left
  OBVIOUS
<1> QED
  BY <1>1, <1>2, <1>3 DEF Told

LEMMA StartTold ==
    ASSUME AllTold, NEW u, NEW total \in Totals, Ext!StartImport(u, total)
    PROVE  AllTold'
<1> DEFINE op == [total |-> total, processed |-> 0, failed |-> 0, status |-> "Pending"]
           id == Len(imports) + 1
<1>1. total \in Nat
  BY ImportAssumption
<1>2. imports' = Append(imports, op) /\ importData' = importData \cup {id}
      /\ UNCHANGED <<rollbackData, importErrors>>
  BY DEF Ext!StartImport
<1>3. op \in Import
  BY <1>1 DEF Import, ImportStatus
<1>4. /\ imports \in Seq(Import) /\ id \notin DOMAIN imports
      /\ imports' \in Seq(Import) /\ DOMAIN imports' = DOMAIN imports \cup {id}
      /\ imports'[id] = op /\ \A i \in DOMAIN imports : imports'[i] = imports[i]
  <2> HIDE DEF op
  <2>1. imports \in Seq(Import) /\ Len(imports) \in Nat /\ DOMAIN imports = 1..Len(imports)
    BY LenProperties DEF AllTold
  <2>2. imports' \in Seq(Import) /\ Len(imports') = id /\ DOMAIN imports' = 1..id
        /\ imports'[id] = op /\ \A i \in 1..Len(imports) : imports'[i] = imports[i]
    BY <1>2, <1>3, <2>1, AppendProperties
  <2> QED
    BY <2>1, <2>2
<1>5. EntriesOf(id, rollbackData) = {} /\ EntriesOf(id, importErrors) = {}
  BY <1>4 DEF AllTold, EntriesOf
<1>6. Told(id, op, rollbackData, importErrors, importData')
  BY <1>2, <1>5 DEF Told
<1>7. ASSUME NEW i \in DOMAIN imports
      PROVE  Told(i, imports[i], rollbackData, importErrors, importData')
  BY <1>2 DEF AllTold, Told
<1> HIDE DEF op, id
<1> QED
  BY <1>2, <1>4, <1>6, <1>7 DEF AllTold

(* One import changes, and what is stored for it.                           *)
LEMMA OneChangeTold ==
    ASSUME AllTold, NEW id \in DOMAIN imports, NEW op \in Import,
           imports' = [imports EXCEPT ![id] = op],
           NEW more, NEW wrong, \A e \in more \cup wrong : e[1] = id,
           rollbackData' = rollbackData \cup more, importErrors' = importErrors \cup wrong,
           importData \ {id} \subseteq importData',
           Told(id, op, rollbackData', importErrors', importData')
    PROVE  AllTold'
<1>1. /\ imports' \in Seq(Import) /\ DOMAIN imports' = DOMAIN imports
      /\ \A i \in DOMAIN imports : imports'[i] = IF i = id THEN op ELSE imports[i]
  BY LenProperties, ExceptSeq DEF AllTold
<1>2. \A e \in rollbackData' \cup importErrors' : e[1] \in DOMAIN imports
  BY DEF AllTold
<1>3. ASSUME NEW i \in DOMAIN imports, i # id
      PROVE  Told(i, imports[i], rollbackData', importErrors', importData')
  <2>1. Told(i, imports[i], rollbackData, importErrors, importData)
    BY DEF AllTold
  <2> QED
    BY <1>3, <2>1, OthersTold
<1> QED
  BY <1>1, <1>2, <1>3 DEF AllTold

LEMMA BatchTold ==
    ASSUME AllTold, NEW u, NEW id \in DOMAIN imports, NEW size \in Batches, NEW valid \in BOOLEAN,
           Ext!ProcessBatch(u, id, size, valid)
    PROVE  AllTold'
<1> DEFINE was == imports[id]
           items == Ext!ItemsOf(id, size)
           ran == IF valid THEN [was EXCEPT !.processed = @ + size] ELSE [was EXCEPT !.failed = @ + size]
           op == [ran EXCEPT !.status = Ext!Afterwards(ran)]
           more == IF valid THEN items ELSE {}
           wrong == IF valid THEN {} ELSE items
<1>1. /\ size \in 1..IMPORT_BATCH_SIZE /\ was.status \in {"Pending", "InProgress"}
      /\ imports' = [imports EXCEPT ![id] = op] /\ importData' = importData
      /\ rollbackData' = rollbackData \cup more /\ importErrors' = importErrors \cup wrong
  BY DEF Ext!ProcessBatch
<1>2. size \in Nat /\ size > 0
  BY <1>1, ImportAssumption
<1>3. was \in Import
  BY LenProperties, ElementOfSeq DEF AllTold
<1>4. items = {<<id, was.processed + i>> : i \in 0..(size - 1)}
  BY DEF Ext!ItemsOf
<1>5. Told(id, was, rollbackData, importErrors, importData)
  BY DEF AllTold
<1>6. /\ ran \in Import /\ ran.total = was.total
      /\ ran.processed = (IF valid THEN was.processed + size ELSE was.processed)
      /\ ran.failed = (IF valid THEN was.failed ELSE was.failed + size)
  BY <1>2, <1>3 DEF Import
<1> HIDE DEF ran
<1>7. Ext!Afterwards(ran) \in ImportStatus
  BY DEF Ext!Afterwards, ImportStatus
<1>8. /\ op \in Import /\ op.total = ran.total /\ op.processed = ran.processed /\ op.failed = ran.failed
      /\ op.status = Ext!Afterwards(ran)
  BY <1>6, <1>7 DEF Import
<1>9. \A e \in more \cup wrong : e[1] = id
  BY <1>4
<1> HIDE DEF op, was
<1>10. EntriesOf(id, rollbackData') = {<<id, i>> : i \in 0..(op.processed - 1)}
  <2>1. EntriesOf(id, rollbackData) = {<<id, i>> : i \in 0..(was.processed - 1)}
    BY <1>5 DEF Told
  <2>2. CASE valid
    <3>1. EntriesOf(id, rollbackData') = EntriesOf(id, rollbackData) \cup items
      BY <1>1, <1>9, <2>2 DEF EntriesOf
    <3>2. was.processed \in Nat /\ op.processed = was.processed + size
      BY <1>3, <1>6, <1>8, <2>2 DEF Import
    <3> HIDE DEF items
    <3>3. \A k \in 0..(was.processed + size - 1) :
              k \in 0..(was.processed - 1) \/ \E i \in 0..(size - 1) : k = was.processed + i
      <4> SUFFICES ASSUME NEW k \in 0..(was.processed + size - 1), k \notin 0..(was.processed - 1)
                   PROVE  k - was.processed \in 0..(size - 1) /\ k = was.processed + (k - was.processed)
        OBVIOUS
      <4> QED
        BY <1>2, <3>2
    <3>4. \A i \in 0..(size - 1) : was.processed + i \in 0..(was.processed + size - 1)
      BY <1>2, <3>2
    <3>5. 0..(was.processed - 1) \subseteq 0..(was.processed + size - 1)
      BY <1>2, <3>2
    <3> DEFINE A == 0..(was.processed - 1)
               B == 0..(size - 1)
               C == 0..(was.processed + size - 1)
    <3> HIDE DEF A, B, C
    <3>6. {<<id, i>> : i \in A} \cup {<<id, was.processed + i>> : i \in B} = {<<id, i>> : i \in C}
      <4>1. ASSUME NEW k \in C
            PROVE  <<id, k>> \in {<<id, i>> : i \in A} \cup {<<id, was.processed + i>> : i \in B}
        BY <3>3 DEF A, B, C
      <4>2. ASSUME NEW k \in A PROVE <<id, k>> \in {<<id, i>> : i \in C}
        BY <3>5 DEF A, C
      <4>3. ASSUME NEW k \in B PROVE <<id, was.processed + k>> \in {<<id, i>> : i \in C}
        BY <3>4 DEF B, C
      <4> QED
        BY <4>1, <4>2, <4>3, Zenon
    <3>7. 0..(op.processed - 1) = C
      BY <1>2, <3>2 DEF C
    <3>8. items = {<<id, was.processed + i>> : i \in B}
      BY <1>4 DEF B
    <3>9. EntriesOf(id, rollbackData) = {<<id, i>> : i \in A}
      BY <2>1 DEF A
    <3> QED
      BY <3>1, <3>6, <3>7, <3>8, <3>9, Zenon
  <2>3. CASE ~valid
    BY <1>1, <1>6, <1>8, <2>1, <2>3
  <2> QED
    BY <2>2, <2>3
<1>11. op.failed = 0 <=> EntriesOf(id, importErrors') = {}
  <2>1. was.failed = 0 <=> EntriesOf(id, importErrors) = {}
    BY <1>5 DEF Told
  <2>2. CASE valid
    BY <1>1, <1>6, <1>8, <2>1, <2>2
  <2>3. CASE ~valid
    <3>0. 0 \in 0..(size - 1)
      BY <1>2
    <3>1. <<id, was.processed + 0>> \in items
      BY <1>4, <3>0
    <3>2. EntriesOf(id, importErrors') # {}
      BY <1>1, <1>9, <2>3, <3>1 DEF EntriesOf
    <3>3. op.failed # 0
      BY <1>2, <1>3, <1>6, <1>8, <2>3 DEF Import
    <3> QED
      BY <3>2, <3>3
  <2> QED
    BY <2>2, <2>3
<1>12. /\ op.status = "Completed" => op.failed = 0 /\ op.processed >= op.total
       /\ op.status = "Failed" => op.failed > 0
       /\ op.status # "RolledBack"
  BY <1>6, <1>8 DEF Ext!Afterwards, Import
<1>13. id \in importData'
  BY <1>1, <1>5 DEF Told
<1>14. Told(id, op, rollbackData', importErrors', importData')
  BY <1>10, <1>11, <1>12, <1>13 DEF Told
<1> HIDE DEF more, wrong
<1> QED
  BY <1>1, <1>8, <1>9, <1>14, OneChangeTold

LEMMA RollbackTold ==
    ASSUME AllTold, NEW u, NEW id \in DOMAIN imports, Ext!RollbackImport(u, id)
    PROVE  AllTold'
<1> DEFINE was == imports[id]
           op == [was EXCEPT !.status = "RolledBack"]
<1>1. /\ imports' = [imports EXCEPT ![id] = op] /\ importData' = importData \ {id}
      /\ rollbackData' = rollbackData \cup {} /\ importErrors' = importErrors \cup {}
  BY DEF Ext!RollbackImport
<1>2. was \in Import
  BY LenProperties, ElementOfSeq DEF AllTold
<1>3. /\ op \in Import /\ op.processed = was.processed /\ op.failed = was.failed /\ op.status = "RolledBack"
  BY <1>2 DEF Import, ImportStatus
<1>4. Told(id, was, rollbackData, importErrors, importData)
  BY DEF AllTold
<1> HIDE DEF op, was
<1>5. Told(id, op, rollbackData', importErrors', importData')
  BY <1>1, <1>3, <1>4 DEF Told
<1> QED
  BY <1>1, <1>3, <1>5, OneChangeTold

LEMMA ImportBegins == ContractsInit => ImportKept
<1> SUFFICES ASSUME ContractsInit, deployed = "import" PROVE AllTold
  BY DEF ImportKept
<1>1. imports = <<>> /\ rollbackData = {} /\ importErrors = {}
  BY DEF ContractsInit, Ext!ImportInit
<1> QED
  BY <1>1, EmptySeq DEF AllTold

LEMMA ImportAlways == ContractsSpec => []ImportKept
<1>1. ImportKept /\ [ContractsNext]_contractVars => ImportKept'
  <2> SUFFICES ASSUME ImportKept, [ContractsNext]_contractVars, deployed = "import" PROVE AllTold'
    BY OneContract DEF ImportKept
  <2>1. AllTold /\ (Ext!ImportNext \/ UNCHANGED <<ownerVars, importVars>>)
    BY OneContract DEF ImportKept
  <2>2. CASE UNCHANGED importVars
    BY <2>1, <2>2 DEF AllTold, importVars
  <2>3. \/ UNCHANGED importVars
        \/ \E u \in Owner, n \in Totals : Ext!StartImport(u, n)
        \/ \E u \in Owner, id \in DOMAIN imports, n \in Batches, ok \in BOOLEAN : Ext!ProcessBatch(u, id, n, ok)
        \/ \E u \in Owner, id \in DOMAIN imports : Ext!RollbackImport(u, id)
    BY <2>1 DEF Ext!ImportNext, Ext!Core, Ext!FreezeOrThaw, Ext!OwnersChange, Ext!importVars, importVars
  <2> QED
    BY <2>1, <2>2, <2>3, StartTold, BatchTold, RollbackTold
<1> QED
  BY <1>1, ImportBegins, PTL DEF ContractsSpec

(***************************************************************************)
(* Oracle                                                                  *)
(***************************************************************************)
LEMMA HasLeast ==
    ASSUME NEW S, IsFiniteSet(S), NEW k \in Int, \A t \in S : t \in Int, S # {}
    PROVE  \E m \in S : \A t \in S : k * m <= k * t
<1> DEFINE Off(s) == s # {} /\ \A m \in s : \E t \in s : ~(k * m <= k * t)
           Bad == {n \in Nat : \E s \in SUBSET S : Cardinality(s) = n /\ Off(s)}
<1>0. \A t \in S : k * t \in Int
  OBVIOUS
<1>1. ASSUME Bad # {} PROVE FALSE
  <2>1. PICK n \in Bad : \A m \in Bad : n <= m
    BY <1>1, LeastNumber
  <2>2. PICK s \in SUBSET S : Cardinality(s) = n /\ Off(s)
    BY <2>1
  <2>3. PICK a \in s : TRUE
    BY <2>2
  <2> DEFINE r == s \ {a}
  <2>a. IsFiniteSet(s) /\ r \in SUBSET S /\ a \in s
    BY <2>2, <2>3, FS_Subset
  <2>4. IsFiniteSet(s) /\ r \in SUBSET S /\ Cardinality(r) = n - 1 /\ n - 1 \in Nat
    <3>1. Cardinality(s) = n /\ n \in Nat
      BY <2>2
    <3> HIDE DEF Off, Bad
    <3>2. Cardinality(r) = n - 1 /\ Cardinality(r) \in Nat
      BY <2>a, <3>1, FS_RemoveElement, FS_CardinalityType
    <3> QED
      BY <2>a, <3>2
  <2>5. ~Off(r)
    <3> HIDE DEF Off
    <3>1. n - 1 \notin Bad
      BY <2>1, <2>4
    <3> QED
      BY <2>4, <3>1
  <2>6. k * a <= k * a /\ k * a \in Int
    BY <1>0, <2>2, <2>3
  <2>7. CASE r = {}
    BY <2>2, <2>3, <2>6, <2>7
  <2>8. CASE r # {}
    <3>1. PICK b \in r : \A t \in r : k * b <= k * t
      BY <2>5, <2>8
    <3>2. k * b \in Int /\ b \in s
      BY <1>0, <2>4
    <3>3. CASE k * a <= k * b
      <4>1. \A t \in s : k * a <= k * t
        BY <1>0, <2>2, <2>6, <3>1, <3>2, <3>3
      <4> QED
        BY <2>2, <2>3, <4>1
    <3>4. CASE ~(k * a <= k * b)
      <4>1. \A t \in s : k * b <= k * t
        BY <1>0, <2>2, <2>6, <3>1, <3>2, <3>4
      <4> QED
        BY <2>2, <3>2, <4>1
    <3> QED
      BY <3>3, <3>4
  <2> QED
    BY <2>7, <2>8
<1>2. Cardinality(S) \in Nat
  BY FS_CardinalityType
<1>3. ~Off(S)
  <2> HIDE DEF Off
  <2> QED
    BY <1>1, <1>2
<1> QED
  BY <1>3

(* The prices stored lie between the least and the largest.                 *)
LEMMA PricesBetween ==
    ASSUME NEW P, IsFiniteSet(P), P # {}, \A t \in P : t \in Int
    PROVE  /\ Orc!Min(P) \in P /\ Orc!Max(P) \in P
           /\ \A t \in P : Orc!Min(P) <= t /\ t <= Orc!Max(P)
<1>1. PICK lo \in P : \A t \in P : 1 * lo <= 1 * t
  BY HasLeast
<1>2. PICK hi \in P : \A t \in P : (-1) * hi <= (-1) * t
  BY HasLeast
<1>3. \A t \in P : lo <= t
  BY <1>1
<1>4. \A t \in P : hi >= t
  BY <1>2
<1>5. Orc!Min(P) \in P /\ \A t \in P : Orc!Min(P) <= t
  BY <1>3 DEF Orc!Min
<1>6. Orc!Max(P) \in P /\ \A t \in P : Orc!Max(P) >= t
  BY <1>4 DEF Orc!Max
<1> QED
  BY <1>5, <1>6

Submissions(sub) == /\ sub \in [Provider -> Prices \cup {none}]
                    /\ \A p \in Provider : sub[p] # none => sub[p] > 0

LEMMA SubmittedFinite ==
    ASSUME NEW sub, Submissions(sub)
    PROVE  /\ IsFiniteSet(Orc!Submitted(sub))
           /\ Orc!Cardinality(Orc!Submitted(sub)) = Cardinality(Orc!Submitted(sub))
           /\ Cardinality(Orc!Submitted(sub)) \in Nat
           /\ \A p \in Orc!Submitted(sub) : sub[p] \in Int /\ sub[p] > 0 /\ sub[p] \in Prices
           /\ IsFiniteSet({sub[p] : p \in Orc!Submitted(sub)})
<1>1. IsFiniteSet(Provider) /\ Prices \subseteq Int
  BY OracleAssumption
<1> DEFINE S == Orc!Submitted(sub)
<1>2. IsFiniteSet(S)
  <2>1. S \in SUBSET Provider
    BY DEF Orc!Submitted
  <2> QED
    BY <1>1, <2>1, FS_Subset, Zenon
<1>3. \A p \in S : sub[p] \in Prices /\ sub[p] > 0
  BY DEF Submissions, Orc!Submitted
<1> HIDE DEF S
<1>4. IsFiniteSet({sub[p] : p \in S})
  <2> DEFINE h == [p \in S |-> sub[p]]
  <2>1. h \in Surjection(S, {sub[p] : p \in S})
    BY DEF Surjection
  <2> HIDE DEF h
  <2> QED
    BY <1>2, <2>1, FS_Surjection
<1>5. Orc!Cardinality(S) = Cardinality(S)
  BY DEF Orc!Cardinality, Cardinality
<1> QED
  BY <1>1, <1>2, <1>3, <1>4, <1>5, FS_CardinalityType DEF S

(* A median is one of the prices.                                           *)
LEMMA MedianSubmitted ==
    ASSUME NEW sub, Submissions(sub), NEW m \in Int, Orc!IsMedian(m, sub)
    PROVE  \E p \in Orc!Submitted(sub) : sub[p] = m
<1> SUFFICES ASSUME \A p \in Orc!Submitted(sub) : sub[p] # m PROVE FALSE
  OBVIOUS
<1> DEFINE S == Orc!Submitted(sub)
           below == {p \in S : sub[p] < m}
           upTo == {p \in S : sub[p] <= m}
<1>1. Orc!Cardinality(S) \div 2 \in Orc!Cardinality(below)..(Orc!Cardinality(upTo) - 1)
  BY DEF Orc!IsMedian
<1>2. \A p \in S : sub[p] \in Int
  BY SubmittedFinite
<1>3. IsFiniteSet(below) /\ IsFiniteSet(upTo)
  <2>1. IsFiniteSet(S) /\ below \in SUBSET S /\ upTo \in SUBSET S
    BY SubmittedFinite
  <2> QED
    BY <2>1, FS_Subset, Zenon
<1>4. /\ Orc!Cardinality(below) = Cardinality(below) /\ Orc!Cardinality(upTo) = Cardinality(upTo)
      /\ Cardinality(below) \in Nat /\ Cardinality(upTo) \in Nat
  BY <1>3, FS_CardinalityType DEF Orc!Cardinality, Cardinality
<1>5. upTo = below
  BY <1>2
<1> HIDE DEF S, below, upTo
<1> QED
  BY <1>1, <1>4, <1>5

OracleKept ==
    deployed = "oracle" =>
        /\ Submissions(submissions)
        /\ feed \in Prices \cup {none}
        /\ Orc!FeedIsAgreed

LEMMA EnoughProviders ==
    ASSUME NEW n \in Nat
    PROVE  n >= Orc!Max({1, min_providers}) <=> n >= 1 /\ n >= min_providers
<1>1. min_providers \in Nat
  BY OracleAssumption
<1> DEFINE m == Orc!Max({1, min_providers})
<1>2. m \in {1, min_providers} /\ m >= 1 /\ m >= min_providers
  BY <1>1 DEF Orc!Max
<1> HIDE DEF m
<1> QED
  BY <1>1, <1>2 DEF m

LEMMA SubmissionAgrees ==
    ASSUME deployed = "oracle", OracleKept, NEW p \in Provider, NEW price \in Prices,
           Orc!SubmitPrice(p, price)
    PROVE  /\ Submissions(submissions') /\ feed' \in Prices \cup {none} /\ Orc!FeedIsAgreed'
           /\ submissions' = [submissions EXCEPT ![p] = price]
           /\ p \in Orc!Submitted(submissions')
<1> DEFINE sub == [submissions EXCEPT ![p] = price]
           enough == Orc!Cardinality(Orc!Submitted(sub)) >= min_providers
<1>1. /\ price > 0 /\ submissions' = sub
      /\ \/ enough /\ \E m \in Prices : Orc!IsMedian(m, sub) /\ Orc!Agree(m, sub) /\ feed' = m
         \/ Orc!Cardinality(Orc!Submitted(sub)) < min_providers /\ UNCHANGED feed
  BY DEF Orc!SubmitPrice
<1>2. none \notin Prices /\ min_providers \in Nat
  BY AbsentAssumption, OracleAssumption
<1>3. Submissions(submissions) /\ feed \in Prices \cup {none} /\ Orc!FeedIsAgreed
  BY DEF OracleKept
<1>4. Submissions(sub) /\ sub[p] # none
  BY <1>1, <1>2, <1>3 DEF Submissions
<1> DEFINE was == Orc!Submitted(submissions)
           is == Orc!Submitted(sub)
<1>5. p \in is /\ was \in SUBSET is
  BY <1>3, <1>4 DEF Orc!Submitted, Submissions
<1>6. /\ IsFiniteSet(is) /\ Orc!Cardinality(is) = Cardinality(is) /\ Cardinality(is) \in Nat
      /\ IsFiniteSet(was) /\ Orc!Cardinality(was) = Cardinality(was) /\ Cardinality(was) \in Nat
  BY <1>3, <1>4, SubmittedFinite
<1> HIDE DEF is, was, sub
<1>7. Cardinality(is) >= 1 /\ Cardinality(was) <= Cardinality(is)
  <2>1. Cardinality(was) <= Cardinality(is)
    BY <1>5, <1>6, FS_Subset
  <2>2. Cardinality(is) # 0
    BY <1>5, <1>6, FS_EmptySet
  <2> QED
    BY <1>6, <2>1, <2>2
<1>8. feed' \in Prices \cup {none}
  BY <1>1, <1>3
<1>9. Orc!FeedIsAgreed'
  <2>1. CASE Cardinality(is) >= min_providers
    <3>1. feed' # none /\ Orc!IsMedian(feed', sub) /\ Orc!Agree(feed', sub)
      BY <1>1, <1>2, <1>6, <2>1 DEF is
    <3>2. Orc!Cardinality(Orc!Submitted(submissions')) >= Orc!Max({1, min_providers})
      BY <1>1, <1>6, <1>7, <2>1, EnoughProviders DEF is
    <3> QED
      BY <1>1, <3>1, <3>2 DEF Orc!FeedIsAgreed
  <2>2. CASE Cardinality(is) < min_providers
    <3>1. ~(Cardinality(was) >= min_providers)
      BY <1>2, <1>6, <1>7, <2>2
    <3>2. feed = none
      BY <1>3, <1>6, <3>1, EnoughProviders DEF Orc!FeedIsAgreed, was
    <3>3. feed' = none
      BY <1>1, <1>2, <1>6, <2>2, <3>2 DEF is
    <3>4. ~(Orc!Cardinality(Orc!Submitted(submissions')) >= Orc!Max({1, min_providers}))
      BY <1>1, <1>2, <1>6, <2>2, EnoughProviders DEF is
    <3> QED
      BY <3>3, <3>4 DEF Orc!FeedIsAgreed
  <2> QED
    BY <1>2, <1>6, <2>1, <2>2
<1>10. p \in Orc!Submitted(submissions')
  BY <1>1, <1>5 DEF is
<1> QED
  BY <1>1, <1>4, <1>8, <1>9, <1>10 DEF sub

LEMMA OracleStep ==
    ASSUME OracleKept, [ContractsNext]_contractVars, deployed = "oracle"
    PROVE  \/ UNCHANGED <<submissions, feed>>
           \/ \E p \in Provider, price \in Prices : Orc!SubmitPrice(p, price)
<1>1. Orc!Next \/ UNCHANGED Orc!vars
  BY OneContract
<1> QED
  BY <1>1 DEF Orc!Next, Orc!vars, Orc!AddProvider, Orc!RemoveProvider, Orc!SetFallback

LEMMA OracleAlways == ContractsSpec => []OracleKept
<1>1. ContractsInit => OracleKept
  <2> SUFFICES ASSUME ContractsInit, deployed = "oracle" PROVE OracleKept
    BY DEF OracleKept
  <2>1. submissions = [p \in Provider |-> none] /\ feed = none
    BY DEF ContractsInit, Orc!Init
  <2>2. Submissions(submissions) /\ Orc!Submitted(submissions) = {}
    BY <2>1 DEF Submissions, Orc!Submitted
  <2>3. Orc!Cardinality(Orc!Submitted(submissions)) = 0
    BY <2>2, SubmittedFinite, FS_EmptySet
  <2>4. ~(0 >= Orc!Max({1, min_providers}))
    BY EnoughProviders
  <2>5. Orc!FeedIsAgreed
    BY <2>1, <2>3, <2>4 DEF Orc!FeedIsAgreed
  <2> QED
    BY <2>1, <2>2, <2>5 DEF OracleKept
<1>2. OracleKept /\ [ContractsNext]_contractVars => OracleKept'
  <2> SUFFICES ASSUME OracleKept, [ContractsNext]_contractVars, deployed = "oracle" PROVE OracleKept'
    BY OneContract DEF OracleKept
  <2>1. CASE UNCHANGED <<submissions, feed>>
    BY <2>1 DEF OracleKept, Submissions, Orc!FeedIsAgreed
  <2>2. ASSUME NEW p \in Provider, NEW price \in Prices, Orc!SubmitPrice(p, price) PROVE OracleKept'
    BY <2>2, SubmissionAgrees DEF OracleKept
  <2> QED
    BY <2>1, <2>2, OracleStep
<1> QED
  BY <1>1, <1>2, PTL DEF ContractsSpec

(* Prices that agree on a median are all near it, and so are two medians    *)
(* that have a price in common.                                             *)
Near(m, t) ==
    /\ m \in Int /\ t \in Int /\ (max_deviation_bps + 1) * m \in Int
    /\ (m - t) * 10000 < (max_deviation_bps + 1) * m
    /\ (t - m) * 10000 < (max_deviation_bps + 1) * m

LEMMA NearEachOther ==
    ASSUME NEW m, NEW n, NEW t, Near(m, t), Near(n, t)
    PROVE  (IF n > m THEN n - m ELSE m - n) * 10000 < (max_deviation_bps + 1) * (m + n)
<1> DEFINE a == (max_deviation_bps + 1) * m
           b == (max_deviation_bps + 1) * n
<1>1. m \in Int /\ n \in Int /\ t \in Int /\ a \in Int /\ b \in Int
  BY DEF Near
<1>2. (max_deviation_bps + 1) * (m + n) = a + b
  <2>1. max_deviation_bps \in Nat
    BY OracleAssumption
  <2> QED
    BY <1>1, <2>1
<1>3. /\ (m - t) * 10000 < a /\ (t - m) * 10000 < a
      /\ (n - t) * 10000 < b /\ (t - n) * 10000 < b
  BY DEF Near
<1> HIDE DEF a, b
<1>4. (m - n) * 10000 < a + b /\ (n - m) * 10000 < a + b
  BY <1>1, <1>3
<1> QED
  BY <1>1, <1>2, <1>4

LEMMA NearMedian ==
    ASSUME NEW sub, Submissions(sub), NEW m \in Int, m > 0, Orc!IsMedian(m, sub), Orc!Agree(m, sub),
           NEW q \in Orc!Submitted(sub)
    PROVE  Near(m, sub[q])
<1> DEFINE P == {sub[p] : p \in Orc!Submitted(sub)}
           spread == (Orc!Max(P) - Orc!Min(P)) * 10000
<1>1. max_deviation_bps \in Nat
  BY OracleAssumption
<1>2. m \in P /\ sub[q] \in P
  BY MedianSubmitted
<1>3. IsFiniteSet(P) /\ \A t \in P : t \in Int
  BY SubmittedFinite
<1>4. spread \div m <= max_deviation_bps
  BY DEF Orc!Agree
<1> HIDE DEF P
<1>5. /\ Orc!Max(P) \in Int /\ Orc!Min(P) \in Int /\ sub[q] \in Int
      /\ Orc!Min(P) <= m /\ m <= Orc!Max(P) /\ Orc!Min(P) <= sub[q] /\ sub[q] <= Orc!Max(P)
  BY <1>2, <1>3, PricesBetween
<1>6. (m - sub[q]) * 10000 <= spread /\ (sub[q] - m) * 10000 <= spread /\ spread \in Int
  BY <1>5
<1> HIDE DEF spread
<1>7. spread < (max_deviation_bps + 1) * m
  <2> DEFINE k == spread \div m
  <2>1. k \in Int /\ m * k \in Int /\ spread < m * k + m
    BY <1>6, QuotientBounds
  <2> HIDE DEF k
  <2>2. m * k <= m * max_deviation_bps
    BY <1>1, <1>4, <2>1, TimesOrdered DEF k
  <2>3. (max_deviation_bps + 1) * m = m * max_deviation_bps + m /\ m * max_deviation_bps \in Int
    BY <1>1
  <2> QED
    BY <1>6, <2>1, <2>2, <2>3
<1>8. (max_deviation_bps + 1) * m \in Int
  BY <1>1
<1>9. (m - sub[q]) * 10000 < (max_deviation_bps + 1) * m /\ (sub[q] - m) * 10000 < (max_deviation_bps + 1) * m
  BY <1>5, <1>6, <1>7, <1>8
<1> QED
  BY <1>5, <1>8, <1>9 DEF Near

LEMMA FeedSteps ==
    ASSUME OracleKept, OracleKept', [ContractsNext]_contractVars, deployed = "oracle"
    PROVE  Orc!FeedMovesSlowly
<1> SUFFICES ASSUME feed # none, Orc!Cardinality(Orc!Submitted(submissions)) > 1
             PROVE  (IF feed' > feed THEN feed' - feed ELSE feed - feed') * 10000
                        < (max_deviation_bps + 1) * (feed + feed')
  BY DEF Orc!FeedMovesSlowly
<1>1. max_deviation_bps \in Nat /\ Prices \subseteq Int
  BY OracleAssumption
<1>2. /\ Submissions(submissions) /\ feed \in Int
      /\ Orc!IsMedian(feed, submissions) /\ Orc!Agree(feed, submissions)
  BY <1>1 DEF OracleKept, Orc!FeedIsAgreed
<1>3. PICK r \in Orc!Submitted(submissions) : submissions[r] = feed
  BY <1>2, MedianSubmitted
<1>4. feed > 0
  BY <1>2, <1>3, SubmittedFinite
<1>5. CASE UNCHANGED <<submissions, feed>>
  <2>1. (max_deviation_bps + 1) * (feed + feed) > 0
    <3>1. (max_deviation_bps + 1) * (feed + feed) = max_deviation_bps * (feed + feed) + (feed + feed)
      BY <1>1, <1>2
    <3>2. max_deviation_bps * 0 <= max_deviation_bps * (feed + feed)
      BY <1>1, <1>2, <1>4, TimesOrdered
    <3>3. max_deviation_bps * (feed + feed) \in Int /\ max_deviation_bps * 0 = 0
      BY <1>1, <1>2
    <3> QED
      BY <1>2, <1>4, <3>1, <3>2, <3>3
  <2> QED
    BY <1>2, <1>5, <2>1
<1>6. ASSUME NEW p \in Provider, NEW price \in Prices, Orc!SubmitPrice(p, price)
      PROVE  (IF feed' > feed THEN feed' - feed ELSE feed - feed') * 10000
                 < (max_deviation_bps + 1) * (feed + feed')
  <2>1. Submissions(submissions') /\ submissions' = [submissions EXCEPT ![p] = price]
    BY <1>6, SubmissionAgrees
  <2> DEFINE was == Orc!Submitted(submissions)
             is == Orc!Submitted(submissions')
  <2>2. PICK q \in was : q # p
    <3>1. IsFiniteSet(was) /\ Cardinality(was) \in Nat /\ Cardinality(was) > 1
      BY <1>2, SubmittedFinite
    <3>2. was \ {p} # {}
      <4> SUFFICES ASSUME was \in SUBSET {p} PROVE FALSE
        OBVIOUS
      <4> HIDE DEF was
      <4>1. IsFiniteSet({p}) /\ Cardinality({p}) = 1
        BY FS_Singleton
      <4>2. Cardinality(was) <= Cardinality({p})
        BY <4>1, FS_Subset
      <4> QED
        BY <3>1, <4>1, <4>2
    <3> QED
      BY <3>2
  <2>3. q \in is /\ submissions'[q] = submissions[q] /\ was \subseteq is
    <3>1. none \notin Prices
      BY AbsentAssumption
    <3> QED
      BY <1>2, <2>1, <2>2, <3>1 DEF Orc!Submitted, Submissions
  <2>4. feed' \in Int /\ Orc!IsMedian(feed', submissions') /\ Orc!Agree(feed', submissions')
    <3>1. Cardinality(is) >= Cardinality(was) /\ Cardinality(is) \in Nat /\ Cardinality(was) \in Nat
          /\ Orc!Cardinality(is) = Cardinality(is) /\ Orc!Cardinality(was) = Cardinality(was)
      <4>1. IsFiniteSet(is) /\ was \in SUBSET is
        BY <2>1, <2>3, SubmittedFinite
      <4>2. Cardinality(was) <= Cardinality(is)
        BY <4>1, FS_Subset, Zenon
      <4> QED
        BY <1>2, <2>1, <4>2, SubmittedFinite
    <3>2. Cardinality(was) >= 1 /\ Cardinality(was) >= min_providers
      <4>1. Orc!FeedIsAgreed
        BY DEF OracleKept
      <4>2. Orc!Cardinality(was) >= Orc!Max({1, min_providers})
        BY <4>1 DEF Orc!FeedIsAgreed
      <4> QED
        BY <3>1, <4>2, EnoughProviders
    <3>3. Orc!Cardinality(is) >= Orc!Max({1, min_providers})
      <4>1. min_providers \in Nat
        BY OracleAssumption
      <4> HIDE DEF is, was
      <4>2. Cardinality(is) >= 1 /\ Cardinality(is) >= min_providers
        BY <3>1, <3>2, <4>1
      <4> QED
        BY <3>1, <4>2, EnoughProviders
    <3>4. Orc!FeedIsAgreed' /\ feed' \in Prices \cup {none}
      BY <1>6, SubmissionAgrees
    <3> QED
      BY <1>1, <3>3, <3>4 DEF Orc!FeedIsAgreed
  <2>5. feed' > 0
    <3>1. PICK s \in is : submissions'[s] = feed'
      BY <2>1, <2>4, MedianSubmitted
    <3> QED
      BY <2>1, <3>1, SubmittedFinite
  <2>6. Near(feed, submissions[q])
    BY <1>2, <1>4, <2>2, NearMedian
  <2>7. Near(feed', submissions'[q])
    BY <2>1, <2>3, <2>4, <2>5, NearMedian
  <2> QED
    BY <2>3, <2>6, <2>7, NearEachOther
<1> QED
  BY <1>5, <1>6, OracleStep

(***************************************************************************)
(* Weighted voting                                                         *)
(***************************************************************************)
LEMMA RemainderUnique ==
    ASSUME NEW d \in Nat \ {0}, NEW q \in Int, NEW r \in 0..(d - 1)
    PROVE  (d * q + r) % d = r
<1> DEFINE n == d * q + r
           k == n \div d
           m == n % d
<1>1. n \in Int /\ k \in Int /\ m \in 0..(d - 1) /\ n = d * k + m
  OBVIOUS
<1>2. k <= q
  <2>1. n < d * (q + 1)
    OBVIOUS
  <2> SUFFICES ASSUME q + 1 <= k PROVE FALSE
    BY <1>1
  <2>2. d * (q + 1) <= d * k
    BY <1>1, TimesOrdered
  <2> HIDE DEF n, k, m
  <2>3. d * k \in Int /\ d * (q + 1) \in Int
    BY <1>1
  <2> QED
    BY <1>1, <2>1, <2>2, <2>3
<1>3. q <= k
  <2>1. d * q <= n /\ d * q \in Int
    OBVIOUS
  <2> HIDE DEF n, k, m
  <2> QED
    BY <1>1, <2>1, QuotientLeast DEF k
<1> HIDE DEF n, k, m
<1>4. k = q
  BY <1>1, <1>2, <1>3
<1> QED
  BY <1>1, <1>4 DEF n, m

(* A tally that wraps at each vote is the sum, wrapped.                     *)
LEMMA WrappedSum ==
    ASSUME NEW a \in Nat, NEW w \in Nat, NEW d \in Nat \ {0}
    PROVE  ((a % d) + w) % d = (a + w) % d /\ a % d \in Nat
<1> DEFINE q == a \div d
           r == a % d
           k == (r + w) \div d
           m == (r + w) % d
<1>1. q \in Int /\ r \in 0..(d - 1) /\ a = d * q + r
  OBVIOUS
<1> HIDE DEF q, r
<1>2. k \in Int /\ m \in 0..(d - 1) /\ r + w = d * k + m
  BY <1>1
<1> HIDE DEF k, m
<1>3. a + w = d * (q + k) + m /\ q + k \in Int
  <2>1. d * (q + k) = d * q + d * k /\ d * q \in Int /\ d * k \in Int
    BY <1>1, <1>2
  <2> QED
    BY <1>1, <1>2, <2>1
<1>4. (a + w) % d = m
  <2> DEFINE qk == q + k
  <2>1. qk \in Int
    BY <1>3
  <2> HIDE DEF qk
  <2>2. (d * qk + m) % d = m
    BY <1>2, <2>1, RemainderUnique
  <2> QED
    BY <1>3, <2>2 DEF qk
<1> QED
  BY <1>1, <1>4 DEF r, m

Poll == [mechanism : Ext!Mechanism, endsAt : Int, required : Int, executed : BOOLEAN,
         votesFor : Nat, weightFor : Nat, weightAgainst : Nat, votesAgainst : Nat]
Heard == [Owner -> Voice \cup {none}]

(* Who spoke for and against, and what they weighed when they did.          *)
SideOf(v, s) == {o \in Owner : v[o] # none /\ v[o].support = s}
Weighed(v) == [o \in Owner |-> IF v[o] = none THEN 0 ELSE v[o].weight]
WeightsIn(h, S) == Ext!MapThenSumSet(LAMBDA o : h[o].weight, S)

LEMMA SumOfWeights ==
    ASSUME NEW S, NEW f, NEW h, \A o \in S : f[o] = h[o].weight
    PROVE  WeightsIn(h, S) = SumOver(f, S)
<1> DEFINE Field(g, s) == IF s = {} THEN 0 ELSE h[Chosen(s)].weight + g[s \ {Chosen(s)}]
           Sought(g) == g = [s \in SUBSET S |-> Field(g, s)]
<1>1. ASSUME NEW g PROVE Sought(g) <=> Solves(g, f, SUBSET S)
  <2>1. \A s \in SUBSET S : s # {} => Chosen(s) \in S
    BY DEF Chosen
  <2>2. \A s \in SUBSET S : Field(g, s) = Step(g, f, s)
    BY <2>1 DEF Step
  <2> QED
    BY <2>2 DEF Solves
<1>2. (CHOOSE g : Sought(g)) = (CHOOSE g : Solves(g, f, SUBSET S))
  BY <1>1, Zenon
<1>3. WeightsIn(h, S) = (CHOOSE g : Sought(g))[S]
  BY DEF WeightsIn, Ext!MapThenSumSet, Ext!MapThenFoldSet, Chosen
<1> QED
  BY <1>2, <1>3, SumIsFold

Tallied(p, v) ==
    /\ p.votesFor = Cardinality(SideOf(v, TRUE)) /\ p.votesAgainst = Cardinality(SideOf(v, FALSE))
    /\ p.weightFor = SumOver(Weighed(v), SideOf(v, TRUE)) % Word
    /\ p.weightAgainst = SumOver(Weighed(v), SideOf(v, FALSE)) % Word
    /\ p.executed => Ext!HasSufficientSupport(p)

Polled ==
    /\ ownerWeights \in [Owner -> Nat]
    /\ now \in Nat
    /\ polls \in Seq(Poll) /\ pollVotes \in Seq(Heard) /\ Len(pollVotes) = Len(polls)
    /\ \A id \in 1..Len(polls) : Tallied(polls[id], pollVotes[id])
VotingKept == deployed = "voting" => Polled

LEMMA VoteTypes ==
    /\ IsFiniteSet(Owner) /\ Weights \subseteq Nat /\ Periods \subseteq Nat
    /\ Word \in Nat \ {0} /\ Damping \in Nat \ {0} /\ none \notin Voice
<1>1. none \notin Voice
  BY AbsentAssumption
<1>2. IsFiniteSet(Owner) /\ Weights \subseteq Nat /\ Periods \subseteq Nat
  <2>1. IsFiniteSet(Owner)
    BY VotingAssumption
  <2>2. \A n \in Weights \cup Periods : n \in Nat
    BY VotingAssumption
  <2> QED
    BY <2>1, <2>2
<1>3. Word \in Nat \ {0} /\ Damping \in Nat \ {0}
  BY VotingAssumption
<1> QED
  BY <1>1, <1>2, <1>3

LEMMA SidesFinite ==
    ASSUME NEW v \in Heard, NEW s
    PROVE  /\ IsFiniteSet(SideOf(v, s)) /\ Cardinality(SideOf(v, s)) \in Nat
           /\ \A o \in Owner : Weighed(v)[o] \in Nat
           /\ SumOver(Weighed(v), SideOf(v, s)) \in Nat
           /\ WeightsIn(v, SideOf(v, s)) = SumOver(Weighed(v), SideOf(v, s))
<1>1. IsFiniteSet(Owner) /\ SideOf(v, s) \in SUBSET Owner
  BY VoteTypes DEF SideOf
<1>2. IsFiniteSet(SideOf(v, s))
  BY <1>1, FS_Subset, Zenon
<1>3. \A o \in Owner : Weighed(v)[o] \in Nat
  BY VoteTypes DEF Weighed, Heard, Voice
<1>4. \A o \in SideOf(v, s) : Weighed(v)[o] = v[o].weight
  BY DEF Weighed, SideOf
<1>5. SumOver(Weighed(v), SideOf(v, s)) \in Nat
  BY <1>1, <1>2, <1>3, SumNat
<1> QED
  BY <1>2, <1>3, <1>4, <1>5, SumOfWeights, FS_CardinalityType

(* What is executed had the majority it reports.                            *)
LEMMA MajorityReported == Polled => Ext!ExecutedOnMajority
<1> SUFFICES ASSUME Polled, NEW id \in DOMAIN polls, polls[id].executed
             PROVE  /\ Ext!Cardinality(SideOf(pollVotes[id], TRUE)) >= polls[id].required
                    /\ Ext!Voices(id, TRUE) > Ext!Voices(id, FALSE)
  BY DEF Ext!ExecutedOnMajority, Ext!Side, SideOf
<1> DEFINE p == polls[id]
           v == pollVotes[id]
<1>1. id \in 1..Len(polls) /\ id \in 1..Len(pollVotes)
  BY LenProperties DEF Polled
<1>2. v \in Heard /\ p \in Poll /\ Tallied(p, v)
  BY <1>1, ElementOfSeq DEF Polled
<1>3. Ext!HasSufficientSupport(p)
  BY <1>2 DEF Tallied
<1>4. \A s : /\ Ext!Cardinality(SideOf(v, s)) = Cardinality(SideOf(v, s))
             /\ Ext!Voices(id, s) = IF p.mechanism = "Simple" THEN Cardinality(SideOf(v, s))
                                    ELSE WeightsIn(v, SideOf(v, s)) % Word
  BY DEF Ext!Voices, Ext!Side, SideOf, WeightsIn, Ext!Cardinality, Cardinality
<1> HIDE DEF p, v
<1>5. \A s : WeightsIn(v, SideOf(v, s)) = SumOver(Weighed(v), SideOf(v, s))
  BY <1>2, SidesFinite
<1> QED
  BY <1>2, <1>3, <1>4, <1>5 DEF Tallied, Ext!HasSufficientSupport, p, v

(* One voice is added, of somebody who had not spoken.                      *)
LEMMA VoiceAdded ==
    ASSUME NEW v \in Heard, NEW o \in Owner, v[o] = none, NEW s \in BOOLEAN, NEW w \in Nat
    PROVE  LET new == [v EXCEPT ![o] = [support |-> s, weight |-> w]] IN
           /\ new \in Heard
           /\ Cardinality(SideOf(new, s)) = Cardinality(SideOf(v, s)) + 1
           /\ SumOver(Weighed(new), SideOf(new, s)) = SumOver(Weighed(v), SideOf(v, s)) + w
           /\ \A t \in BOOLEAN : t # s =>
                  /\ SideOf(new, t) = SideOf(v, t)
                  /\ SumOver(Weighed(new), SideOf(new, t)) = SumOver(Weighed(v), SideOf(v, t))
<1> DEFINE voice == [support |-> s, weight |-> w]
           new == [v EXCEPT ![o] = voice]
<1>1. voice \in Voice /\ voice # none /\ voice.support = s /\ voice.weight = w
  BY VoteTypes DEF Voice
<1> HIDE DEF voice
<1>2. /\ new \in Heard /\ new[o] = voice
      /\ \A u \in Owner : u # o => new[u] = v[u]
  BY <1>1 DEF Heard
<1> HIDE DEF new
<1>3. o \notin SideOf(v, s) /\ SideOf(new, s) = SideOf(v, s) \cup {o}
  BY <1>1, <1>2 DEF SideOf
<1>4. \A t \in BOOLEAN : t # s => SideOf(new, t) = SideOf(v, t)
  BY <1>1, <1>2 DEF SideOf
<1>5. IsFiniteSet(SideOf(v, s)) /\ Cardinality(SideOf(v, s)) \in Nat
      /\ SumOver(Weighed(v), SideOf(v, s)) \in Nat
  BY SidesFinite
<1>6. Cardinality(SideOf(new, s)) = Cardinality(SideOf(v, s)) + 1
  BY <1>3, <1>5, FS_AddElement
<1>7. Weighed(new)[o] = w /\ \A u \in Owner : u # o => Weighed(new)[u] = Weighed(v)[u]
  BY <1>1, <1>2 DEF Weighed
<1>8. SumOver(Weighed(new), SideOf(new, s)) = SumOver(Weighed(v), SideOf(v, s)) + w
  <2>1. IsFiniteSet(SideOf(new, s)) /\ o \in SideOf(new, s) /\ SideOf(new, s) \ {o} = SideOf(v, s)
    BY <1>2, <1>3, SidesFinite
  <2>2. \A u \in SideOf(new, s) : Weighed(new)[u] \in Nat
    BY <1>2, SidesFinite DEF SideOf
  <2>3. SumOver(Weighed(new), SideOf(new, s)) = w + SumOver(Weighed(new), SideOf(v, s))
    BY <1>7, <2>1, <2>2, SumPick
  <2>4. SumOver(Weighed(new), SideOf(v, s)) = SumOver(Weighed(v), SideOf(v, s))
    <3>1. \A u \in SideOf(v, s) : Weighed(new)[u] = Weighed(v)[u]
      BY <1>3, <1>7 DEF SideOf
    <3> QED
      BY <3>1, SumEqual
  <2> QED
    BY <1>5, <2>3, <2>4
<1>9. ASSUME NEW t \in BOOLEAN, t # s
      PROVE  SumOver(Weighed(new), SideOf(new, t)) = SumOver(Weighed(v), SideOf(v, t))
  <2>1. \A u \in SideOf(v, t) : Weighed(new)[u] = Weighed(v)[u]
    <3>1. o \notin SideOf(v, t)
      BY DEF SideOf
    <3> QED
      BY <1>7, <3>1 DEF SideOf
  <2>2. SumOver(Weighed(new), SideOf(v, t)) = SumOver(Weighed(v), SideOf(v, t))
    BY <2>1, SumEqual
  <2> QED
    BY <1>4, <1>9, <2>2
<1> QED
  BY <1>2, <1>4, <1>6, <1>8, <1>9 DEF new, voice

LEMMA VoteTallied ==
    ASSUME NEW p \in Poll, NEW v \in Heard, Tallied(p, v), ~p.executed,
           NEW o \in Owner, v[o] = none, NEW s \in BOOLEAN, NEW w \in Nat
    PROVE  /\ Ext!Counted(p, s, w) \in Poll
           /\ Tallied(Ext!Counted(p, s, w), [v EXCEPT ![o] = [support |-> s, weight |-> w]])
<1> DEFINE new == [v EXCEPT ![o] = [support |-> s, weight |-> w]]
           q == Ext!Counted(p, s, w)
           for == SumOver(Weighed(v), SideOf(v, TRUE))
           against == SumOver(Weighed(v), SideOf(v, FALSE))
<1>1. Word \in Nat \ {0} /\ for \in Nat /\ against \in Nat
  BY VoteTypes, SidesFinite
<1>2. /\ Cardinality(SideOf(new, s)) = Cardinality(SideOf(v, s)) + 1
      /\ SumOver(Weighed(new), SideOf(new, s)) = SumOver(Weighed(v), SideOf(v, s)) + w
      /\ \A t \in BOOLEAN : t # s =>
             /\ SideOf(new, t) = SideOf(v, t)
             /\ SumOver(Weighed(new), SideOf(new, t)) = SumOver(Weighed(v), SideOf(v, t))
  BY VoiceAdded, ZenonT(60)
<1>3. /\ p.votesFor = Cardinality(SideOf(v, TRUE)) /\ p.votesAgainst = Cardinality(SideOf(v, FALSE))
      /\ p.weightFor = for % Word /\ p.weightAgainst = against % Word
  BY DEF Tallied
<1> HIDE DEF new, for, against
<1>4. CASE s = TRUE
  <2>1. q = [p EXCEPT !.votesFor = @ + 1, !.weightFor = (@ + w) % Word]
    BY <1>4 DEF Ext!Counted
  <2>a. for + w \in Nat
    BY <1>1
  <2>2. ((for % Word) + w) % Word = (for + w) % Word /\ (for + w) % Word \in Nat
    BY <1>1, <2>a, WrappedSum
  <2> DEFINE total == (p.weightFor + w) % Word
  <2>b. total \in Nat
    <3>1. p.weightFor + w = (for % Word) + w
      BY <1>3
    <3> QED
      BY <2>2, <3>1
  <2> DEFINE r == [p EXCEPT !.votesFor = @ + 1]
  <2>c. q = [r EXCEPT !.weightFor = total]
    BY <2>1
  <2> HIDE DEF total, q
  <2>d. /\ r \in Poll /\ r.votesFor = p.votesFor + 1 /\ r.weightFor = p.weightFor
        /\ r.votesAgainst = p.votesAgainst /\ r.weightAgainst = p.weightAgainst /\ ~r.executed
    BY DEF Poll
  <2> HIDE DEF r
  <2>e. q \in Poll /\ ~q.executed
    BY <2>b, <2>c, <2>d DEF Poll
  <2>3. /\ q.votesFor = p.votesFor + 1 /\ q.weightFor = (p.weightFor + w) % Word
        /\ q.votesAgainst = p.votesAgainst /\ q.weightAgainst = p.weightAgainst
    BY <2>c, <2>d DEF Poll, total
  <2>4. /\ q.votesFor = Cardinality(SideOf(new, TRUE)) /\ q.votesAgainst = Cardinality(SideOf(new, FALSE))
        /\ q.weightAgainst = SumOver(Weighed(new), SideOf(new, FALSE)) % Word
    BY <1>2, <1>3, <1>4, <2>3 DEF against
  <2>5. q.weightFor = SumOver(Weighed(new), SideOf(new, TRUE)) % Word
    <3>1. SumOver(Weighed(new), SideOf(new, TRUE)) = for + w
      BY <1>2, <1>4 DEF for
    <3> QED
      BY <1>3, <2>2, <2>3, <3>1
  <2>6. q \in Poll /\ Tallied(q, new)
    BY <2>4, <2>5, <2>e DEF Tallied
  <2> QED
    BY <2>6 DEF q, new
<1>5. CASE s = FALSE
  <2>1. q = [p EXCEPT !.votesAgainst = @ + 1, !.weightAgainst = (@ + w) % Word]
    BY <1>5 DEF Ext!Counted
  <2>a. against + w \in Nat
    BY <1>1
  <2>2. ((against % Word) + w) % Word = (against + w) % Word /\ (against + w) % Word \in Nat
    BY <1>1, <2>a, WrappedSum
  <2> DEFINE total == (p.weightAgainst + w) % Word
  <2>b. total \in Nat
    <3>1. p.weightAgainst + w = (against % Word) + w
      BY <1>3
    <3> QED
      BY <2>2, <3>1
  <2> DEFINE r == [p EXCEPT !.votesAgainst = @ + 1]
  <2>c. q = [r EXCEPT !.weightAgainst = total]
    BY <2>1
  <2> HIDE DEF total, q
  <2>d. /\ r \in Poll /\ r.votesAgainst = p.votesAgainst + 1 /\ r.weightAgainst = p.weightAgainst
        /\ r.votesFor = p.votesFor /\ r.weightFor = p.weightFor /\ ~r.executed
    BY DEF Poll
  <2> HIDE DEF r
  <2>e. q \in Poll /\ ~q.executed
    BY <2>b, <2>c, <2>d DEF Poll
  <2>3. /\ q.votesAgainst = p.votesAgainst + 1 /\ q.weightAgainst = (p.weightAgainst + w) % Word
        /\ q.votesFor = p.votesFor /\ q.weightFor = p.weightFor
    BY <2>c, <2>d DEF Poll, total
  <2>4. /\ q.votesFor = Cardinality(SideOf(new, TRUE)) /\ q.votesAgainst = Cardinality(SideOf(new, FALSE))
        /\ q.weightFor = SumOver(Weighed(new), SideOf(new, TRUE)) % Word
    BY <1>2, <1>3, <1>5, <2>3 DEF for
  <2>5. q.weightAgainst = SumOver(Weighed(new), SideOf(new, FALSE)) % Word
    <3>1. SumOver(Weighed(new), SideOf(new, FALSE)) = against + w
      BY <1>2, <1>5 DEF against
    <3> QED
      BY <1>3, <2>2, <2>3, <3>1
  <2>6. q \in Poll /\ Tallied(q, new)
    BY <2>4, <2>5, <2>e DEF Tallied
  <2> QED
    BY <2>6 DEF q, new
<1> QED
  BY <1>4, <1>5

LEMMA WeightNatural ==
    ASSUME ownerWeights \in [Owner -> Nat], NEW o \in Owner, NEW p \in Poll
    PROVE  Ext!VoterWeight(o, p.mechanism) \in Nat
<1>1. p.mechanism \in Ext!Mechanism /\ ownerWeights[o] \in Nat
  BY DEF Poll
<1> DEFINE part == ownerWeights[o] \div Damping
<1>2. part \in Int
  BY <1>1, VoteTypes
<1> HIDE DEF part
<1>3. Ext!Max({1, part}) \in Int /\ Ext!Max({1, part}) >= 1
  BY <1>2 DEF Ext!Max
<1> QED
  BY <1>1, <1>3 DEF Ext!VoterWeight, Ext!Mechanism, part

LEMMA VotePolled ==
    ASSUME Polled, NEW u \in Owner, NEW id \in DOMAIN polls, NEW s \in BOOLEAN, Ext!Vote(u, id, s)
    PROVE  Polled'
<1> DEFINE p == polls[id]
           v == pollVotes[id]
           w == Ext!VoterWeight(u, p.mechanism)
           q == Ext!Counted(p, s, w)
           new == [v EXCEPT ![u] = [support |-> s, weight |-> w]]
<1>1. polls \in Seq(Poll) /\ pollVotes \in Seq(Heard) /\ Len(pollVotes) = Len(polls)
      /\ id \in 1..Len(polls) /\ id \in 1..Len(pollVotes)
  BY LenProperties DEF Polled
<1>2. p \in Poll /\ v \in Heard /\ Tallied(p, v)
  BY <1>1, ElementOfSeq DEF Polled
<1>3. /\ ~p.executed /\ v[u] = none
      /\ pollVotes' = [pollVotes EXCEPT ![id][u] = [support |-> s, weight |-> w]]
      /\ polls' = [polls EXCEPT ![id] = Ext!Counted(@, s, w)]
      /\ UNCHANGED <<ownerWeights, now>>
  BY DEF Ext!Vote
<1>4. w \in Nat
  BY <1>2, WeightNatural DEF Polled
<1>5. pollVotes' = [pollVotes EXCEPT ![id] = new] /\ polls' = [polls EXCEPT ![id] = q]
  BY <1>3
<1> HIDE DEF w, p, v
<1>6. new \in Heard
  BY <1>2, <1>3, <1>4, VoiceAdded
<1>7. q \in Poll /\ Tallied(q, new)
  BY <1>2, <1>3, <1>4, VoteTallied
<1> HIDE DEF q, new
<1>8. /\ polls' \in Seq(Poll) /\ Len(polls') = Len(polls)
      /\ \A i \in 1..Len(polls) : polls'[i] = IF i = id THEN q ELSE polls[i]
  BY <1>1, <1>5, <1>7, ExceptSeq
<1>9. /\ pollVotes' \in Seq(Heard) /\ Len(pollVotes') = Len(polls)
      /\ \A i \in 1..Len(polls) : pollVotes'[i] = IF i = id THEN new ELSE pollVotes[i]
  BY <1>1, <1>5, <1>6, ExceptSeq
<1>10. \A i \in 1..Len(polls') : Tallied(polls'[i], pollVotes'[i])
  BY <1>7, <1>8, <1>9 DEF Polled
<1> QED
  BY <1>3, <1>8, <1>9, <1>10 DEF Polled

LEMMA ExecutePolled ==
    ASSUME Polled, NEW u, NEW id \in DOMAIN polls, Ext!ExecuteProposal(u, id)
    PROVE  Polled'
<1> DEFINE p == polls[id]
           q == [p EXCEPT !.executed = TRUE]
<1>1. polls \in Seq(Poll) /\ id \in 1..Len(polls)
  BY LenProperties DEF Polled
<1>2. p \in Poll /\ Tallied(p, pollVotes[id])
  BY <1>1, ElementOfSeq DEF Polled
<1>3. Ext!HasSufficientSupport(p) /\ polls' = [polls EXCEPT ![id] = q]
      /\ UNCHANGED <<ownerWeights, now, pollVotes>>
  BY DEF Ext!ExecuteProposal
<1>4. /\ q \in Poll /\ q.votesFor = p.votesFor /\ q.votesAgainst = p.votesAgainst /\ q.required = p.required
      /\ q.weightFor = p.weightFor /\ q.weightAgainst = p.weightAgainst /\ q.mechanism = p.mechanism
  BY <1>2 DEF Poll
<1> HIDE DEF q
<1>5. Ext!HasSufficientSupport(q)
  BY <1>3, <1>4 DEF Ext!HasSufficientSupport
<1>6. Tallied(q, pollVotes[id])
  BY <1>2, <1>4, <1>5 DEF Tallied
<1>7. /\ polls' \in Seq(Poll) /\ Len(polls') = Len(polls)
      /\ \A i \in 1..Len(polls) : polls'[i] = IF i = id THEN q ELSE polls[i]
  BY <1>1, <1>3, <1>4, ExceptSeq
<1>8. \A i \in 1..Len(polls') : Tallied(polls'[i], pollVotes'[i])
  BY <1>3, <1>6, <1>7 DEF Polled
<1> QED
  BY <1>3, <1>7, <1>8 DEF Polled

LEMMA CreatePolled ==
    ASSUME Polled, NEW u, NEW m \in Ext!Mechanism, NEW d \in Periods, NEW n \in Int,
           Ext!CreateProposal(u, m, d, n)
    PROVE  Polled'
<1> DEFINE p == [mechanism |-> m, endsAt |-> now + d, required |-> n, executed |-> FALSE,
                 votesFor |-> 0, weightFor |-> 0, weightAgainst |-> 0, votesAgainst |-> 0]
           v == [o \in Owner |-> none]
<1>1. polls' = Append(polls, p) /\ pollVotes' = Append(pollVotes, v) /\ UNCHANGED <<now, ownerWeights>>
  BY DEF Ext!CreateProposal
<1>2. p \in Poll
  <2>1. now + d \in Int
    BY VoteTypes DEF Polled
  <2> QED
    BY <2>1 DEF Poll
<1>3. v \in Heard /\ SideOf(v, TRUE) = {} /\ SideOf(v, FALSE) = {}
  BY DEF Heard, SideOf
<1>4. /\ p.votesFor = 0 /\ p.votesAgainst = 0 /\ p.weightFor = 0 /\ p.weightAgainst = 0 /\ ~p.executed
  OBVIOUS
<1> HIDE DEF p, v
<1>5. Tallied(p, v)
  <2>1. 0 % Word = 0
    BY VoteTypes
  <2> QED
    BY <1>3, <1>4, <2>1, FS_EmptySet, SumEmpty DEF Tallied
<1>6. polls \in Seq(Poll) /\ pollVotes \in Seq(Heard) /\ Len(pollVotes) = Len(polls) /\ Len(polls) \in Nat
  BY LenProperties DEF Polled
<1>7. /\ polls' \in Seq(Poll) /\ Len(polls') = Len(polls) + 1 /\ polls'[Len(polls) + 1] = p
      /\ \A i \in 1..Len(polls) : polls'[i] = polls[i]
  BY <1>1, <1>2, <1>6, AppendProperties
<1>8. /\ pollVotes' \in Seq(Heard) /\ Len(pollVotes') = Len(polls) + 1 /\ pollVotes'[Len(polls) + 1] = v
      /\ \A i \in 1..Len(polls) : pollVotes'[i] = pollVotes[i]
  BY <1>1, <1>3, <1>6, AppendProperties
<1>9. \A i \in 1..Len(polls') : Tallied(polls'[i], pollVotes'[i])
  <2> SUFFICES ASSUME NEW i \in 1..Len(polls') PROVE Tallied(polls'[i], pollVotes'[i])
    OBVIOUS
  <2>1. i \in 1..Len(polls) \/ i = Len(polls) + 1
    BY <1>6, <1>7
  <2> QED
    BY <1>5, <1>7, <1>8, <2>1 DEF Polled
<1> QED
  BY <1>1, <1>7, <1>8, <1>9 DEF Polled

LEMMA VotingBegins == ContractsInit => VotingKept
<1> SUFFICES ASSUME ContractsInit, deployed = "voting" PROVE Polled
  BY DEF VotingKept
<1>1. polls = <<>> /\ pollVotes = <<>> /\ ownerWeights = [o \in Owner |-> 1] /\ now = 0
  BY DEF ContractsInit, Ext!VotingInit
<1>2. Len(<<>>) = 0 /\ <<>> \in Seq(Poll) /\ <<>> \in Seq(Heard)
  BY EmptySeq
<1> QED
  BY <1>1, <1>2 DEF Polled

LEMMA VotingAlways == ContractsSpec => []VotingKept
<1>1. VotingKept /\ [ContractsNext]_contractVars => VotingKept'
  <2> SUFFICES ASSUME VotingKept, [ContractsNext]_contractVars, deployed = "voting" PROVE Polled'
    BY OneContract DEF VotingKept
  <2>1. Polled /\ (Ext!VotingNext \/ UNCHANGED <<now, ownerVars, votingVars>>)
    BY OneContract DEF VotingKept
  <2>2. CASE UNCHANGED <<polls, pollVotes>> /\ ownerWeights' \in [Owner -> Nat] /\ now' \in Nat
    BY <2>1, <2>2 DEF Polled
  <2>3. ASSUME NEW u \in Owner, NEW m \in Ext!Mechanism, NEW d \in Periods,
               NEW n \in 1..Ext!Cardinality(Owner), Ext!CreateProposal(u, m, d, n)
        PROVE  Polled'
    <3>1. Ext!Cardinality(Owner) \in Nat
      <4>1. Ext!Cardinality(Owner) = Cardinality(Owner)
        BY DEF Ext!Cardinality, Cardinality
      <4> QED
        BY <4>1, VoteTypes, FS_CardinalityType
    <3>2. n \in Int
      BY <3>1
    <3> QED
      BY <2>1, <2>3, <3>2, CreatePolled
  <2>4. ASSUME NEW o \in Owner, NEW w \in Weights, NEW u, Ext!UpdateOwnerWeight(u, o, w)
        PROVE  Polled'
    <3>1. ownerWeights' = [ownerWeights EXCEPT ![o] = w] /\ UNCHANGED <<now, polls, pollVotes>> /\ w \in Nat
      BY <2>4, VoteTypes DEF Ext!UpdateOwnerWeight
    <3> QED
      BY <2>1, <2>2, <3>1 DEF Polled
  <2>5. \/ UNCHANGED <<polls, pollVotes, ownerWeights>> /\ now' \in {now, now + 1}
        \/ \E u \in Owner, m \in Ext!Mechanism, d \in Periods, n \in 1..Ext!Cardinality(Owner) :
              Ext!CreateProposal(u, m, d, n)
        \/ \E u \in Owner, id \in DOMAIN polls, s \in BOOLEAN : Ext!Vote(u, id, s)
        \/ \E u \in Owner, id \in DOMAIN polls : Ext!ExecuteProposal(u, id)
        \/ \E u, o \in Owner, w \in Weights : Ext!UpdateOwnerWeight(u, o, w)
    BY <2>1 DEF Ext!VotingNext, Ext!Core, Ext!FreezeOrThaw, Ext!OwnersChange, Ext!Tick, Ext!votingVars, votingVars
  <2>6. CASE UNCHANGED <<polls, pollVotes, ownerWeights>> /\ now' \in {now, now + 1}
    BY <2>1, <2>2, <2>6 DEF Polled
  <2> QED
    BY <2>1, <2>3, <2>4, <2>5, <2>6, VotePolled, ExecutePolled
<1> QED
  BY <1>1, VotingBegins, PTL DEF ContractsSpec

(***************************************************************************)
(* Payment splitter                                                        *)
(***************************************************************************)
Entries == [address : Payee, shares : Nat]

(* The first entry of an address, which is the one that is paid by.         *)
LEMMA FirstEntry ==
    ASSUME split \in Seq(Entries), NEW r \in Splt!Recipients
    PROVE  Splt!Shares(r) \in DOMAIN split /\ split[Splt!Shares(r)].address = r
<1> DEFINE I == {i \in 1..Splt!Len(split) : split[i].address = r}
<1>1. DOMAIN split = 1..Splt!Len(split) /\ I \subseteq Nat
  OBVIOUS
<1>2. I # {}
  BY <1>1 DEF Splt!Recipients
<1>3. PICK n \in I : \A m \in I : n <= m
  BY <1>1, <1>2, LeastNumber
<1>4. Splt!Shares(r) = Splt!Min(I)
  BY <1>2 DEF Splt!Shares, Splt!SelectInSeq, Splt!Min
<1>5. Splt!Min(I) \in I
  BY <1>3 DEF Splt!Min
<1> QED
  BY <1>1, <1>4, <1>5

(* The sums of the splitter, over functions.                                *)
SharesOf == [i \in DOMAIN split |-> split[i].shares]
OwedTo == [r \in Splt!Recipients |-> Splt!Entitled(r)]
PendingOf == [r \in Splt!Recipients |-> Splt!Entitled(r) - drawn[r]]

LEMMA SumOfShares == Splt!SumOfShares = SumOver(SharesOf, DOMAIN split)
<1> DEFINE Field(g, s) == IF s = {} THEN 0 ELSE split[Chosen(s)].shares + g[s \ {Chosen(s)}]
           D == DOMAIN split
           Sought(g) == g = [s \in SUBSET D |-> Field(g, s)]
<1>1. ASSUME NEW g PROVE Sought(g) <=> Solves(g, SharesOf, SUBSET D)
  <2>1. \A s \in SUBSET D : s # {} => Chosen(s) \in D
    BY DEF Chosen
  <2>2. \A s \in SUBSET D : Field(g, s) = Step(g, SharesOf, s)
    BY <2>1 DEF Step, SharesOf
  <2> QED
    BY <2>2 DEF Solves
<1>2. (CHOOSE g : Sought(g)) = (CHOOSE g : Solves(g, SharesOf, SUBSET D))
  BY <1>1, Zenon
<1>3. Splt!SumOfShares = (CHOOSE g : Sought(g))[D]
  BY DEF Splt!SumOfShares, Splt!MapThenSumSet, Splt!MapThenFoldSet, Chosen
<1> QED
  BY <1>2, <1>3, SumIsFold

LEMMA SumOfPending ==
    Splt!MapThenSumSet(LAMBDA r : Splt!Entitled(r) - drawn[r], Splt!Recipients)
        = SumOver(PendingOf, Splt!Recipients)
<1> DEFINE D == Splt!Recipients
           Field(g, s) == IF s = {} THEN 0
                          ELSE (Splt!Entitled(Chosen(s)) - drawn[Chosen(s)]) + g[s \ {Chosen(s)}]
           Sought(g) == g = [s \in SUBSET D |-> Field(g, s)]
<1>1. ASSUME NEW g PROVE Sought(g) <=> Solves(g, PendingOf, SUBSET D)
  <2>1. \A s \in SUBSET D : s # {} => Chosen(s) \in D
    BY DEF Chosen
  <2>2. \A s \in SUBSET D : Field(g, s) = Step(g, PendingOf, s)
    BY <2>1 DEF Step, PendingOf
  <2> QED
    BY <2>2 DEF Solves
<1>2. (CHOOSE g : Sought(g)) = (CHOOSE g : Solves(g, PendingOf, SUBSET D))
  BY <1>1, Zenon
<1>3. Splt!MapThenSumSet(LAMBDA r : Splt!Entitled(r) - drawn[r], D) = (CHOOSE g : Sought(g))[D]
  BY DEF Splt!MapThenSumSet, Splt!MapThenFoldSet, Chosen
<1> QED
  BY <1>2, <1>3, SumIsFold

(* What the splitter keeps, where the sum of the shares does not wrap.      *)
Splitting ==
    /\ split \in Seq(Entries) /\ Splt!Valid(split)
    /\ Splt!SumOfShares < ShareWord =>
           /\ deposited \in Nat
           /\ drawn \in [Splt!Recipients -> Nat]
           /\ \A r \in Splt!Recipients : drawn[r] <= Splt!Entitled(r)
           /\ pot = deposited - SumOver(drawn, Splt!Recipients)
SplitterKept == deployed = "splitter" => Splitting

LEMMA SharesPositive ==
    ASSUME split \in Seq(Entries), Splt!Valid(split)
    PROVE  /\ IsFiniteSet(DOMAIN split) /\ IsFiniteSet(Splt!Recipients)
           /\ \A i \in DOMAIN split : SharesOf[i] \in Nat
           /\ Splt!SumOfShares \in Nat \ {0}
           /\ Splt!SumOfShares < ShareWord => Splt!TotalShares = Splt!SumOfShares
<1>1. DOMAIN split = 1..Len(split) /\ Len(split) \in Nat
  BY LenProperties
<1>2. IsFiniteSet(DOMAIN split)
  BY <1>1, FS_Interval
<1>3. IsFiniteSet(Splt!Recipients)
  <2> DEFINE h == [i \in DOMAIN split |-> split[i].address]
             R == {split[i].address : i \in DOMAIN split}
  <2>1. h \in Surjection(DOMAIN split, R)
    BY DEF Surjection
  <2>2. R = Splt!Recipients
    BY DEF Splt!Recipients
  <2> HIDE DEF h, R
  <2> QED
    BY <1>2, <2>1, <2>2, FS_Surjection
<1>4. \A i \in DOMAIN split : split[i] \in Entries /\ split[i].shares > 0
  BY <1>1, ElementOfSeq DEF Splt!Valid
<1>5. \A i \in DOMAIN split : SharesOf[i] \in Nat /\ SharesOf[i] > 0
  BY <1>4 DEF SharesOf, Entries
<1>6. SumOver(SharesOf, DOMAIN split) \in Nat
  BY <1>2, <1>5, SumNat
<1>7. 1 \in DOMAIN split
  <2>1. Len(split) # 0
    BY EmptySeq DEF Splt!Valid
  <2> QED
    BY <1>1, <2>1
<1>8. SumOver(SharesOf, DOMAIN split) >= SharesOf[1]
  BY <1>2, <1>5, <1>7, SumBounds
<1>9. Splt!SumOfShares \in Nat \ {0}
  BY <1>5, <1>6, <1>7, <1>8, SumOfShares
<1>10. ASSUME Splt!SumOfShares < ShareWord PROVE Splt!TotalShares = Splt!SumOfShares
  <2>1. ShareWord \in Nat \ {0}
    BY SplitterAssumption
  <2> DEFINE w == Splt!SumOfShares
  <2>2. w \in Nat /\ w < ShareWord
    BY <1>9, <1>10
  <2> HIDE DEF w
  <2>3. w % ShareWord = w
    BY <2>1, <2>2
  <2> QED
    BY <2>3 DEF Splt!TotalShares, w
<1> QED
  BY <1>2, <1>3, <1>5, <1>9, <1>10

(* A share rounded down, and a later one.                                   *)
LEMMA Entitlement ==
    ASSUME split \in Seq(Entries), Splt!Valid(split), Splt!SumOfShares < ShareWord, deposited \in Nat,
           NEW r \in Splt!Recipients
    PROVE  LET w == Splt!SumOfShares
               share == SharesOf[Splt!Shares(r)]
           IN /\ share \in Nat /\ w \in Nat \ {0}
              /\ Splt!Entitled(r) = (deposited * share) \div w
              /\ Splt!Entitled(r) \in Nat
              /\ w * Splt!Entitled(r) <= deposited * share
<1> DEFINE w == Splt!SumOfShares
           share == SharesOf[Splt!Shares(r)]
<1>1. share \in Nat /\ w \in Nat \ {0}
  BY FirstEntry, SharesPositive
<1>2. Splt!Entitled(r) = (deposited * share) \div w
  BY FirstEntry, SharesPositive DEF Splt!Entitled, SharesOf
<1> HIDE DEF share, w
<1> DEFINE a == deposited * share
<1>3. a \in Nat
  BY <1>1
<1> HIDE DEF a
<1>4. a \div w \in Int /\ w * (a \div w) <= a
  BY <1>1, <1>3, QuotientBounds
<1>5. 0 <= a \div w
  <2>1. w * 0 <= a
    BY <1>1, <1>3
  <2> QED
    BY <1>1, <1>3, <2>1, QuotientLeast
<1> QED
  BY <1>1, <1>2, <1>4, <1>5 DEF a, w, share

(* All entitlements together are no more than what was deposited.           *)
LEMMA EntitledTogether ==
    ASSUME split \in Seq(Entries), Splt!Valid(split), Splt!SumOfShares < ShareWord, deposited \in Nat
    PROVE  /\ SumOver(OwedTo, Splt!Recipients) \in Nat
           /\ SumOver(OwedTo, Splt!Recipients) <= deposited
<1> DEFINE R == Splt!Recipients
           w == Splt!SumOfShares
           shareOf == [r \in R |-> SharesOf[Splt!Shares(r)]]
           scaled == [r \in R |-> w * OwedTo[r]]
           granted == [r \in R |-> deposited * shareOf[r]]
           first == {Splt!Shares(r) : r \in R}
<1>1. /\ IsFiniteSet(R) /\ IsFiniteSet(DOMAIN split) /\ \A i \in DOMAIN split : SharesOf[i] \in Nat
      /\ w \in Nat \ {0} /\ w = SumOver(SharesOf, DOMAIN split)
  BY SharesPositive, SumOfShares
<1>2. \A r \in R : /\ OwedTo[r] \in Nat /\ shareOf[r] \in Nat
                   /\ w * OwedTo[r] <= deposited * shareOf[r]
  BY Entitlement DEF OwedTo
<1>3. \A r \in R : Splt!Shares(r) \in DOMAIN split /\ split[Splt!Shares(r)].address = r
  BY FirstEntry
<1>4. SumOver(shareOf, R) = SumOver(SharesOf, first)
  <2> DEFINE h == [r \in R |-> Splt!Shares(r)]
  <2>1. \A r, s \in R : h[r] = h[s] => r = s
    BY <1>3
  <2>2. \A r \in R : SharesOf[h[r]] \in Nat /\ shareOf[r] = SharesOf[h[r]]
    BY <1>1, <1>3
  <2>3. {h[r] : r \in R} = first
    OBVIOUS
  <2> HIDE DEF h, R, shareOf, first
  <2> QED
    BY <1>1, <2>1, <2>2, <2>3, SumImage
<1>5. first \in SUBSET DOMAIN split
  BY <1>3
<1> HIDE DEF w, R, first
<1>6. SumOver(SharesOf, first) \in Nat /\ SumOver(SharesOf, first) <= w
  BY <1>1, <1>5, SumSubset
<1>7. \A r \in R : scaled[r] \in Nat /\ granted[r] \in Nat /\ scaled[r] <= granted[r]
  BY <1>1, <1>2
<1>a. \A r \in R : scaled[r] = w * OwedTo[r] /\ granted[r] = deposited * shareOf[r]
  OBVIOUS
<1> HIDE DEF shareOf, scaled, granted
<1>8. SumOver(scaled, R) <= SumOver(granted, R)
  BY <1>1, <1>7, SumOrdered
<1>9. SumOver(scaled, R) = w * SumOver(OwedTo, R)
  BY <1>1, <1>2, <1>a, SumTimes
<1>10. SumOver(granted, R) = deposited * SumOver(shareOf, R)
  BY <1>1, <1>2, <1>a, SumTimes
<1>11. SumOver(OwedTo, R) \in Nat
  BY <1>1, <1>2, SumNat
<1>12. deposited * SumOver(shareOf, R) <= deposited * w
  BY <1>1, <1>4, <1>6, TimesOrdered
<1>13. SumOver(OwedTo, R) <= deposited
  <2> DEFINE o == SumOver(OwedTo, R)
             s == SumOver(shareOf, R)
  <2>1. w * o <= deposited * s /\ deposited * s <= deposited * w /\ s \in Nat /\ o \in Nat
    BY <1>4, <1>6, <1>8, <1>9, <1>10, <1>11, <1>12
  <2> HIDE DEF o, s
  <2> SUFFICES ASSUME deposited + 1 <= o PROVE FALSE
    BY <2>1 DEF o
  <2>2. w * (deposited + 1) <= w * o
    BY <1>1, <2>1, TimesOrdered
  <2>3. w * (deposited + 1) = deposited * w + w /\ w * o \in Int /\ deposited * w \in Int /\ deposited * s \in Int
    BY <1>1, <2>1
  <2> DEFINE dw == deposited * w
  <2>4. w * o <= dw /\ w * (deposited + 1) = dw + w /\ dw \in Int /\ w * o \in Int
    <3> DEFINE ds == deposited * s
               wo == w * o
    <3>1. wo <= ds /\ ds <= dw /\ wo \in Int /\ ds \in Int /\ dw \in Int
      BY <2>1, <2>3
    <3> HIDE DEF ds, wo, dw
    <3>2. wo <= dw
      BY <3>1
    <3> QED
      BY <2>3, <3>1, <3>2 DEF wo, dw
  <2> HIDE DEF dw
  <2>5. dw + w <= dw
    BY <1>1, <2>2, <2>4
  <2> QED
    BY <1>1, <2>4, <2>5
<1> QED
  BY <1>11, <1>13 DEF R

LEMMA SplitterCovered == Splitting => Splt!PendingIsCovered
<1> SUFFICES ASSUME Splitting, Splt!SumOfShares < ShareWord
             PROVE  /\ \A r \in Splt!Recipients : drawn[r] <= Splt!Entitled(r)
                    /\ SumOver(PendingOf, Splt!Recipients) <= pot
  BY SumOfPending DEF Splt!PendingIsCovered
<1> DEFINE R == Splt!Recipients
<1>1. /\ split \in Seq(Entries) /\ Splt!Valid(split) /\ deposited \in Nat /\ drawn \in [R -> Nat]
      /\ \A r \in R : drawn[r] <= Splt!Entitled(r)
      /\ pot = deposited - SumOver(drawn, R)
  BY DEF Splitting
<1>2. IsFiniteSet(R)
  BY <1>1, SharesPositive
<1>3. \A r \in R : Splt!Entitled(r) \in Nat
  BY <1>1, Entitlement
<1>4. \A r \in R : drawn[r] \in Nat /\ PendingOf[r] \in Nat /\ OwedTo[r] = drawn[r] + PendingOf[r]
  BY <1>1, <1>3 DEF PendingOf, OwedTo
<1>5. SumOver(OwedTo, R) <= deposited /\ SumOver(OwedTo, R) \in Nat
  BY <1>1, EntitledTogether
<1> HIDE DEF R
<1>6. SumOver(OwedTo, R) = SumOver(drawn, R) + SumOver(PendingOf, R)
  BY <1>2, <1>4, SumPlus
<1>7. SumOver(drawn, R) \in Nat /\ SumOver(PendingOf, R) \in Nat
  BY <1>2, <1>4, SumNat
<1>8. SumOver(PendingOf, R) <= pot
  BY <1>1, <1>5, <1>6, <1>7
<1> QED
  BY <1>1, <1>8 DEF R

(* The same as functions of the state, so that a step can be followed.      *)
SharesAt(s, r) == Splt!SelectInSeq(s, LAMBDA e : e.address = r)
TotalAt(s) == Splt!MapThenSumSet(LAMBDA i : s[i].shares, DOMAIN s)
EntitledAt(s, d, r) == (d * s[SharesAt(s, r)].shares) \div (TotalAt(s) % ShareWord)

LEMMA SplitterShape ==
    /\ Splt!SumOfShares = TotalAt(split)
    /\ \A r : Splt!Shares(r) = SharesAt(split, r)
    /\ \A r : Splt!Entitled(r) = EntitledAt(split, deposited, r)
<1>1. Splt!SumOfShares = TotalAt(split)
  BY DEF Splt!SumOfShares, TotalAt
<1>2. ASSUME NEW r PROVE Splt!Shares(r) = SharesAt(split, r)
  BY DEF Splt!Shares, SharesAt
<1>3. ASSUME NEW r PROVE Splt!Entitled(r) = EntitledAt(split, deposited, r)
  BY <1>1, <1>2 DEF Splt!Entitled, Splt!TotalShares, EntitledAt
<1> QED
  BY <1>1, <1>2, <1>3

LEMMA SplitKept ==
    ASSUME UNCHANGED split
    PROVE  /\ Splt!SumOfShares' = Splt!SumOfShares /\ Splt!Recipients' = Splt!Recipients
           /\ \A r : Splt!Shares(r)' = Splt!Shares(r)
           /\ deposited' = deposited => \A r : Splt!Entitled(r)' = Splt!Entitled(r)
<1>1. (/\ Splt!SumOfShares = TotalAt(split)
       /\ \A r : Splt!Shares(r) = SharesAt(split, r)
       /\ \A r : Splt!Entitled(r) = EntitledAt(split, deposited, r))'
  BY SplitterShape, PTL
<1>2. Splt!SumOfShares' = Splt!SumOfShares /\ \A r : Splt!Shares(r)' = Splt!Shares(r)
  BY <1>1, SplitterShape
<1>3. Splt!Recipients' = Splt!Recipients
  BY DEF Splt!Recipients
<1>4. ASSUME deposited' = deposited, NEW r PROVE Splt!Entitled(r)' = Splt!Entitled(r)
  BY <1>1, <1>4, SplitterShape
<1> QED
  BY <1>2, <1>3, <1>4

LEMMA DepositSplits == ASSUME Splitting, NEW n \in Payments, Splt!Deposit(n) PROVE Splitting'
<1>1. n \in Int /\ n >= 0 /\ deposited' = deposited + n /\ pot' = pot + n /\ UNCHANGED <<split, drawn>>
  BY SplitterAssumption DEF Splt!Deposit
<1>2. /\ Splt!SumOfShares' = Splt!SumOfShares /\ Splt!Recipients' = Splt!Recipients
      /\ \A r : Splt!Shares(r)' = Splt!Shares(r)
  BY <1>1, SplitKept
<1>3. split \in Seq(Entries) /\ Splt!Valid(split)
  BY DEF Splitting
<1> SUFFICES ASSUME Splt!SumOfShares < ShareWord
             PROVE  /\ deposited' \in Nat
                    /\ drawn \in [Splt!Recipients -> Nat]
                    /\ \A r \in Splt!Recipients : drawn[r] <= Splt!Entitled(r)'
                    /\ pot' = deposited' - SumOver(drawn, Splt!Recipients)
  BY <1>1, <1>2, <1>3 DEF Splitting, Splt!Valid
<1>4. /\ deposited \in Nat /\ drawn \in [Splt!Recipients -> Nat]
      /\ \A r \in Splt!Recipients : drawn[r] <= Splt!Entitled(r)
      /\ pot = deposited - SumOver(drawn, Splt!Recipients)
  BY DEF Splitting
<1>5. deposited' \in Nat
  BY <1>1, <1>4
<1>6. ASSUME NEW r \in Splt!Recipients PROVE drawn[r] <= Splt!Entitled(r)'
  <2> DEFINE w == Splt!SumOfShares
             share == SharesOf[Splt!Shares(r)]
  <2>1. /\ share \in Nat /\ w \in Nat \ {0} /\ Splt!Entitled(r) = (deposited * share) \div w
        /\ Splt!Entitled(r) \in Nat
    BY <1>3, <1>4, Entitlement
  <2>2. Splt!Entitled(r)' = (deposited' * share) \div w
    <3>1. Splt!Entitled(r)' = (deposited' * split[Splt!Shares(r)].shares) \div (Splt!SumOfShares % ShareWord)
      <4>1. Splt!Entitled(r)' = (deposited' * split'[Splt!Shares(r)'].shares) \div (Splt!SumOfShares' % ShareWord)
        BY DEF Splt!Entitled, Splt!TotalShares
      <4> QED
        BY <1>1, <1>2, <4>1
    <3>2. split[Splt!Shares(r)].shares = share
      BY <1>3, FirstEntry DEF SharesOf
    <3>3. Splt!SumOfShares % ShareWord = w
      BY <1>3, SharesPositive DEF Splt!TotalShares
    <3> QED
      BY <3>1, <3>2, <3>3
  <2> HIDE DEF share, w
  <2> DEFINE a == deposited * share
             b == deposited' * share
  <2>3. a \in Int /\ b \in Int /\ a <= b
    <3>1. share * deposited <= share * deposited'
      BY <1>1, <1>4, <1>5, <2>1, TimesOrdered
    <3>2. share * deposited = deposited * share /\ share * deposited' = deposited' * share
      BY <1>4, <1>5, <2>1
    <3>3. deposited * share \in Int /\ deposited' * share \in Int
      BY <1>4, <1>5, <2>1
    <3> QED
      BY <3>1, <3>2, <3>3
  <2> HIDE DEF a, b
  <2>4. a \div w <= b \div w
    BY <2>1, <2>3, QuotientOrdered
  <2>5. b \div w \in Int /\ a \div w \in Int
    BY <2>1, <2>3, QuotientBounds
  <2>6. drawn[r] \in Nat /\ drawn[r] <= a \div w
    BY <1>4, <2>1 DEF a
  <2> QED
    BY <2>2, <2>4, <2>5, <2>6 DEF b
<1>7. pot' = deposited' - SumOver(drawn, Splt!Recipients)
  <2>1. SumOver(drawn, Splt!Recipients) \in Nat
    BY <1>3, <1>4, SharesPositive, SumNat
  <2> QED
    BY <1>1, <1>4, <2>1
<1> QED
  BY <1>4, <1>5, <1>6, <1>7

LEMMA WithdrawSplits == ASSUME Splitting, NEW r \in Splt!Recipients, Splt!Withdraw(r) PROVE Splitting'
<1> DEFINE R == Splt!Recipients
           available == Splt!Entitled(r) - drawn[r]
<1>1. /\ available > 0 /\ drawn' = [drawn EXCEPT ![r] = @ + available]
      /\ pot' = pot - available /\ UNCHANGED <<split, deposited>>
  BY DEF Splt!Withdraw
<1>2. /\ Splt!SumOfShares' = Splt!SumOfShares /\ Splt!Recipients' = R
      /\ \A s : Splt!Entitled(s)' = Splt!Entitled(s)
  BY <1>1, SplitKept
<1>3. split \in Seq(Entries) /\ Splt!Valid(split)
  BY DEF Splitting
<1> SUFFICES ASSUME Splt!SumOfShares < ShareWord
             PROVE  /\ deposited' \in Nat
                    /\ drawn' \in [R -> Nat]
                    /\ \A s \in R : drawn'[s] <= Splt!Entitled(s)
                    /\ pot' = deposited' - SumOver(drawn', R)
  BY <1>1, <1>2, <1>3 DEF Splitting, Splt!Valid
<1>4. /\ deposited \in Nat /\ drawn \in [R -> Nat]
      /\ \A s \in R : drawn[s] <= Splt!Entitled(s)
      /\ pot = deposited - SumOver(drawn, R)
  BY DEF Splitting
<1>5. /\ IsFiniteSet(R) /\ \A s \in R : Splt!Entitled(s) \in Nat
  BY <1>3, <1>4, SharesPositive, Entitlement
<1> HIDE DEF R
<1>6. r \in R
  BY DEF R
<1>7. drawn'[r] = Splt!Entitled(r) /\ \A s \in R \ {r} : drawn'[s] = drawn[s]
  BY <1>1, <1>4, <1>5, <1>6
<1>8. drawn' \in [R -> Nat]
  BY <1>1, <1>4, <1>5, <1>6, <1>7
<1>9. /\ SumOver(drawn, R) \in Nat /\ SumOver(drawn', R) \in Nat
      /\ SumOver(drawn', R) = SumOver(drawn, R) - drawn[r] + drawn'[r]
  <2>1. \A s \in R : drawn[s] \in Nat /\ drawn'[s] \in Nat
    BY <1>4, <1>8
  <2> QED
    BY <1>5, <1>6, <1>7, <2>1, SumChange
<1>10. pot' = deposited - SumOver(drawn', R)
  BY <1>1, <1>4, <1>5, <1>6, <1>7, <1>9
<1>11. \A s \in R : drawn'[s] <= Splt!Entitled(s)
  BY <1>4, <1>5, <1>7
<1> QED
  BY <1>1, <1>4, <1>8, <1>10, <1>11

LEMMA SplitterAlways == ContractsSpec => []SplitterKept
<1>1. ContractsInit => SplitterKept
  <2> SUFFICES ASSUME ContractsInit, deployed = "splitter" PROVE Splitting
    BY DEF SplitterKept
  <2>1. Splt!Init
    BY DEF ContractsInit
  <2>2. split \in Seq(Entries) /\ Splt!Valid(split) /\ deposited = 0 /\ pot = 0
        /\ drawn = [r \in Splt!Recipients |-> 0]
    BY <2>1, SplitterAssumption DEF Splt!Init, Entries
  <2>3. Splt!SumOfShares < ShareWord => \A r \in Splt!Recipients : Splt!Entitled(r) \in Nat
    BY <2>2, Entitlement
  <2>4. SumOver(drawn, Splt!Recipients) = 0
    <3>1. IsFiniteSet(Splt!Recipients)
      BY <2>2, SharesPositive
    <3>2. \A r \in Splt!Recipients : drawn[r] \in Nat /\ drawn[r] = 0 * drawn[r]
      BY <2>2
    <3>3. SumOver(drawn, Splt!Recipients) = 0 * SumOver(drawn, Splt!Recipients)
      BY <3>1, <3>2, SumTimes
    <3>4. SumOver(drawn, Splt!Recipients) \in Nat
      BY <3>1, <3>2, SumNat
    <3> QED
      BY <3>3, <3>4
  <2> QED
    BY <2>2, <2>3, <2>4 DEF Splitting
<1>2. SplitterKept /\ [ContractsNext]_contractVars => SplitterKept'
  <2> SUFFICES ASSUME SplitterKept, [ContractsNext]_contractVars, deployed = "splitter" PROVE Splitting'
    BY OneContract DEF SplitterKept
  <2>1. Splitting /\ (Splt!Next \/ UNCHANGED Splt!vars)
    BY OneContract DEF SplitterKept
  <2>2. CASE UNCHANGED <<split, deposited, drawn, pot>>
    <3>1. /\ Splt!SumOfShares' = Splt!SumOfShares /\ Splt!Recipients' = Splt!Recipients
          /\ \A r : Splt!Entitled(r)' = Splt!Entitled(r)
      BY <2>2, SplitKept
    <3>2. Splt!Valid(split)' = Splt!Valid(split)
      BY <2>2 DEF Splt!Valid
    <3> QED
      BY <2>1, <2>2, <3>1, <3>2 DEF Splitting
  <2>3. \/ UNCHANGED <<split, deposited, drawn, pot>>
        \/ \E n \in Payments : Splt!Deposit(n)
        \/ \E r \in Splt!Recipients : Splt!Withdraw(r)
    BY <2>1 DEF Splt!Next, Splt!vars, Splt!SetLocked
  <2> QED
    BY <2>1, <2>2, <2>3, DepositSplits, WithdrawSplits
<1> QED
  BY <1>1, <1>2, PTL DEF ContractsSpec

(***************************************************************************)
(* Staking pool                                                            *)
(***************************************************************************)
StakeRecord == [amount : Nat, stakedAt : Nat, lastClaimAt : Nat, rewards : Nat]

WithAmount(i, v) == [i EXCEPT !.amount = v]
WithStakedAt(i, v) == [i EXCEPT !.stakedAt = v]
WithLastClaimAt(i, v) == [i EXCEPT !.lastClaimAt = v]
WithRewards(i, v) == [i EXCEPT !.rewards = v]

LEMMA StakeUpdates ==
    ASSUME NEW i \in StakeRecord, NEW v \in Nat
    PROVE  /\ WithAmount(i, v) \in StakeRecord /\ WithAmount(i, v).amount = v
           /\ WithAmount(i, v).lastClaimAt = i.lastClaimAt /\ WithAmount(i, v).rewards = i.rewards
           /\ WithStakedAt(i, v) \in StakeRecord /\ WithStakedAt(i, v).amount = i.amount
           /\ WithStakedAt(i, v).lastClaimAt = i.lastClaimAt /\ WithStakedAt(i, v).rewards = i.rewards
           /\ WithLastClaimAt(i, v) \in StakeRecord /\ WithLastClaimAt(i, v).amount = i.amount
           /\ WithLastClaimAt(i, v).lastClaimAt = v /\ WithLastClaimAt(i, v).rewards = i.rewards
           /\ WithRewards(i, v) \in StakeRecord /\ WithRewards(i, v).amount = i.amount
           /\ WithRewards(i, v).lastClaimAt = i.lastClaimAt /\ WithRewards(i, v).rewards = v
BY DEF StakeRecord, WithAmount, WithStakedAt, WithLastClaimAt, WithRewards

(* What was paid and is owed for a stake i, were it settled at time t, is   *)
(* within the rate for what was earned; a stake never made is no stake.     *)
Accrued(i, rate, t, e, c) ==
    /\ i \in StakeRecord /\ e \in Nat /\ c \in Nat
    /\ i.lastClaimAt <= t
    /\ i.lastClaimAt = 0 => i.amount = 0
    /\ (c + i.rewards) * RewardUnit + (i.amount * rate) * (t - i.lastClaimAt) <= rate * e

StakeOf(f) == [s \in Staker |-> f[s].amount]

Pooled ==
    /\ config \in [sameToken : BOOLEAN, rate : Nat, lockup : Nat, penaltyBps : Nat]
    /\ now \in Nat \ {0}
    /\ stakes \in [Staker -> StakeRecord]
    /\ tokens \in [{"stake", "reward"} -> Int] /\ penalties \in Int
    /\ earned \in [Staker -> Nat] /\ claimed \in [Staker -> Nat]
    /\ \A s \in Staker : Accrued(stakes[s], config.rate, now, earned[s], claimed[s])
    /\ totalStaked = SumOver(StakeOf(stakes), Staker)
    /\ ~config.sameToken => tokens["stake"] = totalStaked + penalties
StakingKept == deployed = "staking" => Pooled

LEMMA SumOfStakes == Stk!MapThenSumSet(LAMBDA s : stakes[s].amount, Staker) = SumOver(StakeOf(stakes), Staker)
<1> DEFINE Field(g, s) == IF s = {} THEN 0 ELSE stakes[Chosen(s)].amount + g[s \ {Chosen(s)}]
           Sought(g) == g = [s \in SUBSET Staker |-> Field(g, s)]
<1>1. ASSUME NEW g PROVE Sought(g) <=> Solves(g, StakeOf(stakes), SUBSET Staker)
  <2>1. \A s \in SUBSET Staker : s # {} => Chosen(s) \in Staker
    BY DEF Chosen
  <2>2. \A s \in SUBSET Staker : Field(g, s) = Step(g, StakeOf(stakes), s)
    BY <2>1 DEF Step, StakeOf
  <2> QED
    BY <2>2 DEF Solves
<1>2. (CHOOSE g : Sought(g)) = (CHOOSE g : Solves(g, StakeOf(stakes), SUBSET Staker))
  BY <1>1, Zenon
<1>3. Stk!MapThenSumSet(LAMBDA s : stakes[s].amount, Staker) = (CHOOSE g : Sought(g))[Staker]
  BY DEF Stk!MapThenSumSet, Stk!MapThenFoldSet, Chosen
<1> QED
  BY <1>2, <1>3, SumIsFold

LEMMA TotalIsNat == Pooled => totalStaked \in Nat
<1> SUFFICES ASSUME Pooled PROVE totalStaked \in Nat
  OBVIOUS
<1>1. \A p \in Staker : StakeOf(stakes)[p] \in Nat
  BY DEF Pooled, StakeOf, StakeRecord
<1>2. SumOver(StakeOf(stakes), Staker) \in Nat
  BY <1>1, StakingAssumption, SumNat
<1> QED
  BY <1>2 DEF Pooled

(* A stake is settled by what its time was worth, rounded down.             *)
LEMMA RewardsRounded ==
    ASSUME Pooled, NEW s \in Staker
    PROVE  LET i == stakes[s] IN
           /\ Stk!CalcRewards(i) \in Nat
           /\ (claimed[s] + i.rewards + Stk!CalcRewards(i)) * RewardUnit <= config.rate * earned[s]
<1> DEFINE i == stakes[s]
           r == config.rate
           a == i.amount * r
           d == now - i.lastClaimAt
           w == a * d
           q == Stk!CalcRewards(i)
           c == claimed[s] + i.rewards
           e == r * earned[s]
<1>1. /\ i \in StakeRecord /\ r \in Nat /\ earned[s] \in Nat /\ claimed[s] \in Nat /\ now \in Nat
      /\ i.lastClaimAt <= now /\ RewardUnit \in Nat \ {0}
      /\ c * RewardUnit + w <= e
  BY StakingAssumption DEF Pooled, Accrued
<1>2. a \in Nat /\ d \in Nat /\ c \in Nat
  BY <1>1 DEF StakeRecord
<1>3. w \in Nat /\ e \in Nat
  <2> HIDE DEF a, d, r
  <2> QED
    BY <1>1, <1>2
<1>4. q = IF i.amount = 0 \/ i.lastClaimAt = 0 THEN 0 ELSE w \div RewardUnit
  BY DEF Stk!CalcRewards
<1> HIDE DEF w, q, c, e
<1>5. q \in Nat /\ RewardUnit * q <= w
  <2>1. CASE i.amount = 0 \/ i.lastClaimAt = 0
    BY <1>1, <1>3, <1>4, <2>1
  <2>2. CASE ~(i.amount = 0 \/ i.lastClaimAt = 0)
    <3>1. q = w \div RewardUnit
      BY <1>4, <2>2
    <3>2. q \in Int /\ RewardUnit * q <= w
      BY <1>1, <1>3, <3>1, QuotientBounds
    <3>3. RewardUnit * 0 <= w
      BY <1>1, <1>3
    <3>4. 0 <= q
      BY <1>1, <1>3, <3>1, <3>3, QuotientLeast
    <3> QED
      BY <3>2, <3>4
  <2> QED
    BY <2>1, <2>2
<1>6. (c + q) * RewardUnit = c * RewardUnit + RewardUnit * q /\ c * RewardUnit \in Int /\ RewardUnit * q \in Int
  BY <1>1, <1>2, <1>5
<1>7. (c + q) * RewardUnit <= e
  BY <1>1, <1>3, <1>5, <1>6
<1> QED
  BY <1>5, <1>7 DEF q, c, e

(* A settled stake, changed by staking, unstaking or a claim, is accrued.   *)
LEMMA SettledStake ==
    ASSUME Pooled, NEW s \in Staker
    PROVE  LET i == stakes[s]
               j == Stk!Settled(i)
           IN /\ j \in StakeRecord /\ j.amount = i.amount /\ j.lastClaimAt = now
              /\ \A k \in StakeRecord, c \in Nat :
                     k.lastClaimAt = now /\ c + k.rewards = claimed[s] + j.rewards
                         => Accrued(k, config.rate, now, earned[s], c)
<1> DEFINE i == stakes[s]
           j == Stk!Settled(i)
           q == Stk!CalcRewards(i)
<1>1. i \in StakeRecord /\ now \in Nat \ {0} /\ config.rate \in Nat /\ earned[s] \in Nat /\ claimed[s] \in Nat
  BY DEF Pooled
<1>2. q \in Nat /\ (claimed[s] + i.rewards + q) * RewardUnit <= config.rate * earned[s]
  BY RewardsRounded
<1>3. j = [i EXCEPT !.rewards = @ + q, !.lastClaimAt = now]
  BY DEF Stk!Settled
<1> HIDE DEF q, i, j
<1>4. j \in StakeRecord /\ j.amount = i.amount /\ j.lastClaimAt = now /\ j.rewards = i.rewards + q
  <2> DEFINE r == WithRewards(i, i.rewards + q)
  <2>1. i.rewards + q \in Nat
    BY <1>1, <1>2 DEF StakeRecord
  <2>2. r \in StakeRecord /\ r.amount = i.amount /\ r.rewards = i.rewards + q
    BY <1>1, <2>1, StakeUpdates
  <2>3. j = WithLastClaimAt(r, now)
    BY <1>3 DEF WithRewards, WithLastClaimAt
  <2> HIDE DEF r
  <2> QED
    BY <1>1, <2>2, <2>3, StakeUpdates
<1>5. ASSUME NEW k \in StakeRecord, NEW c \in Nat, k.lastClaimAt = now, c + k.rewards = claimed[s] + j.rewards
      PROVE  Accrued(k, config.rate, now, earned[s], c)
  <2>1. k.amount \in Nat /\ k.rewards \in Nat /\ i.rewards \in Nat
    BY <1>1 DEF StakeRecord
  <2>2. c + k.rewards = claimed[s] + i.rewards + q
    BY <1>1, <1>2, <1>4, <1>5, <2>1
  <2>3. (c + k.rewards) * RewardUnit <= config.rate * earned[s] /\ (c + k.rewards) * RewardUnit \in Int
    BY <1>1, <1>2, <2>1, <2>2, StakingAssumption
  <2> DEFINE a == k.amount * config.rate
  <2>4. a \in Nat
    BY <1>1, <2>1
  <2> HIDE DEF a
  <2>5. a * (now - k.lastClaimAt) = 0
    BY <1>1, <1>5, <2>4
  <2>6. (c + k.rewards) * RewardUnit + a * (now - k.lastClaimAt) <= config.rate * earned[s]
    BY <2>3, <2>5
  <2> QED
    BY <1>1, <1>5, <2>6 DEF Accrued, a
<1> QED
  BY <1>4, <1>5 DEF i, j

LEMMA StakesChange ==
    ASSUME NEW h \in [Staker -> StakeRecord], NEW s \in Staker, NEW k \in StakeRecord
    PROVE  /\ SumOver(StakeOf(h), Staker) \in Nat
           /\ SumOver(StakeOf([h EXCEPT ![s] = k]), Staker) = SumOver(StakeOf(h), Staker) - h[s].amount + k.amount
<1> DEFINE f == StakeOf(h)
           g == StakeOf([h EXCEPT ![s] = k])
<1>1. IsFiniteSet(Staker)
  BY StakingAssumption
<1>2. \A p \in Staker : f[p] \in Nat /\ g[p] \in Nat
  BY DEF StakeOf, StakeRecord
<1>3. \A p \in Staker \ {s} : f[p] = g[p]
  BY DEF StakeOf
<1>4. f[s] = h[s].amount /\ g[s] = k.amount
  BY DEF StakeOf
<1> HIDE DEF f, g
<1>5. SumOver(f, Staker) \in Nat /\ SumOver(g, Staker) = SumOver(f, Staker) - f[s] + g[s]
  BY <1>1, <1>2, <1>3, SumChange, SMTT(60)
<1> QED
  BY <1>4, <1>5 DEF f, g

(* One stake changes by a call, and the total with it.                      *)
LEMMA OneStakeChanges ==
    ASSUME Pooled, NEW s \in Staker, NEW k \in StakeRecord, NEW c \in Nat,
           k.lastClaimAt = now, c + k.rewards = claimed[s] + Stk!Settled(stakes[s]).rewards,
           stakes' = [stakes EXCEPT ![s] = k], claimed' = [claimed EXCEPT ![s] = c],
           UNCHANGED <<now, config, earned>>,
           totalStaked' = totalStaked - stakes[s].amount + k.amount,
           tokens' \in [{"stake", "reward"} -> Int], penalties' \in Int,
           ~config.sameToken => tokens'["stake"] - penalties' = tokens["stake"] - penalties - stakes[s].amount + k.amount
    PROVE  Pooled'
<1>1. stakes \in [Staker -> StakeRecord] /\ claimed \in [Staker -> Nat] /\ earned \in [Staker -> Nat]
      /\ tokens \in [{"stake", "reward"} -> Int] /\ penalties \in Int
  BY DEF Pooled
<1>2. stakes' \in [Staker -> StakeRecord] /\ claimed' \in [Staker -> Nat]
  BY <1>1
<1>3. ASSUME NEW p \in Staker PROVE Accrued(stakes'[p], config.rate, now, earned[p], claimed'[p])
  <2>1. CASE p = s
    <3>1. stakes'[p] = k /\ claimed'[p] = c
      BY <1>1, <2>1
    <3> QED
      BY <2>1, <3>1, SettledStake
  <2>2. CASE p # s
    <3>1. stakes'[p] = stakes[p] /\ claimed'[p] = claimed[p]
      BY <1>1, <2>2
    <3> QED
      BY <3>1 DEF Pooled
  <2> QED
    BY <2>1, <2>2
<1>4. totalStaked' = SumOver(StakeOf(stakes'), Staker) /\ totalStaked \in Int
  <2>1. /\ SumOver(StakeOf(stakes), Staker) \in Nat
        /\ SumOver(StakeOf(stakes'), Staker) = SumOver(StakeOf(stakes), Staker) - stakes[s].amount + k.amount
    BY <1>1, StakesChange
  <2> QED
    BY <2>1 DEF Pooled
<1>5. ASSUME ~config.sameToken PROVE tokens'["stake"] = totalStaked' + penalties'
  <2>1. stakes[s].amount \in Nat /\ k.amount \in Nat /\ tokens'["stake"] \in Int /\ tokens["stake"] \in Int
    BY <1>1 DEF StakeRecord
  <2>2. tokens["stake"] = totalStaked + penalties
    BY <1>5 DEF Pooled
  <2>3. tokens'["stake"] - penalties' = tokens["stake"] - penalties - stakes[s].amount + k.amount
    BY <1>5
  <2> QED
    BY <1>1, <1>4, <2>1, <2>2, <2>3
<1> QED
  BY <1>2, <1>3, <1>4, <1>5 DEF Pooled

LEMMA StakePools == ASSUME Pooled, NEW s \in Staker, NEW n \in StakeSums, Stk!Stake(s, n) PROVE Pooled'
<1> DEFINE i == stakes[s]
           j == Stk!Settled(i)
           k == [j EXCEPT !.amount = @ + n, !.stakedAt = IF @ = 0 THEN now ELSE @]
<1>1. /\ n > 0 /\ stakes' = [stakes EXCEPT ![s] = k] /\ totalStaked' = totalStaked + n
      /\ tokens' = [tokens EXCEPT !["stake"] = @ + n] /\ UNCHANGED <<now, config, penalties, earned, claimed>>
  BY DEF Stk!Stake
<1>2. n \in Nat /\ now \in Nat /\ i \in StakeRecord /\ claimed \in [Staker -> Nat] /\ penalties \in Int
      /\ tokens \in [{"stake", "reward"} -> Int] /\ totalStaked \in Int
  BY <1>1, StakingAssumption, TotalIsNat DEF Pooled
<1>3. j \in StakeRecord /\ j.amount = i.amount /\ j.lastClaimAt = now
  BY SettledStake
<1> HIDE DEF i, j
<1>4. k \in StakeRecord /\ k.amount = i.amount + n /\ k.lastClaimAt = now /\ k.rewards = j.rewards
  <2> DEFINE r == WithAmount(j, j.amount + n)
             t == IF r.stakedAt = 0 THEN now ELSE r.stakedAt
  <2>1. j.amount + n \in Nat
    BY <1>2, <1>3 DEF StakeRecord
  <2>2. r \in StakeRecord /\ r.amount = j.amount + n /\ r.lastClaimAt = j.lastClaimAt /\ r.rewards = j.rewards
    BY <1>3, <2>1, StakeUpdates
  <2>3. k = WithStakedAt(r, t)
    BY DEF WithAmount, WithStakedAt
  <2>4. t \in Nat
    BY <1>2, <2>2 DEF StakeRecord
  <2> HIDE DEF r, t, k
  <2> QED
    BY <1>3, <2>2, <2>3, <2>4, StakeUpdates
<1> HIDE DEF k
<1>5. /\ totalStaked' = totalStaked - i.amount + k.amount
      /\ tokens' \in [{"stake", "reward"} -> Int] /\ tokens'["stake"] = tokens["stake"] + n
  BY <1>1, <1>2, <1>4 DEF StakeRecord
<1>6. tokens'["stake"] - penalties' = tokens["stake"] - penalties - i.amount + k.amount /\ penalties' \in Int
  BY <1>1, <1>2, <1>4, <1>5 DEF StakeRecord
<1>7. claimed[s] \in Nat /\ claimed' = [claimed EXCEPT ![s] = claimed[s]]
      /\ claimed[s] + k.rewards = claimed[s] + j.rewards
  BY <1>1, <1>2, <1>4
<1> QED
  BY <1>1, <1>4, <1>5, <1>6, <1>7, OneStakeChanges DEF i, j

LEMMA UnstakePools ==
    ASSUME Pooled, NEW s \in Staker, NEW n \in StakeSums, NEW force, Stk!Unstake(s, n, force) PROVE Pooled'
<1> DEFINE i == stakes[s]
           j == Stk!Settled(i)
           k == [j EXCEPT !.amount = @ - n]
           penalty == IF now < i.stakedAt + config.lockup THEN (n * config.penaltyBps) \div 10000 ELSE 0
<1>1. /\ n > 0 /\ n <= i.amount /\ n - penalty \in 0..tokens["stake"]
      /\ stakes' = [stakes EXCEPT ![s] = k] /\ totalStaked' = totalStaked - n
      /\ tokens' = [tokens EXCEPT !["stake"] = @ - (n - penalty)]
      /\ penalties' = penalties + penalty
      /\ UNCHANGED <<now, config, earned, claimed>>
  BY DEF Stk!Unstake
<1>2. n \in Nat /\ now \in Nat /\ i \in StakeRecord /\ claimed \in [Staker -> Nat] /\ penalties \in Int
      /\ tokens \in [{"stake", "reward"} -> Int] /\ config.penaltyBps \in Nat /\ totalStaked \in Int
  BY <1>1, StakingAssumption, TotalIsNat DEF Pooled
<1>3. penalty \in Int
  <2>1. n * config.penaltyBps \in Int
    BY <1>2
  <2> DEFINE w == n * config.penaltyBps
  <2> HIDE DEF w
  <2>2. w \div 10000 \in Int
    BY <2>1, QuotientBounds DEF w
  <2> QED
    BY <2>2 DEF w
<1>4. j \in StakeRecord /\ j.amount = i.amount /\ j.lastClaimAt = now
  BY SettledStake
<1> HIDE DEF i, j, penalty
<1>5. k \in StakeRecord /\ k.amount = i.amount - n /\ k.lastClaimAt = now /\ k.rewards = j.rewards
  <2>1. j.amount - n \in Nat
    BY <1>1, <1>2, <1>4 DEF StakeRecord
  <2> DEFINE v == j.amount - n
  <2>2. k = WithAmount(j, v) /\ v = i.amount - n
    BY <1>4 DEF WithAmount
  <2> HIDE DEF k, v
  <2> QED
    BY <1>4, <2>1, <2>2, StakeUpdates DEF v
<1> HIDE DEF k
<1>6. /\ totalStaked' = totalStaked - i.amount + k.amount
      /\ tokens' \in [{"stake", "reward"} -> Int] /\ tokens'["stake"] = tokens["stake"] - (n - penalty)
  BY <1>1, <1>2, <1>3, <1>5 DEF StakeRecord
<1>7. tokens'["stake"] - penalties' = tokens["stake"] - penalties - i.amount + k.amount /\ penalties' \in Int
  BY <1>1, <1>2, <1>3, <1>5, <1>6 DEF StakeRecord
<1>8. claimed[s] \in Nat /\ claimed' = [claimed EXCEPT ![s] = claimed[s]]
      /\ claimed[s] + k.rewards = claimed[s] + j.rewards
  BY <1>1, <1>2, <1>5
<1> QED
  BY <1>1, <1>5, <1>6, <1>7, <1>8, OneStakeChanges DEF i, j

LEMMA ClaimPools ==
    ASSUME Pooled, NEW s \in Staker, NEW compound \in BOOLEAN, Stk!ClaimRewards(s, compound) PROVE Pooled'
<1> DEFINE i == stakes[s]
           j == Stk!Settled(i)
           into == compound /\ config.sameToken
           k == [j EXCEPT !.rewards = 0, !.amount = IF into THEN @ + j.rewards ELSE @]
           c == claimed[s] + j.rewards
<1>1. /\ stakes' = [stakes EXCEPT ![s] = k] /\ claimed' = [claimed EXCEPT ![s] = c]
      /\ \/ into /\ totalStaked' = totalStaked + j.rewards /\ UNCHANGED tokens
         \/ ~into /\ tokens' = [tokens EXCEPT ![Stk!RewardToken] = @ - j.rewards] /\ UNCHANGED totalStaked
      /\ UNCHANGED <<now, config, penalties, earned>>
  BY DEF Stk!ClaimRewards
<1>2. now \in Nat /\ i \in StakeRecord /\ claimed \in [Staker -> Nat] /\ penalties \in Int
      /\ tokens \in [{"stake", "reward"} -> Int] /\ totalStaked \in Int
  BY TotalIsNat DEF Pooled
<1>3. j \in StakeRecord /\ j.amount = i.amount /\ j.lastClaimAt = now
  BY SettledStake
<1> HIDE DEF i, j
<1>4. /\ k \in StakeRecord /\ k.lastClaimAt = now /\ k.rewards = 0
      /\ k.amount = IF into THEN i.amount + j.rewards ELSE i.amount
  <2> DEFINE r == WithRewards(j, 0)
             v == IF into THEN r.amount + j.rewards ELSE r.amount
  <2>1. r \in StakeRecord /\ r.amount = i.amount /\ r.lastClaimAt = now /\ r.rewards = 0
    BY <1>3, StakeUpdates, ZenonT(60)
  <2>2. v \in Nat /\ j.rewards \in Nat
    BY <1>3, <2>1 DEF StakeRecord
  <2>3. k = WithAmount(r, v)
    BY DEF WithAmount, WithRewards
  <2>4. v = IF into THEN i.amount + j.rewards ELSE i.amount
    BY <2>1
  <2> HIDE DEF r, v, k
  <2>5. k \in StakeRecord /\ k.amount = v /\ k.lastClaimAt = r.lastClaimAt /\ k.rewards = r.rewards
    BY <2>1, <2>2, <2>3, StakeUpdates
  <2> QED
    BY <2>1, <2>4, <2>5
<1> HIDE DEF k
<1>5. j.rewards \in Nat /\ i.amount \in Nat /\ k.amount \in Nat /\ claimed[s] \in Nat /\ c \in Nat
  BY <1>2, <1>3, <1>4 DEF StakeRecord
<1>6. Stk!RewardToken = IF config.sameToken THEN "stake" ELSE "reward"
  BY DEF Stk!RewardToken
<1>7. totalStaked' = totalStaked - i.amount + k.amount /\ tokens' \in [{"stake", "reward"} -> Int]
  BY <1>1, <1>2, <1>4, <1>5, <1>6
<1>8. ASSUME ~config.sameToken
      PROVE  tokens'["stake"] - penalties' = tokens["stake"] - penalties - i.amount + k.amount
  BY <1>1, <1>2, <1>4, <1>5, <1>6, <1>8
<1>9. c + k.rewards = claimed[s] + j.rewards
  BY <1>4, <1>5
<1>10. penalties' \in Int
  BY <1>1, <1>2
<1> QED
  BY <1>1, <1>4, <1>5, <1>7, <1>8, <1>9, <1>10, OneStakeChanges DEF i, j

LEMMA TickPools == ASSUME Pooled, Stk!Tick PROVE Pooled'
<1>1. /\ now' = now + 1 /\ earned' = [s \in Staker |-> earned[s] + stakes[s].amount]
      /\ UNCHANGED <<config, stakes, totalStaked, tokens, penalties, claimed>>
  BY DEF Stk!Tick
<1>2. now \in Nat \ {0} /\ stakes \in [Staker -> StakeRecord] /\ earned \in [Staker -> Nat]
      /\ claimed \in [Staker -> Nat] /\ config.rate \in Nat
  BY DEF Pooled
<1>3. ASSUME NEW s \in Staker PROVE Accrued(stakes[s], config.rate, now', earned'[s], claimed[s])
  <2> DEFINE i == stakes[s]
             a == i.amount * config.rate
             d == now - i.lastClaimAt
             c == (claimed[s] + i.rewards) * RewardUnit
             e == config.rate * earned[s]
  <2>1. Accrued(i, config.rate, now, earned[s], claimed[s])
    BY DEF Pooled
  <2>2. i \in StakeRecord /\ i.lastClaimAt <= now /\ (i.lastClaimAt = 0 => i.amount = 0) /\ c + a * d <= e
    BY <2>1 DEF Accrued
  <2>3. a \in Nat /\ d \in Nat /\ earned[s] \in Nat /\ i.amount \in Nat /\ i.rewards \in Nat /\ claimed[s] \in Nat
    BY <1>2, <2>2 DEF StakeRecord
  <2>4. earned'[s] = earned[s] + i.amount /\ earned'[s] \in Nat
    BY <1>1, <2>3
  <2>5. config.rate * earned'[s] = e + a /\ e \in Int
    BY <1>2, <2>3, <2>4
  <2>6. now' - i.lastClaimAt = d + 1
    BY <1>1, <1>2, <2>2 DEF StakeRecord
  <2>7. c \in Int
    BY <1>2, <2>3, StakingAssumption
  <2>8. c + a * (d + 1) <= e + a
    <3> HIDE DEF a, c, d, e
    <3>1. a * (d + 1) = a * d + a /\ a * d \in Int
      BY <2>3
    <3> QED
      BY <2>2, <2>3, <2>5, <2>7, <3>1
  <2>9. c + a * (now' - i.lastClaimAt) <= config.rate * earned'[s]
    BY <2>5, <2>6, <2>8
  <2>10. i.lastClaimAt <= now'
    BY <1>1, <1>2, <2>2 DEF StakeRecord
  <2> QED
    BY <2>2, <2>3, <2>4, <2>9, <2>10 DEF Accrued
<1>4. now' \in Nat \ {0} /\ earned' \in [Staker -> Nat]
  <2>1. \A s \in Staker : earned'[s] \in Nat
    BY <1>3 DEF Accrued
  <2> QED
    BY <1>1, <1>2, <2>1
<1>5. \A s \in Staker : Accrued(stakes'[s], config'.rate, now', earned'[s], claimed'[s])
  BY <1>1, <1>3
<1>6. StakeOf(stakes)' = StakeOf(stakes)
  BY <1>1
<1> QED
  BY <1>1, <1>4, <1>5, <1>6 DEF Pooled

LEMMA FillPools == ASSUME Pooled, NEW n \in Gifts, Stk!Fill(n) PROVE Pooled'
<1>1. /\ tokens' = [tokens EXCEPT ![Stk!RewardToken] = @ + n] /\ n \in Int
      /\ UNCHANGED <<now, config, stakes, totalStaked, penalties, earned, claimed>>
  BY StakingAssumption DEF Stk!Fill
<1>2. tokens \in [{"stake", "reward"} -> Int]
  BY DEF Pooled
<1>3. tokens' \in [{"stake", "reward"} -> Int] /\ (~config.sameToken => tokens'["stake"] = tokens["stake"])
  BY <1>1, <1>2 DEF Stk!RewardToken
<1> QED
  BY <1>1, <1>3 DEF Pooled

LEMMA StakingAlways == ContractsSpec => []StakingKept
<1>1. ContractsInit => StakingKept
  <2> SUFFICES ASSUME ContractsInit, deployed = "staking" PROVE Pooled
    BY DEF StakingKept
  <2>1. /\ now = 1 /\ config \in Configs /\ stakes = [s \in Staker |-> Stk!NoStake] /\ totalStaked = 0
        /\ tokens = [k \in {"stake", "reward"} |-> 0] /\ penalties = 0
        /\ earned = [s \in Staker |-> 0] /\ claimed = [s \in Staker |-> 0]
    BY DEF ContractsInit, Stk!Init
  <2>2. Stk!NoStake \in StakeRecord /\ Stk!NoStake.amount = 0 /\ Stk!NoStake.rewards = 0 /\ Stk!NoStake.lastClaimAt = 0
    BY DEF Stk!NoStake, StakeRecord
  <2>3. config \in [sameToken : BOOLEAN, rate : Nat, lockup : Nat, penaltyBps : Nat]
    BY <2>1, StakingAssumption
  <2>4. ASSUME NEW s \in Staker PROVE Accrued(stakes[s], config.rate, now, earned[s], claimed[s])
    <3>1. stakes[s] = Stk!NoStake /\ earned[s] = 0 /\ claimed[s] = 0 /\ now = 1
      BY <2>1
    <3>2. config.rate \in Nat /\ RewardUnit \in Nat
      BY <2>3, StakingAssumption
    <3>3. (0 + 0) * RewardUnit + (0 * config.rate) * (1 - 0) <= config.rate * 0
      BY <3>2
    <3> QED
      BY <2>2, <3>1, <3>3 DEF Accrued
  <2>5. SumOver(StakeOf(stakes), Staker) = 0
    <3> DEFINE f == StakeOf(stakes)
    <3>1. \A s \in Staker : f[s] \in Nat /\ f[s] = 0 * f[s]
      BY <2>1, <2>2 DEF StakeOf
    <3> HIDE DEF f
    <3>2. SumOver(f, Staker) = 0 * SumOver(f, Staker)
      BY <3>1, StakingAssumption, SumTimes
    <3>3. SumOver(f, Staker) \in Nat
      BY <3>1, StakingAssumption, SumNat
    <3> QED
      BY <3>2, <3>3 DEF f
  <2> QED
    BY <2>1, <2>2, <2>3, <2>4, <2>5 DEF Pooled
<1>2. StakingKept /\ [ContractsNext]_contractVars => StakingKept'
  <2> SUFFICES ASSUME StakingKept, [ContractsNext]_contractVars, deployed = "staking" PROVE Pooled'
    BY OneContract DEF StakingKept
  <2>1. Pooled /\ (Stk!Next \/ UNCHANGED Stk!vars)
    BY OneContract DEF StakingKept
  <2>2. \/ \E s \in Staker :
              \/ \E n \in StakeSums : Stk!Stake(s, n) \/ \E force \in BOOLEAN : Stk!Unstake(s, n, force)
              \/ \E compound \in BOOLEAN : Stk!ClaimRewards(s, compound)
        \/ \E n \in Gifts : Stk!Fill(n)
        \/ Stk!Tick
        \/ UNCHANGED Stk!vars
    BY <2>1 DEF Stk!Next
  <2>3. CASE UNCHANGED Stk!vars
    BY <2>1, <2>3 DEF Pooled, Stk!vars
  <2> QED
    BY <2>1, <2>2, <2>3, StakePools, UnstakePools, ClaimPools, FillPools, TickPools
<1> QED
  BY <1>1, <1>2, PTL DEF ContractsSpec

LEMMA StakesBacked == Pooled => Stk!StakesAreBacked /\ Stk!RewardsAreEarned
BY SumOfStakes, RewardsRounded DEF Pooled, Stk!StakesAreBacked, Stk!RewardsAreEarned

(***************************************************************************)
(* NFT marketplace                                                         *)
(***************************************************************************)
NftRecord == [owner : Person, creator : Person, royaltyBps : Nat]
Listed == Listing \cup {none}
Auctioned == Auction \cup {none}

OfferAt(n, l, a) ==
    /\ l = none \/ a = none
    /\ l # none => l.seller = n.owner
    /\ a # none => a.seller = n.owner /\ (a.highestBidder = none => a.highestBid = 0)
BidIn(a) == IF a = none THEN 0 ELSE a.highestBid
BidsOf(a) == [id \in DOMAIN a |-> BidIn(a[id])]

Marketed ==
    /\ now \in Nat /\ feeBps \in Nat /\ unpaid \in Int
    /\ nfts \in Seq(NftRecord) /\ listings \in Seq(Listed) /\ auctions \in Seq(Auctioned)
    /\ DOMAIN listings = DOMAIN nfts /\ DOMAIN auctions = DOMAIN nfts
    /\ \A id \in DOMAIN nfts : OfferAt(nfts[id], listings[id], auctions[id])
    /\ purse = unpaid + SumOver(BidsOf(auctions), DOMAIN auctions)
MarketKept == deployed = "nft" => Marketed

LEMMA SumOfBids ==
    Nft!MapThenSumSet(LAMBDA id : IF auctions[id] = none THEN 0 ELSE auctions[id].highestBid, DOMAIN auctions)
        = SumOver(BidsOf(auctions), DOMAIN auctions)
<1> DEFINE D == DOMAIN auctions
           Field(g, s) == IF s = {} THEN 0
                          ELSE (IF auctions[Chosen(s)] = none THEN 0 ELSE auctions[Chosen(s)].highestBid)
                                   + g[s \ {Chosen(s)}]
           Sought(g) == g = [s \in SUBSET D |-> Field(g, s)]
<1>1. ASSUME NEW g PROVE Sought(g) <=> Solves(g, BidsOf(auctions), SUBSET D)
  <2>1. \A s \in SUBSET D : s # {} => Chosen(s) \in D
    BY DEF Chosen
  <2>2. \A s \in SUBSET D : Field(g, s) = Step(g, BidsOf(auctions), s)
    BY <2>1 DEF Step, BidsOf, BidIn
  <2> QED
    BY <2>2 DEF Solves
<1>2. (CHOOSE g : Sought(g)) = (CHOOSE g : Solves(g, BidsOf(auctions), SUBSET D))
  BY <1>1, Zenon
<1>3. Nft!MapThenSumSet(LAMBDA id : IF auctions[id] = none THEN 0 ELSE auctions[id].highestBid, D)
        = (CHOOSE g : Sought(g))[D]
  BY DEF Nft!MapThenSumSet, Nft!MapThenFoldSet, Chosen
<1> QED
  BY <1>2, <1>3, SumIsFold

LEMMA MarketCovers == Marketed => Nft!BidsAreCovered /\ Nft!OffersAreOwned
BY SumOfBids DEF Marketed, OfferAt, Nft!BidsAreCovered, Nft!OffersAreOwned

LEMMA BidTyped ==
    ASSUME NEW a \in Auctioned
    PROVE  /\ BidIn(a) \in Nat
           /\ a # none => a \in Auction /\ BidIn(a) = a.highestBid
           /\ none \notin Auction /\ none \notin Listing
BY AbsentAssumption DEF BidIn, Auctioned, Auction

(* The bids, with one auction changed or one token minted.                  *)
LEMMA BidChanges ==
    ASSUME NEW h, IsFiniteSet(DOMAIN h), \A i \in DOMAIN h : h[i] \in Auctioned,
           NEW id \in DOMAIN h, NEW e \in Auctioned
    PROVE  LET D == DOMAIN h IN
           /\ SumOver(BidsOf(h), D) \in Nat
           /\ SumOver(BidsOf([h EXCEPT ![id] = e]), D) = SumOver(BidsOf(h), D) - BidIn(h[id]) + BidIn(e)
<1> DEFINE f == BidsOf(h)
           g == BidsOf([h EXCEPT ![id] = e])
           D == DOMAIN h
<1>1. \A i \in D : f[i] \in Nat /\ g[i] \in Nat
  BY BidTyped DEF BidsOf
<1>2. \A i \in D \ {id} : f[i] = g[i]
  BY DEF BidsOf
<1>3. f[id] = BidIn(h[id]) /\ g[id] = BidIn(e)
  BY DEF BidsOf
<1>4. IsFiniteSet(D) /\ id \in D
  OBVIOUS
<1> HIDE DEF f, g, D
<1>5. SumOver(f, D) \in Nat /\ SumOver(g, D) = SumOver(f, D) - f[id] + g[id]
  <2>1. SumOver(f, D) = f[id] + SumOver(f, D \ {id}) /\ SumOver(g, D) = g[id] + SumOver(g, D \ {id})
    BY <1>1, <1>4, SumPick
  <2>2. SumOver(f, D \ {id}) = SumOver(g, D \ {id})
    BY <1>2, SumEqual
  <2>3. IsFiniteSet(D \ {id})
    BY <1>4, FS_RemoveElement
  <2>4. SumOver(f, D) \in Nat /\ SumOver(f, D \ {id}) \in Nat
    BY <1>1, <1>4, <2>3, SumNat
  <2> QED
    BY <1>1, <1>4, <2>1, <2>2, <2>4
<1> QED
  BY <1>3, <1>5 DEF f, g, D

LEMMA BidsChange ==
    ASSUME NEW h \in Seq(Auctioned), NEW id \in DOMAIN h, NEW a \in Auctioned
    PROVE  /\ SumOver(BidsOf(h), DOMAIN h) \in Nat
           /\ SumOver(BidsOf([h EXCEPT ![id] = a]), DOMAIN h) = SumOver(BidsOf(h), DOMAIN h) - BidIn(h[id]) + BidIn(a)
<1>1. DOMAIN h = 1..Len(h) /\ Len(h) \in Nat /\ \A i \in DOMAIN h : h[i] \in Auctioned
  BY LenProperties, ElementOfSeq
<1>2. IsFiniteSet(DOMAIN h)
  BY <1>1, FS_Interval
<1> QED
  BY <1>1, <1>2, BidChanges, Zenon

LEMMA BidsAppended ==
    ASSUME NEW h \in Seq(Auctioned)
    PROVE  SumOver(BidsOf(Append(h, none)), DOMAIN Append(h, none)) = SumOver(BidsOf(h), DOMAIN h)
<1> DEFINE k == Append(h, none)
           n == Len(h)
           f == BidsOf(k)
<1>1. /\ n \in Nat /\ DOMAIN h = 1..n /\ DOMAIN k = 1..(n + 1)
      /\ k[n + 1] = none /\ \A i \in 1..n : k[i] = h[i] /\ h[i] \in Auctioned
  BY LenProperties, ElementOfSeq
<1> HIDE DEF k, n
<1>2. f[n + 1] = 0 /\ \A i \in 1..n : f[i] = BidsOf(h)[i] /\ f[i] \in Nat
  BY <1>1, BidTyped DEF BidsOf, BidIn
<1>3. IsFiniteSet(1..(n + 1)) /\ (1..(n + 1)) \ {n + 1} = 1..n
  <2>1. (1..(n + 1)) \ {n + 1} = 1..n /\ 1 \in Int /\ n + 1 \in Int
    BY <1>1
  <2> QED
    BY <2>1, FS_Interval
<1>4. \A i \in 1..(n + 1) : f[i] \in Nat
  BY <1>1, <1>2
<1> HIDE DEF f
<1>5. SumOver(f, 1..(n + 1)) = f[n + 1] + SumOver(f, 1..n)
  <2> DEFINE D == 1..(n + 1)
             m == n + 1
  <2>1. m \in D
    BY <1>1
  <2>2. IsFiniteSet(D) /\ D \ {m} = 1..n /\ \A i \in D : f[i] \in Nat
    BY <1>3, <1>4
  <2> HIDE DEF D, m
  <2>3. SumOver(f, D) = f[m] + SumOver(f, D \ {m})
    BY <2>1, <2>2, SumPick
  <2> QED
    BY <2>2, <2>3 DEF D, m
<1>6. SumOver(f, 1..n) = SumOver(BidsOf(h), 1..n)
  BY <1>2, SumEqual
<1>7. SumOver(f, 1..n) \in Nat
  <2>1. IsFiniteSet(1..n)
    BY <1>1, FS_Interval
  <2> QED
    BY <1>2, <2>1, SumNat
<1> QED
  BY <1>1, <1>2, <1>5, <1>6, <1>7 DEF f, k

(* One token changes hands or offers.                                       *)
LEMMA EntryChanges ==
    ASSUME Marketed, NEW id \in DOMAIN nfts, NEW n \in NftRecord, NEW l \in Listed, NEW a \in Auctioned,
           OfferAt(n, l, a),
           nfts' = [nfts EXCEPT ![id] = n], listings' = [listings EXCEPT ![id] = l],
           auctions' = [auctions EXCEPT ![id] = a],
           UNCHANGED <<now, feeBps>>, unpaid' \in Int, purse' \in Int,
           purse' - unpaid' = purse - unpaid - BidIn(auctions[id]) + BidIn(a)
    PROVE  Marketed'
<1>1. /\ nfts \in Seq(NftRecord) /\ listings \in Seq(Listed) /\ auctions \in Seq(Auctioned)
      /\ DOMAIN listings = DOMAIN nfts /\ DOMAIN auctions = DOMAIN nfts /\ unpaid \in Int
      /\ \A i \in DOMAIN nfts : OfferAt(nfts[i], listings[i], auctions[i])
      /\ purse = unpaid + SumOver(BidsOf(auctions), DOMAIN auctions)
  BY DEF Marketed
<1>2. nfts' \in Seq(NftRecord) /\ listings' \in Seq(Listed) /\ auctions' \in Seq(Auctioned)
  BY <1>1, ExceptSeq
<1>3. DOMAIN nfts' = DOMAIN nfts /\ DOMAIN listings' = DOMAIN nfts /\ DOMAIN auctions' = DOMAIN nfts
  BY <1>1
<1>4. ASSUME NEW i \in DOMAIN nfts PROVE OfferAt(nfts'[i], listings'[i], auctions'[i])
  <2>1. CASE i = id
    <3>1. nfts'[i] = n /\ listings'[i] = l /\ auctions'[i] = a
      BY <1>1, <2>1
    <3> QED
      BY <3>1
  <2>2. CASE i # id
    <3>1. nfts'[i] = nfts[i] /\ listings'[i] = listings[i] /\ auctions'[i] = auctions[i]
      BY <1>1, <2>2
    <3> QED
      BY <1>1, <3>1
  <2> QED
    BY <2>1, <2>2
<1>5. purse' = unpaid' + SumOver(BidsOf(auctions'), DOMAIN auctions')
  <2>1. /\ SumOver(BidsOf(auctions), DOMAIN auctions) \in Nat
        /\ SumOver(BidsOf(auctions'), DOMAIN auctions)
             = SumOver(BidsOf(auctions), DOMAIN auctions) - BidIn(auctions[id]) + BidIn(a)
    BY <1>1, BidsChange
  <2>2. auctions[id] \in Auctioned
    BY <1>1, ElementOfSeq
  <2>3. BidIn(auctions[id]) \in Nat /\ BidIn(a) \in Nat
    BY <2>2, BidTyped
  <2>4. purse' - unpaid' = SumOver(BidsOf(auctions'), DOMAIN auctions)
    BY <1>1, <2>1, <2>3
  <2>5. SumOver(BidsOf(auctions'), DOMAIN auctions) \in Int
    BY <2>1, <2>3
  <2> QED
    BY <1>1, <1>3, <2>4, <2>5
<1> QED
  BY <1>2, <1>3, <1>4, <1>5 DEF Marketed

LEMMA EntryTyped ==
    ASSUME Marketed, NEW id \in DOMAIN nfts
    PROVE  /\ nfts[id] \in NftRecord /\ listings[id] \in Listed /\ auctions[id] \in Auctioned
           /\ OfferAt(nfts[id], listings[id], auctions[id])
           /\ nfts = [nfts EXCEPT ![id] = nfts[id]] /\ listings = [listings EXCEPT ![id] = listings[id]]
           /\ auctions = [auctions EXCEPT ![id] = auctions[id]]
           /\ purse \in Int /\ unpaid \in Int /\ now \in Nat
           /\ none \notin Auction /\ none \notin Listing
<1>1. /\ nfts \in Seq(NftRecord) /\ listings \in Seq(Listed) /\ auctions \in Seq(Auctioned)
      /\ DOMAIN listings = DOMAIN nfts /\ DOMAIN auctions = DOMAIN nfts
      /\ OfferAt(nfts[id], listings[id], auctions[id])
  BY DEF Marketed
<1>2. nfts[id] \in NftRecord /\ listings[id] \in Listed /\ auctions[id] \in Auctioned
  BY <1>1, ElementOfSeq
<1>3. /\ nfts = [nfts EXCEPT ![id] = nfts[id]] /\ listings = [listings EXCEPT ![id] = listings[id]]
      /\ auctions = [auctions EXCEPT ![id] = auctions[id]]
  BY <1>1, LenProperties
<1>4. purse \in Int /\ unpaid \in Int /\ now \in Nat
  BY <1>1, <1>2, BidsChange DEF Marketed
<1> QED
  BY <1>1, <1>2, <1>3, <1>4, AbsentAssumption

LEMMA MintMarkets == ASSUME Marketed, NEW p \in Person, NEW r \in RoyaltyBps, Nft!Mint(p, r) PROVE Marketed'
<1> DEFINE t == [owner |-> p, creator |-> p, royaltyBps |-> r]
<1>1. /\ nfts' = Append(nfts, t) /\ listings' = Append(listings, none) /\ auctions' = Append(auctions, none)
      /\ UNCHANGED <<now, feeBps, purse, unpaid>>
  BY DEF Nft!Mint
<1>2. t \in NftRecord
  BY MarketAssumption DEF NftRecord
<1> HIDE DEF t
<1>3. /\ nfts \in Seq(NftRecord) /\ listings \in Seq(Listed) /\ auctions \in Seq(Auctioned)
      /\ DOMAIN listings = DOMAIN nfts /\ DOMAIN auctions = DOMAIN nfts
  BY DEF Marketed
<1>4. none \in Listed /\ none \in Auctioned
  BY DEF Listed, Auctioned
<1>5. nfts' \in Seq(NftRecord) /\ listings' \in Seq(Listed) /\ auctions' \in Seq(Auctioned)
  BY <1>1, <1>2, <1>3, <1>4, AppendProperties
<1>6. Len(listings) = Len(nfts) /\ Len(auctions) = Len(nfts) /\ Len(nfts) \in Nat
  BY <1>3, LenProperties
<1> DEFINE n == Len(nfts)
<1>7. /\ DOMAIN nfts = 1..n /\ DOMAIN nfts' = 1..(n + 1) /\ DOMAIN listings' = 1..(n + 1)
      /\ DOMAIN auctions' = 1..(n + 1)
  BY <1>1, <1>2, <1>3, <1>4, <1>6, AppendProperties
<1>8. /\ listings'[n + 1] = none /\ auctions'[n + 1] = none
      /\ \A i \in 1..n : nfts'[i] = nfts[i] /\ listings'[i] = listings[i] /\ auctions'[i] = auctions[i]
  BY <1>1, <1>2, <1>3, <1>4, <1>6, AppendProperties
<1> HIDE DEF n
<1>9. \A i \in DOMAIN nfts' : OfferAt(nfts'[i], listings'[i], auctions'[i])
  <2> SUFFICES ASSUME NEW i \in DOMAIN nfts' PROVE OfferAt(nfts'[i], listings'[i], auctions'[i])
    OBVIOUS
  <2>1. CASE i = n + 1
    BY <1>8, <2>1 DEF OfferAt
  <2>2. CASE i \in 1..n
    BY <1>7, <1>8, <2>2 DEF Marketed
  <2> QED
    BY <1>6, <1>7, <2>1, <2>2 DEF n
<1>10. purse' = unpaid' + SumOver(BidsOf(auctions'), DOMAIN auctions')
  BY <1>1, <1>3, BidsAppended DEF Marketed
<1> QED
  BY <1>1, <1>5, <1>7, <1>9, <1>10 DEF Marketed

LEMMA TransferMarkets ==
    ASSUME Marketed, NEW id \in DOMAIN nfts, NEW p \in Person, Nft!Transfer(id, p) PROVE Marketed'
<1> DEFINE n == [nfts[id] EXCEPT !.owner = p]
<1>1. /\ nfts' = [nfts EXCEPT ![id] = n] /\ listings[id] = none /\ auctions[id] = none
      /\ UNCHANGED <<now, feeBps, listings, auctions, purse, unpaid>>
  BY DEF Nft!Transfer, Nft!Offered
<1>2. n \in NftRecord
  BY EntryTyped DEF NftRecord
<1> HIDE DEF n
<1>3. OfferAt(n, listings[id], auctions[id])
  BY <1>1 DEF OfferAt
<1>4. purse' - unpaid' = purse - unpaid - BidIn(auctions[id]) + BidIn(auctions[id])
  BY <1>1, EntryTyped DEF BidIn
<1> QED
  BY <1>1, <1>2, <1>3, <1>4, EntryTyped, EntryChanges

LEMMA ListMarkets ==
    ASSUME Marketed, NEW id \in DOMAIN nfts, NEW price \in Asked, Nft!List(id, price) PROVE Marketed'
<1> DEFINE l == [seller |-> nfts[id].owner, price |-> price]
<1>1. /\ listings' = [listings EXCEPT ![id] = l] /\ listings[id] = none /\ auctions[id] = none
      /\ UNCHANGED <<now, feeBps, nfts, auctions, purse, unpaid>>
  BY DEF Nft!List, Nft!Offered
<1>2. l \in Listed /\ l.seller = nfts[id].owner
  BY EntryTyped, MarketAssumption DEF NftRecord, Listed, Listing
<1> HIDE DEF l
<1>3. OfferAt(nfts[id], l, auctions[id])
  BY <1>1, <1>2 DEF OfferAt
<1>4. purse' - unpaid' = purse - unpaid - BidIn(auctions[id]) + BidIn(auctions[id])
  BY <1>1, EntryTyped DEF BidIn
<1>5. nfts' = [nfts EXCEPT ![id] = nfts[id]] /\ auctions' = [auctions EXCEPT ![id] = auctions[id]]
  BY <1>1, EntryTyped
<1>6. nfts[id] \in NftRecord /\ auctions[id] \in Auctioned /\ purse' \in Int /\ unpaid' \in Int
  BY <1>1, EntryTyped
<1> QED
  BY <1>1, <1>2, <1>3, <1>4, <1>5, <1>6, EntryChanges

LEMMA CancelMarkets ==
    ASSUME Marketed, NEW id \in DOMAIN nfts, Nft!CancelListing(id) PROVE Marketed'
<1>1. /\ listings' = [listings EXCEPT ![id] = none] /\ listings[id] # none
      /\ UNCHANGED <<now, feeBps, nfts, auctions, purse, unpaid>>
  BY DEF Nft!CancelListing
<1>2. auctions[id] = none
  BY <1>1, EntryTyped DEF OfferAt
<1>3. OfferAt(nfts[id], none, auctions[id]) /\ none \in Listed
  BY <1>2 DEF OfferAt, Listed
<1>4. purse' - unpaid' = purse - unpaid - BidIn(auctions[id]) + BidIn(auctions[id])
  BY <1>1, <1>2, EntryTyped DEF BidIn
<1> QED
  BY <1>1, <1>3, <1>4, EntryTyped, EntryChanges

LEMMA BuyMarkets ==
    ASSUME Marketed, NEW id \in DOMAIN nfts, NEW p \in Person, Nft!Buy(p, id) PROVE Marketed'
<1> DEFINE n == [nfts[id] EXCEPT !.owner = p]
<1>1. /\ nfts' = [nfts EXCEPT ![id] = n] /\ listings' = [listings EXCEPT ![id] = none] /\ listings[id] # none
      /\ UNCHANGED <<now, feeBps, auctions, purse, unpaid>>
  BY DEF Nft!Buy
<1>2. n \in NftRecord
  BY EntryTyped DEF NftRecord
<1> HIDE DEF n
<1>3. auctions[id] = none
  BY <1>1, EntryTyped DEF OfferAt
<1>4. OfferAt(n, none, auctions[id]) /\ none \in Listed
  BY <1>3 DEF OfferAt, Listed
<1>5. purse' - unpaid' = purse - unpaid - BidIn(auctions[id]) + BidIn(auctions[id])
  BY <1>1, <1>3, EntryTyped DEF BidIn
<1> QED
  BY <1>1, <1>2, <1>4, <1>5, EntryTyped, EntryChanges

LEMMA StartMarkets ==
    ASSUME Marketed, NEW id \in DOMAIN nfts, NEW reserved \in Asked, NEW d \in AuctionPeriods,
           Nft!StartAuction(id, reserved, d) PROVE Marketed'
<1> DEFINE a == [seller |-> nfts[id].owner, reserve |-> reserved, highestBid |-> 0,
                 highestBidder |-> none, endsAt |-> now + d]
<1>1. /\ auctions' = [auctions EXCEPT ![id] = a] /\ listings[id] = none /\ auctions[id] = none
      /\ UNCHANGED <<now, feeBps, nfts, listings, purse, unpaid>>
  BY DEF Nft!StartAuction, Nft!Offered
<1>2. a \in Auction /\ a.seller = nfts[id].owner /\ a.highestBid = 0
  BY EntryTyped, MarketAssumption DEF NftRecord, Auction
<1> HIDE DEF a
<1>3. a \in Auctioned /\ OfferAt(nfts[id], listings[id], a)
  BY <1>1, <1>2 DEF OfferAt, Auctioned
<1>4. BidIn(a) = 0 /\ BidIn(auctions[id]) = 0
  BY <1>1, <1>2 DEF BidIn
<1>5. purse' - unpaid' = purse - unpaid - BidIn(auctions[id]) + BidIn(a)
  BY <1>1, <1>4, EntryTyped
<1> QED
  BY <1>1, <1>3, <1>5, EntryTyped, EntryChanges

LEMMA BidMarkets ==
    ASSUME Marketed, NEW id \in DOMAIN nfts, NEW p \in Person, NEW amount \in Asked, Nft!Bid(p, id, amount)
    PROVE  Marketed'
<1> DEFINE b == auctions[id]
           c == [b EXCEPT !.highestBid = amount]
           a == [c EXCEPT !.highestBidder = p]
<1>1. /\ b # none /\ amount > b.highestBid /\ purse' = purse - b.highestBid + amount
      /\ UNCHANGED <<now, feeBps, nfts, listings, unpaid>>
  BY DEF Nft!Bid
<1>2. auctions' = [auctions EXCEPT ![id] = a]
  <2>1. auctions' = [auctions EXCEPT ![id].highestBid = amount, ![id].highestBidder = p]
    BY DEF Nft!Bid
  <2>2. id \in DOMAIN auctions
    BY DEF Marketed
  <2> QED
    BY <2>1, <2>2
<1>3. b \in Auction /\ BidIn(b) = b.highestBid
  BY <1>1, EntryTyped DEF Auctioned, BidIn
<1> HIDE DEF b
<1>4. amount \in Nat /\ b.highestBid \in Nat
  BY <1>1, <1>3, MarketAssumption DEF Auction
<1>5. c \in Auction /\ c.highestBid = amount /\ c.seller = b.seller
  BY <1>3, <1>4 DEF Auction
<1> HIDE DEF c
<1>6. a \in Auction /\ a.highestBid = amount /\ a.seller = b.seller /\ a.highestBidder = p /\ p # none
  BY <1>5, AbsentAssumption DEF Auction
<1> HIDE DEF a
<1>7. a # none /\ BidIn(a) = amount /\ a \in Auctioned
  BY <1>6, EntryTyped DEF BidIn, Auctioned
<1>8. OfferAt(nfts[id], listings[id], a)
  BY <1>1, <1>6, <1>7, EntryTyped DEF OfferAt, b
<1>9. purse' - unpaid' = purse - unpaid - BidIn(b) + BidIn(a) /\ purse' \in Int /\ unpaid' \in Int
  BY <1>1, <1>3, <1>4, <1>7, EntryTyped
<1>10. nfts' = [nfts EXCEPT ![id] = nfts[id]] /\ listings' = [listings EXCEPT ![id] = listings[id]]
  BY <1>1, EntryTyped
<1> QED
  BY <1>1, <1>2, <1>7, <1>8, <1>9, <1>10, EntryTyped, EntryChanges DEF b

LEMMA SettleMarkets ==
    ASSUME Marketed, NEW id \in DOMAIN nfts, Nft!SettleAuction(id) PROVE Marketed'
<1> DEFINE b == auctions[id]
           kept == Nft!Kept(id, b.seller, b.highestBid)
           n == [nfts[id] EXCEPT !.owner = b.highestBidder]
<1>1. /\ b # none /\ auctions' = [auctions EXCEPT ![id] = none] /\ UNCHANGED <<now, feeBps, listings>>
      /\ \/ b.highestBidder = none /\ UNCHANGED <<nfts, purse, unpaid>>
         \/ /\ b.highestBidder # none /\ nfts' = [nfts EXCEPT ![id] = n]
            /\ purse' = purse - (b.highestBid - kept) /\ unpaid' = unpaid + kept
  BY DEF Nft!SettleAuction
<1>2. b \in Auction /\ BidIn(b) = b.highestBid
  BY <1>1, EntryTyped DEF Auctioned, BidIn
<1>3. kept \in Int /\ b.highestBid \in Nat
  <2>1. b.highestBid \in Nat /\ nfts[id].royaltyBps \in Nat
    BY <1>2, EntryTyped DEF Auction, NftRecord
  <2> DEFINE w == b.highestBid * nfts[id].royaltyBps
  <2>2. w \in Int
    BY <2>1
  <2>3. kept = IF nfts[id].creator = b.seller THEN w \div 10000 ELSE 0
    BY DEF Nft!Kept, Nft!Royalty
  <2> HIDE DEF w, kept
  <2>4. w \div 10000 \in Int
    BY <2>2, QuotientBounds
  <2> QED
    BY <2>1, <2>3, <2>4
<1>4. b.highestBidder # none => n \in NftRecord
  BY <1>2, EntryTyped DEF Auction, NftRecord
<1>5. listings[id] = none
  BY <1>1, EntryTyped DEF OfferAt
<1> HIDE DEF kept
<1>6. none \in Auctioned /\ BidIn(none) = 0 /\ OfferAt(n, listings[id], none) /\ OfferAt(nfts[id], listings[id], none)
  BY <1>5 DEF OfferAt, Auctioned, BidIn
<1> HIDE DEF b, n
<1>7. CASE b.highestBidder # none
  <2>1. purse' - unpaid' = purse - unpaid - BidIn(b) + BidIn(none) /\ purse' \in Int /\ unpaid' \in Int
    BY <1>1, <1>2, <1>3, <1>6, <1>7, EntryTyped
  <2>2. nfts' = [nfts EXCEPT ![id] = n] /\ listings' = [listings EXCEPT ![id] = listings[id]]
    BY <1>1, <1>7, EntryTyped
  <2> QED
    BY <1>1, <1>4, <1>6, <1>7, <2>1, <2>2, EntryTyped, EntryChanges DEF b
<1>8. CASE b.highestBidder = none
  <2>1. BidIn(b) = 0
    BY <1>1, <1>2, <1>8, EntryTyped DEF OfferAt, b
  <2>2. purse' - unpaid' = purse - unpaid - BidIn(b) + BidIn(none) /\ purse' \in Int /\ unpaid' \in Int
    BY <1>1, <1>6, <1>8, <2>1, EntryTyped
  <2>3. nfts' = [nfts EXCEPT ![id] = nfts[id]] /\ listings' = [listings EXCEPT ![id] = listings[id]]
    BY <1>1, <1>8, EntryTyped
  <2> QED
    BY <1>1, <1>6, <2>2, <2>3, EntryTyped, EntryChanges DEF b
<1> QED
  BY <1>7, <1>8

LEMMA MarketAlways == ContractsSpec => []MarketKept
<1>1. ContractsInit => MarketKept
  <2> SUFFICES ASSUME ContractsInit, deployed = "nft" PROVE Marketed
    BY DEF MarketKept
  <2>1. /\ now = 0 /\ feeBps \in MarketFees /\ nfts = <<>> /\ listings = <<>> /\ auctions = <<>>
        /\ purse = 0 /\ unpaid = 0
    BY DEF ContractsInit, Nft!Init
  <2>2. SumOver(BidsOf(auctions), DOMAIN auctions) = 0
    <3>1. DOMAIN auctions = {}
      BY <2>1
    <3> QED
      BY <3>1, SumEmpty
  <2>3. feeBps \in Nat
    BY <2>1, MarketAssumption
  <2>4. /\ nfts \in Seq(NftRecord) /\ listings \in Seq(Listed) /\ auctions \in Seq(Auctioned)
        /\ DOMAIN listings = DOMAIN nfts /\ DOMAIN auctions = DOMAIN nfts /\ DOMAIN nfts = {}
    BY <2>1
  <2> QED
    BY <2>1, <2>2, <2>3, <2>4 DEF Marketed
<1>2. MarketKept /\ [ContractsNext]_contractVars => MarketKept'
  <2> SUFFICES ASSUME MarketKept, [ContractsNext]_contractVars, deployed = "nft" PROVE Marketed'
    BY OneContract DEF MarketKept
  <2>1. Marketed /\ (Nft!Next \/ UNCHANGED Nft!vars)
    BY OneContract DEF MarketKept
  <2>2. \/ \E p \in Person, r \in RoyaltyBps : Nft!Mint(p, r)
        \/ \E id \in DOMAIN nfts :
              \/ \E p \in Person : \/ Nft!Transfer(id, p) \/ Nft!Buy(p, id)
                                  \/ \E n \in Asked : Nft!Bid(p, id, n)
              \/ \E n \in Asked : \/ Nft!List(id, n)
                                 \/ \E d \in AuctionPeriods : Nft!StartAuction(id, n, d)
              \/ Nft!CancelListing(id)
              \/ Nft!SettleAuction(id)
        \/ Nft!Tick
        \/ UNCHANGED Nft!vars
    BY <2>1 DEF Nft!Next
  <2>3. CASE Nft!Tick
    BY <2>1, <2>3 DEF Marketed, Nft!Tick
  <2>4. CASE UNCHANGED Nft!vars
    BY <2>1, <2>4 DEF Marketed, Nft!vars
  <2> QED
    BY <2>1, <2>2, <2>3, <2>4, MintMarkets, TransferMarkets, BuyMarkets, BidMarkets, ListMarkets,
       StartMarkets, CancelMarkets, SettleMarkets
<1> QED
  BY <1>1, <1>2, PTL DEF ContractsSpec

(***************************************************************************)
(* Liquidity pool                                                          *)
(***************************************************************************)
LEMMA ProductOrdered ==
    ASSUME NEW a \in Nat, NEW b \in Nat, NEW c \in Nat, NEW d \in Nat, a <= b, c <= d
    PROVE  a * c <= b * d
<1>1. a * c <= a * d
  BY TimesOrdered
<1>2. d * a <= d * b
  BY TimesOrdered
<1>3. d * a = a * d /\ d * b = b * d /\ a * c \in Int /\ a * d \in Int /\ b * d \in Int
  OBVIOUS
<1> QED
  BY <1>1, <1>2, <1>3

LEMMA PositiveProduct ==
    ASSUME NEW a \in Nat, NEW b \in Nat
    PROVE  a * b \in Nat /\ (a * b > 0 <=> a > 0 /\ b > 0)
<1>1. a * b \in Nat
  OBVIOUS
<1>2. CASE a > 0 /\ b > 0
  <2>1. 1 <= a /\ 1 <= b /\ 1 * 1 = 1
    BY <1>2
  <2>2. 1 * 1 <= a * b
    BY <2>1, ProductOrdered
  <2> QED
    BY <1>1, <1>2, <2>1, <2>2
<1>3. CASE a = 0 \/ b = 0
  BY <1>3
<1> QED
  BY <1>1, <1>2, <1>3

(* Two reserves that both grow at least as the shares do.                   *)
LEMMA ValueKept ==
    ASSUME NEW a \in Nat, NEW b \in Nat, NEW c \in Nat, NEW d \in Nat, NEW t \in Nat, NEW u \in Nat,
           a * u <= c * t, b * u <= d * t
    PROVE  a * b * u * u <= c * d * t * t
<1>1. a * u \in Nat /\ b * u \in Nat /\ c * t \in Nat /\ d * t \in Nat
  OBVIOUS
<1>2. (a * u) * (b * u) <= (c * t) * (d * t)
  BY <1>1, ProductOrdered
<1>3. (a * u) * (b * u) = a * b * u * u
  OBVIOUS
<1>4. (c * t) * (d * t) = c * d * t * t
  OBVIOUS
<1> QED
  BY <1>2, <1>3, <1>4

(* The integer square root exists.                                          *)
LEMMA SquareRoot ==
    ASSUME NEW n \in Nat
    PROVE  /\ Pool!Sqrt(n) \in Nat
           /\ n > 0 => Pool!Sqrt(n) > 0
<1> DEFINE T == {r \in Nat : n < (r + 1) * (r + 1)}
           Root(r) == r * r <= n /\ n < (r + 1) * (r + 1)
<1>1. n \in T
  <2>1. (n + 1) * (n + 1) = n * n + n + n + 1 /\ n * n \in Nat
    OBVIOUS
  <2> QED
    BY <2>1
<1>2. PICK r \in T : \A m \in T : r <= m
  BY <1>1, LeastNumber
<1>3. r \in 0..n
  BY <1>1, <1>2
<1>4. r * r <= n
  <2>1. CASE r = 0
    BY <2>1
  <2>2. CASE r # 0
    <3>1. r - 1 \in Nat /\ ~(r <= r - 1)
      BY <1>2, <2>2
    <3>2. r - 1 \notin T
      BY <1>2, <3>1
    <3>3. ~(n < (r - 1 + 1) * (r - 1 + 1)) /\ r - 1 + 1 = r
      BY <1>2, <3>1, <3>2
    <3>4. r * r \in Int
      BY <1>2
    <3> QED
      BY <3>3, <3>4
  <2> QED
    BY <2>1, <2>2
<1>5. Root(r)
  BY <1>2, <1>4
<1> DEFINE q == CHOOSE s \in 0..n : Root(s)
<1>6. q \in 0..n /\ Root(q)
  BY <1>3, <1>5
<1>7. Pool!Sqrt(n) = q
  BY DEF Pool!Sqrt
<1>8. n > 0 => q # 0
  BY <1>6
<1> HIDE DEF q
<1> QED
  BY <1>6, <1>7, <1>8

Filled ==
    /\ poolFee \in Nat /\ poolFee <= 10000 /\ totalShares \in Nat
    /\ reserve \in [Pool!Side -> Nat] /\ shares \in [Lp -> Nat]
    /\ totalShares > 0 => reserve["a"] > 0 /\ reserve["b"] > 0
    /\ totalShares = 0 => reserve["a"] = 0 /\ reserve["b"] = 0
FilledKept == deployed = "pool" => Filled

(* A step after which every share stands for as much of both reserves.      *)
LEMMA SharesHoldTheirPart ==
    ASSUME Filled, Filled', \A k \in Pool!Side : reserve[k] * totalShares' <= reserve'[k] * totalShares
    PROVE  Pool!ShareKeepsItsValue
<1> DEFINE a == reserve["a"]
           b == reserve["b"]
           c == reserve'["a"]
           d == reserve'["b"]
           t == totalShares
           u == totalShares'
<1>1. a \in Nat /\ b \in Nat /\ c \in Nat /\ d \in Nat /\ t \in Nat /\ u \in Nat
  BY DEF Filled, Pool!Side
<1>2. a * u <= c * t /\ b * u <= d * t
  BY DEF Pool!Side
<1>3. (u > 0 => c > 0 /\ d > 0) /\ (u = 0 => c = 0 /\ d = 0)
  BY DEF Filled
<1>4. Pool!Product = a * b /\ Pool!Product' = c * d
  BY DEF Pool!Product
<1> HIDE DEF a, b, c, d, t, u
<1>5. a * b * u * u <= c * d * t * t
  BY <1>1, <1>2, ValueKept
<1>6. c * d > 0 <=> u > 0
  BY <1>1, <1>3, PositiveProduct
<1>7. a * b * u * u \in Int /\ c * d * t * t \in Int
  BY <1>1
<1>8. c * d * t * t >= a * b * u * u
  BY <1>5, <1>7
<1> QED
  BY <1>4, <1>6, <1>8, SMTT(60) DEF Pool!ShareKeepsItsValue, t, u

LEMMA SwapFills ==
    ASSUME Filled, NEW k \in Pool!Side, NEW n \in PoolSums, NEW least, Pool!Swap(k, n, least)
    PROVE  Filled' /\ Pool!ShareKeepsItsValue
<1> DEFINE o == Pool!Other(k)
           fee == (n * poolFee) \div 10000
           into == n - fee
           r == reserve[k]
           s == reserve[o]
           out == (s * into) \div (r + into)
<1>1. /\ n > 0 /\ n \in Nat /\ reserve["a"] # 0 /\ reserve["b"] # 0
      /\ reserve' = [reserve EXCEPT ![k] = @ + n, ![o] = @ - out]
      /\ UNCHANGED <<poolFee, totalShares, shares>>
  BY PoolAssumption DEF Pool!Swap
<1>2. o \in Pool!Side /\ o # k /\ Pool!Side = {k, o}
  BY DEF Pool!Other, Pool!Side
<1>3. /\ reserve \in [Pool!Side -> Nat] /\ poolFee \in Nat /\ poolFee <= 10000 /\ totalShares \in Nat
      /\ totalShares > 0 /\ shares \in [Lp -> Nat]
  BY <1>1 DEF Filled
<1>4. r \in Nat /\ s \in Nat /\ r > 0 /\ s > 0
  BY <1>1, <1>2, <1>3 DEF Pool!Side
<1>5. into \in Nat /\ into <= n
  <2> DEFINE w == n * poolFee
  <2>1. w \in Int /\ w <= 10000 * n /\ 10000 * 0 <= w
    <3>1. n * poolFee <= n * 10000
      BY <1>1, <1>3, TimesOrdered
    <3> QED
      BY <1>1, <1>3, <3>1
  <2>2. fee = w \div 10000
    OBVIOUS
  <2> HIDE DEF w, fee
  <2>3. fee \in Int
    BY <2>1, <2>2, QuotientBounds
  <2>4. fee <= n
    BY <1>1, <2>1, <2>2, QuotientMost
  <2>5. 0 <= fee
    BY <2>1, <2>2, QuotientLeast
  <2> QED
    BY <1>1, <2>3, <2>4, <2>5
<1>6. reserve'[k] = r + n /\ reserve'[o] = s - out /\ reserve' = [j \in Pool!Side |-> IF j = k THEN r + n ELSE s - out]
  <2> DEFINE more == r + n
             less == s - out
  <2>1. reserve' = [reserve EXCEPT ![k] = more, ![o] = less]
    BY <1>1, <1>2
  <2> HIDE DEF more, less, o
  <2>2. /\ reserve'[k] = more /\ reserve'[o] = less
        /\ reserve' = [j \in Pool!Side |-> IF j = k THEN more ELSE less]
    <3> DEFINE h == [reserve EXCEPT ![k] = more]
    <3>1. DOMAIN reserve = {k, o} /\ o # k /\ reserve' = [h EXCEPT ![o] = less]
      BY <1>2, <1>3, <2>1
    <3>2. DOMAIN h = {k, o} /\ h[k] = more /\ h = [j \in {k, o} |-> h[j]]
      BY <3>1
    <3> HIDE DEF h
    <3>3. reserve' = [j \in {k, o} |-> IF j = o THEN less ELSE h[j]]
      BY <3>1, <3>2
    <3>4. \A j \in {k, o} : (IF j = o THEN less ELSE h[j]) = IF j = k THEN more ELSE less
      BY <3>1, <3>2
    <3>5. reserve' = [j \in {k, o} |-> IF j = k THEN more ELSE less]
      BY <3>3, <3>4
    <3> QED
      BY <1>2, <3>1, <3>5
  <2> QED
    BY <2>2 DEF more, less
<1> HIDE DEF o, fee, into, r, s
<1>7. out \in Int /\ (r + into) * out <= s * into /\ 0 <= out
  <2> DEFINE w == s * into
             e == r + into
  <2>1. w \in Nat /\ e \in Nat \ {0} /\ e * 0 <= w
    BY <1>4, <1>5
  <2> HIDE DEF w, e
  <2>2. w \div e \in Int /\ e * (w \div e) <= w
    BY <2>1, QuotientBounds
  <2>3. 0 <= w \div e
    BY <2>1, QuotientLeast
  <2> QED
    BY <2>2, <2>3 DEF w, e
<1> HIDE DEF out
<1>8. r * s <= (r + into) * (s - out)
  <2>1. (r + into) * (s - out) = r * s + s * into - (r + into) * out
    BY <1>4, <1>5, <1>7
  <2>2. r * s \in Int /\ s * into \in Int /\ (r + into) * out \in Int
    BY <1>4, <1>5, <1>7
  <2> QED
    BY <1>7, <2>1, <2>2
<1>9. s - out > 0
  <2> SUFFICES ASSUME s - out <= 0 PROVE FALSE
    BY <1>4, <1>7
  <2> DEFINE e == r + into
             v == out - s
  <2>1. e \in Nat /\ v \in Nat /\ s - out = -v
    BY <1>4, <1>5, <1>7
  <2>2. e * (s - out) <= 0
    <3> HIDE DEF e, v
    <3>1. e * (-v) = -(e * v) /\ e * v \in Nat
      BY <2>1
    <3> QED
      BY <2>1, <3>1
  <2>3. r * s > 0
    BY <1>4, PositiveProduct
  <2>4. r * s \in Int /\ e * (s - out) \in Int
    BY <1>4, <1>7, <2>1
  <2> QED
    BY <1>8, <2>2, <2>3, <2>4
<1>10. r * s <= (r + n) * (s - out)
  <2> DEFINE f == s - out
  <2>1. f \in Nat /\ r + into \in Nat /\ r + n \in Nat /\ r + into <= r + n
    BY <1>1, <1>4, <1>5, <1>7, <1>9
  <2> HIDE DEF f
  <2>2. (r + into) * f <= (r + n) * f
    BY <2>1, ProductOrdered
  <2>3. r * s \in Int /\ (r + into) * f \in Int /\ (r + n) * f \in Int
    BY <1>1, <1>4, <1>5, <2>1
  <2>4. r * s <= (r + into) * f
    BY <1>8 DEF f
  <2>5. r * s <= (r + n) * f
    BY <2>2, <2>3, <2>4
  <2> QED
    BY <2>5 DEF f
<1>11. r + n \in Nat /\ s - out \in Nat /\ r + n > 0
  BY <1>1, <1>4, <1>7, <1>9, SMTT(60)
<1>12. Filled'
  <2>1. reserve' \in [Pool!Side -> Nat] /\ \A j \in Pool!Side : reserve'[j] > 0
    BY <1>2, <1>6, <1>9, <1>11
  <2>2. reserve'["a"] > 0 /\ reserve'["b"] > 0
    BY <2>1 DEF Pool!Side
  <2>3. /\ poolFee' \in Nat /\ poolFee' <= 10000 /\ totalShares' \in Nat /\ totalShares' > 0 /\ shares' \in [Lp -> Nat]
        /\ ~(totalShares' = 0)
    BY <1>1, <1>3
  <2> QED
    BY ONLY <2>1, <2>2, <2>3 DEF Filled
<1>13. Pool!Product' >= Pool!Product /\ Pool!Product \in Nat /\ Pool!Product' \in Nat
  <2>1. Pool!Product = r * s
    <3>1. CASE k = "a"
      BY <3>1 DEF Pool!Product, Pool!Other, r, s, o
    <3>2. CASE k = "b"
      <4>1. reserve["a"] * reserve["b"] = reserve["b"] * reserve["a"]
        BY <1>3 DEF Pool!Side
      <4> QED
        BY <3>2, <4>1 DEF Pool!Product, Pool!Other, r, s, o
    <3> QED
      BY <3>1, <3>2 DEF Pool!Side
  <2>2. Pool!Product' = (r + n) * (s - out)
    <3>1. CASE k = "a"
      <4>1. o = "b"
        BY <3>1 DEF Pool!Other, o
      <4> QED
        BY <1>6, <3>1, <4>1 DEF Pool!Product
    <3>2. CASE k = "b"
      <4>1. o = "a"
        BY <3>2 DEF Pool!Other, o
      <4>2. Pool!Product' = (s - out) * (r + n)
        BY <1>6, <3>2, <4>1 DEF Pool!Product
      <4> QED
        BY <1>11, <4>2
    <3> QED
      BY <3>1, <3>2 DEF Pool!Side
  <2>3. r * s \in Nat /\ (r + n) * (s - out) \in Nat
    BY <1>4, <1>11
  <2> QED
    BY <1>10, <2>1, <2>2, <2>3
<1>14. Pool!Product' > 0
  <2>1. Filled' /\ totalShares' > 0
    BY <1>1, <1>3, <1>12
  <2>2. /\ reserve'["a"] \in Nat /\ reserve'["b"] \in Nat
        /\ reserve'["a"] > 0 /\ reserve'["b"] > 0
    BY ONLY <2>1 DEF Filled, Pool!Side
  <2>3. reserve'["a"] * reserve'["b"] > 0
    BY <2>2, PositiveProduct
  <2> QED
    BY <2>3 DEF Pool!Product
<1>15. Pool!Product' * totalShares * totalShares >= Pool!Product * totalShares * totalShares
  <2> DEFINE p == Pool!Product
             q == Pool!Product'
             t == totalShares
             tt == t * t
  <2>1. p \in Nat /\ q \in Nat /\ p <= q /\ t \in Nat
    BY <1>3, <1>13
  <2> HIDE DEF p, q, t
  <2>2. tt \in Nat /\ p * t * t = tt * p /\ q * t * t = tt * q
    BY <2>1
  <2> HIDE DEF tt
  <2>3. tt * p <= tt * q /\ tt * p \in Int /\ tt * q \in Int
    BY <2>1, <2>2, TimesOrdered
  <2>4. q * t * t >= p * t * t
    BY <2>2, <2>3
  <2> QED
    BY <2>4 DEF p, q, t
<1> QED
  BY <1>1, <1>3, <1>12, <1>14, <1>15 DEF Pool!ShareKeepsItsValue

LEMMA AddFills ==
    ASSUME Filled, NEW p \in Lp, NEW n \in [Pool!Side -> PoolSums], NEW least, Pool!AddLiquidity(p, n, least)
    PROVE  Filled' /\ Pool!ShareKeepsItsValue
<1> DEFINE m == Pool!Minted(n)
           t == totalShares
<1>1. /\ \A k \in Pool!Side : n[k] > 0
      /\ reserve' = [k \in Pool!Side |-> reserve[k] + n[k]]
      /\ totalShares' = t + m /\ shares' = [shares EXCEPT ![p] = @ + m]
      /\ UNCHANGED poolFee
  BY DEF Pool!AddLiquidity
<1>2. /\ reserve \in [Pool!Side -> Nat] /\ poolFee \in Nat /\ poolFee <= 10000 /\ t \in Nat /\ shares \in [Lp -> Nat]
      /\ t > 0 => reserve["a"] > 0 /\ reserve["b"] > 0
      /\ t = 0 => reserve["a"] = 0 /\ reserve["b"] = 0
  BY DEF Filled
<1>3. "a" \in Pool!Side /\ "b" \in Pool!Side /\ \A k \in Pool!Side : k = "a" \/ k = "b"
  BY DEF Pool!Side
<1>4. \A k \in Pool!Side : n[k] \in Nat /\ n[k] > 0
  BY <1>1, PoolAssumption
<1>5. /\ m \in Nat
      /\ t = 0 => m > 0
      /\ t > 0 => \A k \in Pool!Side : reserve[k] * m <= n[k] * t
  <2>1. CASE t = 0
    <3>1. m = Pool!Sqrt(n["a"] * n["b"])
      BY <2>1 DEF Pool!Minted
    <3>2. n["a"] * n["b"] \in Nat /\ n["a"] * n["b"] > 0
      BY <1>3, <1>4, PositiveProduct
    <3> DEFINE w == n["a"] * n["b"]
    <3> HIDE DEF w, m
    <3>3. w \in Nat /\ w > 0 /\ m = Pool!Sqrt(w)
      BY <3>1, <3>2 DEF w
    <3>4. m \in Nat /\ m > 0
      BY <3>3, SquareRoot
    <3> QED
      BY <2>1, <3>4
  <2>2. CASE t # 0
    <3> DEFINE part(k) == (n[k] * t) \div reserve[k]
    <3>1. m = IF part("a") < part("b") THEN part("a") ELSE part("b")
      BY <2>2 DEF Pool!Minted
    <3>2. ASSUME NEW k \in Pool!Side PROVE part(k) \in Nat /\ reserve[k] * part(k) <= n[k] * t
      <4> DEFINE w == n[k] * t
                 d == reserve[k]
      <4>1. d \in Nat \ {0}
        BY <1>2, <1>3, <2>2
      <4>2. w \in Nat
        BY <1>2, <1>4
      <4> HIDE DEF w, d
      <4>3. d * 0 <= w
        BY <4>1, <4>2
      <4>4. w \div d \in Int /\ d * (w \div d) <= w
        BY <4>1, <4>2, QuotientBounds
      <4>5. 0 <= w \div d
        BY <4>1, <4>2, <4>3, QuotientLeast
      <4> QED
        BY <4>4, <4>5 DEF w, d
    <3> HIDE DEF part, m
    <3>3. m \in Nat /\ \A k \in Pool!Side : m <= part(k)
      BY <1>3, <3>1, <3>2
    <3>4. ASSUME NEW k \in Pool!Side PROVE reserve[k] * m <= n[k] * t
      <4> DEFINE w == n[k] * t
                 d == reserve[k]
                 v == part(k)
      <4>1. d \in Nat /\ w \in Int /\ v \in Nat /\ m <= v /\ d * v <= w
        BY <1>2, <1>4, <3>2, <3>3
      <4> HIDE DEF w, d, v
      <4>2. d * m <= d * v
        BY <3>3, <4>1, TimesOrdered
      <4>3. d * m \in Int /\ d * v \in Int
        BY <3>3, <4>1
      <4>4. d * m <= w
        BY <4>1, <4>2, <4>3
      <4> QED
        BY <4>4 DEF w, d
    <3> QED
      BY <2>2, <3>3, <3>4
  <2> QED
    BY <2>1, <2>2
<1> HIDE DEF m
<1>6. reserve' \in [Pool!Side -> Nat] /\ \A k \in Pool!Side : reserve'[k] = reserve[k] + n[k] /\ reserve'[k] > 0
  BY <1>1, <1>2, <1>4
<1>7. t + m \in Nat /\ t + m > 0 /\ shares' \in [Lp -> Nat]
  BY <1>1, <1>2, <1>5, SMTT(60)
<1>8. Filled'
  <2>1. reserve'["a"] > 0 /\ reserve'["b"] > 0
    BY <1>3, <1>6
  <2>2. poolFee' \in Nat /\ poolFee' <= 10000 /\ totalShares' \in Nat /\ totalShares' > 0 /\ ~(totalShares' = 0)
    BY <1>1, <1>2, <1>7
  <2> QED
    BY ONLY <1>6, <1>7, <2>1, <2>2 DEF Filled
<1>9. ASSUME NEW k \in Pool!Side PROVE reserve[k] * totalShares' <= reserve'[k] * t
  <2> DEFINE d == reserve[k]
             e == n[k]
  <2>1. d \in Nat /\ e \in Nat /\ reserve'[k] = d + e /\ totalShares' = t + m
    BY <1>1, <1>2, <1>4, <1>6
  <2>2. d * m <= e * t
    <3>1. CASE t = 0
      <4>1. d = 0 /\ e * t = 0 /\ d * m = 0
        BY <1>2, <1>3, <1>5, <2>1, <3>1
      <4> QED
        BY <4>1
    <3>2. CASE t > 0
      BY <1>5, <3>2
    <3> QED
      BY <1>2, <3>1, <3>2
  <2> HIDE DEF d, e
  <2>3. d * (t + m) = d * t + d * m /\ (d + e) * t = d * t + e * t
    BY <1>2, <1>5, <2>1
  <2>4. d * t \in Int /\ d * m \in Int /\ e * t \in Int
    BY <1>2, <1>5, <2>1
  <2>5. d * (t + m) <= (d + e) * t
    BY <2>2, <2>3, <2>4
  <2> QED
    BY <2>1, <2>5 DEF d, e
<1> QED
  BY <1>8, <1>9, SharesHoldTheirPart

LEMMA RemoveFills ==
    ASSUME Filled, NEW p \in Lp, NEW s \in 1..totalShares, NEW least, Pool!RemoveLiquidity(p, s, least)
    PROVE  Filled' /\ Pool!ShareKeepsItsValue
<1> DEFINE t == totalShares
           back(k) == (s * reserve[k]) \div t
<1>1. /\ s \in 1..shares[p]
      /\ reserve' = [k \in Pool!Side |-> reserve[k] - back(k)]
      /\ totalShares' = t - s /\ shares' = [shares EXCEPT ![p] = @ - s]
      /\ UNCHANGED poolFee
  <2> DEFINE b == [k \in Pool!Side |-> (s * reserve[k]) \div t]
  <2>1. /\ s \in 1..shares[p]
        /\ reserve' = [k \in Pool!Side |-> reserve[k] - b[k]]
        /\ totalShares' = t - s /\ shares' = [shares EXCEPT ![p] = @ - s]
        /\ UNCHANGED poolFee
    BY DEF Pool!RemoveLiquidity
  <2>2. \A k \in Pool!Side : b[k] = back(k)
    OBVIOUS
  <2> HIDE DEF b, back
  <2> QED
    BY <2>1, <2>2
<1>2. /\ reserve \in [Pool!Side -> Nat] /\ poolFee \in Nat /\ poolFee <= 10000 /\ t \in Nat /\ shares \in [Lp -> Nat]
      /\ t > 0 => reserve["a"] > 0 /\ reserve["b"] > 0
  BY DEF Filled
<1>3. "a" \in Pool!Side /\ "b" \in Pool!Side /\ \A k \in Pool!Side : k = "a" \/ k = "b"
  BY DEF Pool!Side
<1>4. s \in Nat /\ s > 0 /\ s <= t /\ t \in Nat \ {0} /\ t - s \in Nat
  BY <1>2
<1>5. \A k \in Pool!Side : reserve[k] \in Nat /\ reserve[k] > 0
  BY <1>2, <1>3, <1>4
<1>6. ASSUME NEW k \in Pool!Side
      PROVE  /\ back(k) \in Int /\ back(k) <= reserve[k]
             /\ reserve[k] * (t - s) <= (reserve[k] - back(k)) * t
             /\ s < t => back(k) < reserve[k]
             /\ s = t => back(k) = reserve[k]
  <2> DEFINE d == reserve[k]
             w == s * d
             q == w \div t
  <2>1. d \in Nat /\ d > 0 /\ w \in Nat /\ w = d * s /\ back(k) = q
    BY <1>4, <1>5
  <2>2. w <= t * d
    <3>1. d * s <= d * t
      BY <1>4, <2>1, TimesOrdered
    <3> QED
      BY <1>4, <2>1, <3>1
  <2> HIDE DEF d, w
  <2>3. q \in Int /\ t * q <= w /\ t * q \in Int /\ w < t * q + t
    BY <1>4, <2>1, QuotientBounds
  <2>4. q <= d
    BY <1>4, <2>1, <2>2, QuotientMost
  <2> HIDE DEF q
  <2>5. d * (t - s) = t * d - d * s /\ (d - q) * t = t * d - t * q /\ t * d \in Int /\ d * s \in Int
    BY <1>4, <2>1, <2>3
  <2>6. d * (t - s) <= (d - q) * t
    BY <2>1, <2>3, <2>5
  <2>7. ASSUME s < t PROVE q < d
    <3> SUFFICES ASSUME q = d PROVE FALSE
      BY <2>1, <2>3, <2>4
    <3>1. t * q = t * d /\ t * d <= d * s
      BY <2>1, <2>3
    <3>2. d * (s + 1) <= d * t
      BY <1>4, <2>1, <2>7, TimesOrdered
    <3>3. d * (s + 1) = d * s + d /\ d * t = t * d
      BY <1>4, <2>1
    <3> QED
      BY <2>1, <2>5, <3>1, <3>2, <3>3
  <2>8. ASSUME s = t PROVE q = d
    <3>1. t * d <= w
      BY <1>4, <2>1, <2>8
    <3>2. d <= w \div t
      BY <1>4, <2>1, <3>1, QuotientLeast
    <3> QED
      BY <2>1, <2>3, <2>4, <3>2 DEF q
  <2> QED
    BY <2>1, <2>3, <2>4, <2>6, <2>7, <2>8 DEF d
<1> HIDE DEF back
<1>7. \A k \in Pool!Side : reserve'[k] = reserve[k] - back(k) /\ reserve'[k] \in Nat
  BY <1>1, <1>5, <1>6, SMTT(60)
<1>8. Filled'
  <2>1. reserve' \in [Pool!Side -> Nat]
    BY <1>1, <1>7
  <2>2. shares' \in [Lp -> Nat]
    <3>1. shares[p] - s \in Nat
      BY <1>1, <1>2, <1>4
    <3> QED
      BY <1>1, <1>2, <3>1
  <2>3. totalShares' > 0 => reserve'["a"] > 0 /\ reserve'["b"] > 0
    <3>1. totalShares' > 0 => s < t
      BY <1>1, <1>4
    <3>2. s < t => \A k \in Pool!Side : reserve'[k] > 0
      BY <1>5, <1>6, <1>7
    <3> QED
      BY <1>3, <3>1, <3>2
  <2>4. totalShares' = 0 => reserve'["a"] = 0 /\ reserve'["b"] = 0
    <3>1. totalShares' = 0 => s = t
      BY <1>1, <1>4
    <3>2. s = t => \A k \in Pool!Side : reserve'[k] = 0
      BY <1>5, <1>6, <1>7
    <3> QED
      BY <1>3, <3>1, <3>2
  <2>5. poolFee' \in Nat /\ poolFee' <= 10000 /\ totalShares' \in Nat
    BY <1>1, <1>2, <1>4
  <2> QED
    BY ONLY <2>1, <2>2, <2>3, <2>4, <2>5 DEF Filled
<1>9. \A k \in Pool!Side : reserve[k] * totalShares' <= reserve'[k] * totalShares
  BY <1>1, <1>6, <1>7
<1> QED
  BY <1>8, <1>9, SharesHoldTheirPart

LEMMA PoolSteps ==
    ASSUME Filled, Pool!Next
    PROVE  Filled' /\ Pool!ShareKeepsItsValue
BY AddFills, RemoveFills, SwapFills DEF Pool!Next

LEMMA PoolAlways == ContractsSpec => []FilledKept
<1>1. ContractsInit => FilledKept
  <2> SUFFICES ASSUME ContractsInit, deployed = "pool" PROVE Filled
    BY DEF FilledKept
  <2>1. /\ poolFee \in PoolFees /\ reserve = [k \in Pool!Side |-> 0] /\ totalShares = 0
        /\ shares = [p \in Lp |-> 0]
    BY DEF ContractsInit, Pool!Init
  <2> QED
    BY <2>1, PoolAssumption DEF Filled, Pool!Side
<1>2. FilledKept /\ [ContractsNext]_contractVars => FilledKept'
  <2> SUFFICES ASSUME FilledKept, [ContractsNext]_contractVars, deployed = "pool" PROVE Filled'
    BY OneContract DEF FilledKept
  <2>1. Filled /\ (Pool!Next \/ UNCHANGED Pool!vars)
    BY OneContract DEF FilledKept
  <2>2. CASE UNCHANGED Pool!vars
    BY <2>1, <2>2 DEF Filled, Pool!vars
  <2> QED
    BY <2>1, <2>2, PoolSteps
<1> QED
  BY <1>1, <1>2, PTL DEF ContractsSpec

(***************************************************************************)
(* What the runs check of the contracts together                           *)
(***************************************************************************)

(* What a contract still owes, it holds: pending shares of the splitter,    *)
(* where their total does not wrap; stakes; open bids.  And who offers a    *)
(* token owns it.                                                           *)
THEOREM WhatIsOwedIsHeld == ContractsSpec => []PayoutsCovered
<1>1. SplitterKept => (deployed = "splitter" => Splt!PendingIsCovered)
  BY SplitterCovered DEF SplitterKept
<1>2. StakingKept => (deployed = "staking" => Stk!StakesAreBacked)
  BY StakesBacked DEF StakingKept
<1>3. MarketKept => (deployed = "nft" => Nft!BidsAreCovered /\ Nft!OffersAreOwned)
  BY MarketCovers DEF MarketKept
<1>4. SplitterKept /\ StakingKept /\ MarketKept => PayoutsCovered
  BY <1>1, <1>2, <1>3 DEF PayoutsCovered
<1> QED
  BY <1>4, SplitterAlways, StakingAlways, MarketAlways, PTL

(* Nobody gets more than is due: vesting follows its schedule, a tranche a  *)
(* confirmation; rewards the rate; inbound transfers the quorum; the price  *)
(* the median; a verdict its majority; an import's report what it did.      *)
THEOREM WhatIsPaidIsEarned == ContractsSpec => []OutcomesAreEarned
<1>1. VestingKept => (deployed = "vesting" => Vest!PaidAsVested /\ Vest!TranchePerMilestone)
  BY DEF VestingKept, Vests
<1>2. StakingKept => (deployed = "staking" => Stk!RewardsAreEarned)
  BY StakesBacked DEF StakingKept
<1>3. OracleKept => (deployed = "oracle" => Orc!FeedIsAgreed)
  BY DEF OracleKept
<1>4. VotingKept => (deployed = "voting" => Ext!ExecutedOnMajority)
  BY MajorityReported DEF VotingKept
<1>5. ImportKept => (deployed = "import" => Ext!OutcomeIsWhole)
  BY ImportWhole DEF ImportKept
<1>6. VestingKept /\ StakingKept /\ OracleKept /\ VotingKept /\ ImportKept
        /\ (deployed = "bridge" => Brg!PaidOnQuorum) => OutcomesAreEarned
  BY <1>1, <1>2, <1>3, <1>4, <1>5 DEF OutcomesAreEarned
<1> QED
  BY <1>6, VestingAlways, StakingAlways, OracleAlways, VotingAlways, ImportAlways, InboundPaidOnQuorum, PTL

(* No single call ends a dispute without the votes, pays a locked           *)
(* withdrawal early, makes the price jump or lowers the worth of a share.   *)
THEOREM CallsKeepTheirBounds == ContractsSpec => CallsAreBounded
<1> DEFINE Bound == /\ deployed = "treasury" => WithdrawalsWait
                    /\ deployed = "escrow" => Esc!AwardHasItsVotes
                    /\ deployed = "oracle" => Orc!FeedMovesSlowly
                    /\ deployed = "pool" => Pool!ShareKeepsItsValue
           W == deployed = "treasury" => WithdrawalsWait
           A == deployed = "escrow" => Esc!AwardHasItsVotes
<1>1. OracleKept /\ OracleKept' /\ [ContractsNext]_contractVars => (deployed = "oracle" => Orc!FeedMovesSlowly)
  BY FeedSteps
<1>2. FilledKept /\ [ContractsNext]_contractVars
        => (deployed = "pool" => Pool!ShareKeepsItsValue) \/ UNCHANGED contractVars
  <2> SUFFICES ASSUME FilledKept, ContractsNext, deployed = "pool" PROVE Pool!ShareKeepsItsValue
    OBVIOUS
  <2>1. Filled
    BY DEF FilledKept
  <2>2. Pool!Next
    BY DEF ContractsNext
  <2> QED
    BY <2>1, <2>2, PoolSteps
<1>3. W /\ A /\ OracleKept /\ OracleKept' /\ FilledKept /\ [ContractsNext]_contractVars => [Bound]_contractVars
  BY <1>1, <1>2
<1>4. ContractsSpec => [][W]_contractVars /\ [][A]_contractVars
  BY LocksAreWaitedOut, AwardsAreVoted
<1>5. UNCHANGED contractVars => [Bound]_contractVars
  OBVIOUS
<1>6. [W]_contractVars /\ [A]_contractVars /\ OracleKept /\ OracleKept' /\ FilledKept
        /\ [ContractsNext]_contractVars => [Bound]_contractVars
  BY <1>3, <1>5
<1>7. CallsAreBounded <=> [][Bound]_contractVars
  BY DEF CallsAreBounded
<1> HIDE DEF W, A, Bound
<1> QED
  BY <1>4, <1>6, <1>7, OracleAlways, PoolAlways, PTL DEF ContractsSpec

=============================================================================
