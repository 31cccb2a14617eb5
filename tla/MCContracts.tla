---------------------------- MODULE MCContracts ----------------------------
(***************************************************************************)
(* The treasury, the stand-alone contracts and the two parts of the wallet *)
(* that stand beside its core, for TLC.  They share no state, so a         *)
(* behavior deploys one of them, and the state spaces add up instead of    *)
(* multiplying.                                                            *)
(***************************************************************************)
EXTENDS Treasury

CONSTANTS
    none,                                                   \* what is absent
    Arbitrators, Terms, EscrowTime,
    Schedules, VestingTime,
    Payee, Splits, ShareWord, Minima, Payments, MaxDeposited,
    Staker, Configs, RewardUnit, StakeSums, Gifts, MaxStake, MaxHeld, StakingTime,
    Provider, Prices, min_providers, max_deviation_bps,
    Person, MarketFees, RoyaltyBps, Asked, AuctionPeriods, MaxTokens, AuctionTime,
    Lp, PoolFees, PoolSums, Floors, MaxReserve,
    Validator, Chain, Inbound, minValidators, transferTimeout, feeRate, Locks, Payouts,
    MaxLocks, BridgeTime,
    Owner, Weights, Periods, MIN_VOTING_PERIOD, MAX_VOTING_PERIOD, Damping, Word,
    MaxPolls, VotingTime,
    Totals, MAX_IMPORT_ITEMS, Batches, IMPORT_BATCH_SIZE, MaxImports

(* What is absent is no price, no person and no entry of a contract.        *)
Listing == [seller : Person, price : Int]
Auction == [seller : Person, reserve : Int, highestBid : Nat, highestBidder : Person \cup {none},
            endsAt : Nat]
Outbound == [id : Nat, amount : Int, expires : Nat]
Voice == [support : BOOLEAN, weight : Nat]
ASSUME AbsentAssumption ==
    none \notin Prices \cup Person \cup Listing \cup Auction \cup Outbound \cup Voice

(* The types of the arguments; a pool's fee is at most the whole.           *)
ASSUME EscrowAssumption ==
    /\ IsFiniteSet(Arbitrators)
    /\ Terms \subseteq [amount : Nat, feeBps : Nat, releaseAfter : Nat, required : Nat]
ASSUME VestingAssumption ==
    Schedules \subseteq [total : Int, start : Nat, cliff : Nat, duration : Nat,
                         revocable : BOOLEAN, milestone : Int]
ASSUME SplitterAssumption ==
    /\ \A s \in Splits : s \in Seq([address : Payee, shares : Nat])
    /\ ShareWord \in Nat \ {0} /\ Payments \cup Minima \subseteq Int
ASSUME StakingAssumption ==
    /\ IsFiniteSet(Staker) /\ RewardUnit \in Nat \ {0} /\ StakeSums \cup Gifts \subseteq Int
    /\ Configs \subseteq [sameToken : BOOLEAN, rate : Nat, lockup : Nat, penaltyBps : Nat]
ASSUME OracleAssumption ==
    IsFiniteSet(Provider) /\ Prices \subseteq Int /\ {min_providers, max_deviation_bps} \subseteq Nat
ASSUME MarketAssumption == MarketFees \cup RoyaltyBps \cup AuctionPeriods \subseteq Nat /\ Asked \subseteq Int
ASSUME PoolAssumption ==
    PoolFees \subseteq Nat /\ (\A f \in PoolFees : f <= 10000) /\ PoolSums \cup Floors \subseteq Int
ASSUME BridgeAssumption ==
    /\ IsFiniteSet(Validator) /\ {minValidators, transferTimeout, feeRate} \subseteq Nat
    /\ Locks \cup Payouts \subseteq Int
ASSUME VotingAssumption ==
    IsFiniteSet(Owner) /\ Weights \cup Periods \subseteq Nat /\ {Damping, Word} \subseteq Nat \ {0}
ASSUME ImportAssumption == Totals \cup Batches \subseteq Nat

VARIABLES
    deployed,       \* now, the time, is the treasury's
    terms, state, votes, ballot, held, paid,                            \* Escrow
    schedule, released, revoked, milestoneMet, returned, confirmed, vault, \* Vesting
    split, minimum, locked, deposited, drawn, pot,                      \* PaymentSplitter
    config, stakes, totalStaked, tokens, penalties, earned, claimed,    \* Staking
    providers, submissions, feed, fallback,                             \* Oracle
    feeBps, nfts, listings, auctions, purse, unpaid,                    \* NftMarketplace
    poolFee, reserve, totalShares, shares,                              \* LiquidityPool
    validators, chains, transfer, txCount, validatedBy, count, chest, payouts,  \* Bridge
    owners, frozen, ownerWeights, polls, pollVotes,     \* SafeExtensions: the vote
    imports, importData, rollbackData, importErrors     \* and the import

escrowVars == <<terms, state, votes, ballot, held, paid>>
vestingVars == <<schedule, released, revoked, milestoneMet, returned, confirmed, vault>>
splitterVars == <<split, minimum, locked, deposited, drawn, pot>>
stakingVars == <<config, stakes, totalStaked, tokens, penalties, earned, claimed>>
oracleVars == <<providers, submissions, feed, fallback>>
nftVars == <<feeBps, nfts, listings, auctions, purse, unpaid>>
poolVars == <<poolFee, reserve, totalShares, shares>>
bridgeVars == <<validators, chains, transfer, txCount, validatedBy, count, chest, payouts>>
ownerVars == <<owners, frozen>>
votingVars == <<ownerWeights, polls, pollVotes>>
importVars == <<imports, importData, rollbackData, importErrors>>
treasuryVars == <<govVars, configVars, proposals, moneyVars>>
contractVars == <<deployed, now, treasuryVars, escrowVars, vestingVars, splitterVars, stakingVars, oracleVars,
          nftVars, poolVars, bridgeVars, ownerVars, votingVars, importVars>>

Esc == INSTANCE Escrow WITH MaxTime <- EscrowTime

Vest == INSTANCE Vesting WITH MaxTime <- VestingTime

Splt == INSTANCE PaymentSplitter WITH withdrawn <- drawn

Stk == INSTANCE Staking WITH Sums <- StakeSums, MaxTime <- StakingTime

Orc == INSTANCE Oracle WITH NoPrice <- none

Nft == INSTANCE NftMarketplace WITH
    FeeBps <- MarketFees, Durations <- AuctionPeriods, NoOffer <- none, NoBidder <- none,
    MaxTime <- AuctionTime

Pool == INSTANCE LiquidityPool WITH FeeBps <- PoolFees, Sums <- PoolSums

Brg == INSTANCE Bridge WITH NoTransfer <- none, MaxTime <- BridgeTime

Ext == INSTANCE SafeExtensions WITH
    Abstained <- none, MaxProposals <- MaxPolls, MaxTime <- VotingTime,
    proposals <- polls, votes <- pollVotes

Kinds == {"treasury", "escrow", "vesting", "splitter", "staking", "oracle", "nft", "pool", "bridge", "voting", "import"}

(* A contract that is not deployed has no state.                            *)
ContractsInit ==
    /\ deployed \in Kinds
    /\ now = IF deployed = "staking" THEN 1 ELSE 0
    /\ \/ deployed = "treasury" /\ Init
       \/ /\ deployed # "treasury"
          /\ managers = none /\ threshold = none /\ limits = none /\ timeLock = none
          /\ durations = none /\ proposalCount = none /\ setups = none
          /\ proposals = none /\ requests = none /\ withdrawn = none
          /\ lastReset = none /\ balance = none
    /\ \/ deployed = "escrow" /\ Esc!Init
       \/ /\ deployed # "escrow"
          /\ terms = none /\ state = none /\ votes = none
          /\ ballot = none /\ held = none /\ paid = none
    /\ \/ deployed = "vesting" /\ Vest!Init
       \/ /\ deployed # "vesting"
          /\ schedule = none /\ released = none /\ revoked = none /\ milestoneMet = none
          /\ returned = none /\ confirmed = none /\ vault = none
    /\ \/ deployed = "splitter" /\ Splt!Init
       \/ /\ deployed # "splitter"
          /\ split = none /\ minimum = none /\ locked = none
          /\ deposited = none /\ drawn = none /\ pot = none
    /\ \/ deployed = "staking" /\ Stk!Init
       \/ /\ deployed # "staking"
          /\ config = none /\ stakes = none /\ totalStaked = none /\ tokens = none
          /\ penalties = none /\ earned = none /\ claimed = none
    /\ \/ deployed = "oracle" /\ Orc!Init
       \/ /\ deployed # "oracle"
          /\ providers = none /\ submissions = none
          /\ feed = none /\ fallback = none
    /\ \/ deployed = "nft" /\ Nft!Init
       \/ /\ deployed # "nft"
          /\ feeBps = none /\ nfts = none /\ listings = none
          /\ auctions = none /\ purse = none /\ unpaid = none
    /\ \/ deployed = "pool" /\ Pool!Init
       \/ /\ deployed # "pool"
          /\ poolFee = none /\ reserve = none
          /\ totalShares = none /\ shares = none
    /\ \/ deployed = "bridge" /\ Brg!Init
       \/ /\ deployed # "bridge"
          /\ validators = none /\ chains = none /\ transfer = none /\ txCount = none
          /\ validatedBy = none /\ count = none /\ chest = none /\ payouts = none
    /\ \/ deployed = "voting" /\ Ext!VotingInit
       \/ deployed # "voting" /\ ownerWeights = none /\ polls = none /\ pollVotes = none
    /\ \/ deployed = "import" /\ Ext!ImportInit
       \/ /\ deployed # "import"
          /\ imports = none /\ importData = none /\ rollbackData = none /\ importErrors = none
    /\ deployed \notin {"voting", "import"} => owners = none /\ frozen = none

ContractsNext ==
    /\ UNCHANGED deployed
    /\ \/ /\ deployed = "treasury" /\ Next
          /\ UNCHANGED <<escrowVars, vestingVars, splitterVars, stakingVars, oracleVars,
                        nftVars, poolVars, bridgeVars, ownerVars, votingVars, importVars>>
       \/ /\ deployed = "escrow" /\ Esc!Next
          /\ UNCHANGED <<treasuryVars, vestingVars, splitterVars, stakingVars, oracleVars,
                        nftVars, poolVars, bridgeVars, ownerVars, votingVars, importVars>>
       \/ /\ deployed = "vesting" /\ Vest!Next
          /\ UNCHANGED <<treasuryVars, escrowVars, splitterVars, stakingVars, oracleVars,
                        nftVars, poolVars, bridgeVars, ownerVars, votingVars, importVars>>
       \/ /\ deployed = "splitter" /\ Splt!Next
          /\ UNCHANGED <<treasuryVars, now, escrowVars, vestingVars, stakingVars,
                        oracleVars, nftVars, poolVars, bridgeVars, ownerVars, votingVars, importVars>>
       \/ /\ deployed = "staking" /\ Stk!Next
          /\ UNCHANGED <<treasuryVars, escrowVars, vestingVars, splitterVars, oracleVars,
                        nftVars, poolVars, bridgeVars, ownerVars, votingVars, importVars>>
       \/ /\ deployed = "oracle" /\ Orc!Next
          /\ UNCHANGED <<treasuryVars, now, escrowVars, vestingVars, splitterVars,
                        stakingVars, nftVars, poolVars, bridgeVars, ownerVars, votingVars, importVars>>
       \/ /\ deployed = "nft" /\ Nft!Next
          /\ UNCHANGED <<treasuryVars, escrowVars, vestingVars, splitterVars, stakingVars,
                        oracleVars, poolVars, bridgeVars, ownerVars, votingVars, importVars>>
       \/ /\ deployed = "pool" /\ Pool!Next
          /\ UNCHANGED <<treasuryVars, now, escrowVars, vestingVars, splitterVars,
                        stakingVars, oracleVars, nftVars, bridgeVars, ownerVars, votingVars, importVars>>
       \/ /\ deployed = "bridge" /\ Brg!Next
          /\ UNCHANGED <<treasuryVars, escrowVars, vestingVars, splitterVars, stakingVars,
                        oracleVars, nftVars, poolVars, ownerVars, votingVars, importVars>>
       \/ /\ deployed = "voting" /\ Ext!VotingNext
          /\ UNCHANGED <<treasuryVars, escrowVars, vestingVars, splitterVars, stakingVars,
                        oracleVars, nftVars, poolVars, bridgeVars, importVars>>
       \/ /\ deployed = "import" /\ Ext!ImportNext
          /\ UNCHANGED <<treasuryVars, now, escrowVars, vestingVars, splitterVars, stakingVars,
                        oracleVars, nftVars, poolVars, bridgeVars, votingVars>>

ContractsSpec == ContractsInit /\ [][ContractsNext]_contractVars

(* What TLC runs.  Times are scaled: a day of the treasury is one or two    *)
(* units.                                                                   *)
CONSTANTS treasury, ann, usdc, x, y, z

ByWindow(d, w, m) == [daily |-> d, weekly |-> w, monthly |-> m]
TimeLockOf(s, e, long, big) == [standard |-> s, emergency |-> e, extended |-> long, large |-> big]

TwoFourFive == ByWindow(2, 4, 5)
OneTwoThree == ByWindow(1, 2, 3)
OneThreeFour == ByWindow(1, 3, 4)
TightWeek == ByWindow(1, 1, 4)
LockTwo == TimeLockOf(1, 1, 2, 2)
OtherLocks == {TimeLockOf(2, 1, 1, 1), TimeLockOf(0, 1, 1, 1)}
OtherLimits == {OneThreeFour, ByWindow(2, 1, 3), ByWindow(0, 1, 1)}

OtherSetups == {[managers |-> {treasury}, threshold |-> t, limits |-> OneThreeFour,
                 timeLock |-> LockTwo, durations |-> 1..3] : t \in {1, 2}}

Motion(type, who, amount) == [type |-> type, who |-> who, amount |-> amount]
AllMotions ==
    {Motion("standard", ann, n) : n \in {1, 2}} \cup {Motion(type, ann, 1) : type \in Withdrawal}
    \cup {Motion(type, ann, 1) : type \in {"add", "remove"}}
    \cup {Motion("remove", treasury, 1), Motion("budget", ann, -1), Motion("parameter", ann, 0)}
OneParameter == {Motion("parameter", ann, 0)}

EscrowTerms == [amount : {3}, feeBps : {0, 4000, 20000}, releaseAfter : {0, 1}, required : 0..3]
VestingSchedules == [total : {5}, start : {0, 1}, cliff : {0, 2}, duration : {3, 4},
                     revocable : BOOLEAN, milestone : {0, 2}]
Entry(a, n) == [address |-> a, shares |-> n]
TwoSplits == {<<Entry(x, 1), Entry(y, 2), Entry(z, 4)>>, <<Entry(x, 2), Entry(y, 1), Entry(x, 3)>>}
StakingConfigs == [sameToken : BOOLEAN, rate : {1}, lockup : {2}, penaltyBps : {5000}]

(* Treasury: the threshold stays one the managers can reach, and from one   *)
(* initialize to the next the counters are what was paid, and no rolling    *)
(* period carries more than twice a limit.                                  *)
TreasuryLimitsHold ==
    deployed = "treasury" => ThresholdFits /\ CountersMatchLog /\ RollingLimit

(* Escrow: the state it reports is where the money is.                      *)
EscrowSettledOnce == deployed = "escrow" => Esc!SettledOnce

(* Whatever order recipients, stakers and bidders come in, what the contract*)
(* still owes them it holds: pending shares, stakes, open bids (and who     *)
(* offers a token owns it).                                                 *)
PayoutsCovered ==
    /\ deployed = "splitter" => Splt!PendingIsCovered
    /\ deployed = "staking" => Stk!StakesAreBacked
    /\ deployed = "nft" => Nft!BidsAreCovered /\ Nft!OffersAreOwned

(* Payments follow the vesting schedule, one tranche a confirmation, and    *)
(* rewards the rate; no inbound transfer is paid below its quorum.  The     *)
(* price is the median of submissions that agree; a verdict has its         *)
(* majority; an import that reports success did all of it.                  *)
OutcomesAreEarned ==
    /\ deployed = "vesting" => Vest!PaidAsVested /\ Vest!TranchePerMilestone
    /\ deployed = "staking" => Stk!RewardsAreEarned
    /\ deployed = "bridge" => Brg!PaidOnQuorum
    /\ deployed = "oracle" => Orc!FeedIsAgreed
    /\ deployed = "voting" => Ext!ExecutedOnMajority
    /\ deployed = "import" => Ext!OutcomeIsWhole

(* No single call ends a dispute without the votes, pays a locked withdrawal*)
(* early, makes the feed jump, or lowers the worth of a share.              *)
CallsAreBounded ==
    [][/\ deployed = "treasury" => WithdrawalsWait
       /\ deployed = "escrow" => Esc!AwardHasItsVotes
       /\ deployed = "oracle" => Orc!FeedMovesSlowly
       /\ deployed = "pool" => Pool!ShareKeepsItsValue]_contractVars

(* Treasury: it implements the vault, whatever is proposed and changed.     *)
TreasuryIsAVault ==
    /\ deployed = "treasury" => Vlt!VaultInit
    /\ [][deployed = "treasury" => Vlt!VaultNext \/ UNCHANGED Vlt!vaultVars]_contractVars

(* "Second vote should execute the proposal" (treasury_test.rs:209-217).    *)
SecondVoteCounts == deployed = "treasury" => EveryManagerCanVote
=============================================================================
