------------------------------ MODULE Staking ------------------------------
(***************************************************************************)
(* The staking pool of contracts/soroban/src/staking.rs: stakes with a     *)
(* lock-up, a penalty for leaving early and linear rewards that are        *)
(* settled lazily, whenever a stake changes or its rewards are claimed.    *)
(* Timestamp 0 marks a stake never made, so ledgers start at 1.            *)
(***************************************************************************)
EXTENDS Integers, FiniteSetsExt

CONSTANTS
    Staker,
    Configs,        \* records sameToken, rate, lockup, penaltyBps
    RewardUnit,     \* 10000 * SECONDS_PER_YEAR, scaled
    Sums,           \* amounts staked and unstaked
    Gifts,          \* reward tokens someone sends to the pool
    MaxStake, MaxHeld, MaxTime      \* bounds: a stake, the pool's tokens, the ledgers closed

VARIABLES
    now,
    config,
    stakes,         \* STAKE; a staker never seen has the default record
    totalStaked,    \* TOT_STAKE
    tokens,         \* what the pool holds of the stake and the reward token
    penalties,      \* history: early penalties kept
    earned,         \* history: the sum of each staker's stake over the seconds
    claimed         \* history: rewards paid or compounded

vars == <<now, config, stakes, totalStaked, tokens, penalties, earned, claimed>>

RewardToken == IF config.sameToken THEN "stake" ELSE "reward"
NoStake == [amount |-> 0, stakedAt |-> 0, lastClaimAt |-> 0, rewards |-> 0]
Known(s) == stakes[s] # NoStake

Init ==
    /\ now = 1
    /\ config \in Configs
    /\ stakes = [s \in Staker |-> NoStake]
    /\ totalStaked = 0
    /\ tokens = [k \in {"stake", "reward"} |-> 0]
    /\ penalties = 0
    /\ earned = [s \in Staker |-> 0]
    /\ claimed = [s \in Staker |-> 0]

CalcRewards(i) ==
    IF i.amount = 0 \/ i.lastClaimAt = 0 THEN 0
    ELSE (i.amount * config.rate * (now - i.lastClaimAt)) \div RewardUnit

Settled(i) == [i EXCEPT !.rewards = @ + CalcRewards(i), !.lastClaimAt = now]

MutStakeUnsettled(s, n) ==
    LET i == stakes[s] IN
    /\ n > 0 /\ i.amount + n <= MaxStake /\ tokens["stake"] + n <= MaxHeld
    /\ stakes' = [stakes EXCEPT ![s].amount = @ + n,
                                ![s].stakedAt = IF @ = 0 THEN now ELSE @,
                                ![s].lastClaimAt = IF @ = 0 THEN now ELSE @]
    /\ totalStaked' = totalStaked + n
    /\ tokens' = [tokens EXCEPT !["stake"] = @ + n]
    /\ UNCHANGED <<now, config, penalties, earned, claimed>>
Stake(s, n) ==
    LET i == Settled(stakes[s]) IN
    /\ n > 0
    /\ i.amount + n <= MaxStake
    /\ tokens["stake"] + n <= MaxHeld
    /\ stakes' = [stakes EXCEPT ![s] =
          [i EXCEPT !.amount = @ + n, !.stakedAt = IF @ = 0 THEN now ELSE @]]
    /\ totalStaked' = totalStaked + n
    /\ tokens' = [tokens EXCEPT !["stake"] = @ + n]
    /\ UNCHANGED <<now, config, penalties, earned, claimed>>

(* The penalty stays in the contract.                                       *)
Unstake(s, n, force) ==
    LET i == Settled(stakes[s])
        early == now < stakes[s].stakedAt + config.lockup
        penalty == IF early THEN (n * config.penaltyBps) \div 10000 ELSE 0
    IN /\ n > 0
       /\ Known(s)
       /\ n <= stakes[s].amount
       /\ early => force
       /\ n - penalty \in 0..tokens["stake"]
       /\ stakes' = [stakes EXCEPT ![s] = [i EXCEPT !.amount = @ - n]]
       /\ totalStaked' = totalStaked - n
       /\ tokens' = [tokens EXCEPT !["stake"] = @ - (n - penalty)]
       /\ penalties' = penalties + penalty
       /\ UNCHANGED <<now, config, earned, claimed>>

(* With nothing to claim the call changes nothing, lastClaimAt included.    *)
ClaimRewards(s, compound) ==
    LET i == Settled(stakes[s])
        compounds == compound /\ config.sameToken
    IN /\ Known(s)
       /\ i.rewards > 0
       /\ compounds => i.amount + i.rewards <= MaxStake
       /\ stakes' = [stakes EXCEPT ![s] =
             [i EXCEPT !.rewards = 0, !.amount = IF compounds THEN @ + i.rewards ELSE @]]
       /\ \/ /\ compounds
             /\ totalStaked' = totalStaked + i.rewards
             /\ UNCHANGED tokens
          \/ /\ ~compounds
             /\ tokens[RewardToken] >= i.rewards
             /\ tokens' = [tokens EXCEPT ![RewardToken] = @ - i.rewards]
             /\ UNCHANGED totalStaked
       /\ claimed' = [claimed EXCEPT ![s] = @ + i.rewards]
       /\ UNCHANGED <<now, config, penalties, earned>>

(* Rewards come from tokens that somebody sends to the pool, or from stakes. *)
Fill(n) ==
    /\ tokens[RewardToken] + n <= MaxHeld
    /\ tokens' = [tokens EXCEPT ![RewardToken] = @ + n]
    /\ UNCHANGED <<now, config, stakes, totalStaked, penalties, earned, claimed>>

Tick ==
    /\ now < MaxTime
    /\ now' = now + 1
    /\ earned' = [s \in Staker |-> earned[s] + stakes[s].amount]
    /\ UNCHANGED <<config, stakes, totalStaked, tokens, penalties, claimed>>

Next ==
    \/ \E s \in Staker :
         \/ \E n \in Sums : \/ Stake(s, n)
                            \/ \E force \in BOOLEAN : Unstake(s, n, force)
         \/ \E compound \in BOOLEAN : ClaimRewards(s, compound)
    \/ \E n \in Gifts : Fill(n)
    \/ Tick

Spec == Init /\ [][Next]_vars

(* TOT_STAKE is the sum of the stakes, and where rewards are paid in a      *)
(* token of their own every stake can be paid back, penalties being left.   *)
StakesAreBacked ==
    /\ totalStaked = MapThenSumSet(LAMBDA s : stakes[s].amount, Staker)
    /\ ~config.sameToken => tokens["stake"] = totalStaked + penalties

(* Staking more, leaving and claiming, in whatever order and however often, *)
(* never earn more than the rate on what was staked, second by second.      *)
RewardsAreEarned ==
    \A s \in Staker :
        (claimed[s] + stakes[s].rewards + CalcRewards(stakes[s])) * RewardUnit
            <= config.rate * earned[s]
=============================================================================
