---------------------------- MODULE SafeProposals ----------------------------
(***************************************************************************)
(* The proposals of contracts/soroban/src/lib.rs (create_proposal,         *)
(* vote_for_proposal, execute_proposal, cleanup_expired_proposals) beside  *)
(* the transactions of MultisigSafe: they share the wallet's owners,       *)
(* freeze and balances.  Owners vote one each; the votes needed are those  *)
(* of THRESHOLD when the proposal was created.                             *)
(***************************************************************************)
EXTENDS MultisigSafe

CONSTANTS
    MIN_PROPOSAL_DURATION, MAX_PROPOSAL_DURATION, CLEANUP_THRESHOLD,
    Assets, ProposalAmounts, ProposalDurations, MaxProposals     \* bounds

ASSUME ProposalAssumption ==
    /\ {MIN_PROPOSAL_DURATION, MAX_PROPOSAL_DURATION, CLEANUP_THRESHOLD} \subseteq Nat \ {0}
    /\ ProposalAmounts \subseteq Int
    /\ ProposalDurations \subseteq Nat
    /\ MaxProposals \in Nat

VARIABLE proposals      \* PROPOSALS with PROPOSAL_VOTES, in order of id

allVars == <<vars, proposals>>

(* executed is the stored flag, which cleanup sets as well; settled is a    *)
(* history field: the flag was set by execute_proposal.                     *)
Proposal == [asset : Assets, amount : Int, expires : Nat, executed : BOOLEAN,
             votes : Nat, required : Nat, voters : SUBSET Address, settled : BOOLEAN]

Outvoted(p) == p.votes >= p.required

(* transfer panics unless the asset is a token that holds the amount.       *)
Affordable(p) ==
    p.amount > 0 => p.asset \in Token /\ balance[p.asset] >= p.amount

(* execute_proposal: no caller, no freeze check.                            *)
MutExecuteProposalAgain(list, i) ==
    LET p == list[i] IN
    /\ Outvoted(p)
    /\ now <= p.expires
    /\ Affordable(p)
    /\ proposals' = [list EXCEPT ![i].executed = TRUE, ![i].settled = TRUE]
    /\ balance' = IF p.amount > 0 THEN [balance EXCEPT ![p.asset] = @ - p.amount] ELSE balance
ExecuteStored(list, i) ==
    LET p == list[i] IN
    /\ ~p.executed
    /\ Outvoted(p)
    /\ now <= p.expires
    /\ Affordable(p)
    /\ proposals' = [list EXCEPT ![i].executed = TRUE, ![i].settled = TRUE]
    /\ balance' = IF p.amount > 0 THEN [balance EXCEPT ![p.asset] = @ - p.amount] ELSE balance

SafeUnchanged == UNCHANGED <<now, configVars, legacyVars, tx, ledgerSigs, recoveryVars, activityVars>>

CreateProposal(a, asset, amount, d) ==
    /\ Len(proposals) < MaxProposals
    /\ a \in OwnerSet
    /\ PassFreezeCheck
    /\ d \in MIN_PROPOSAL_DURATION..MAX_PROPOSAL_DURATION
    /\ proposals' = Append(proposals,
          [asset |-> asset, amount |-> amount, expires |-> now + d, executed |-> FALSE,
           votes |-> 0, required |-> threshold, voters |-> {}, settled |-> FALSE])
    /\ UNCHANGED balance
    /\ SafeUnchanged

(* A vote that completes the number executes in the same invocation.        *)
MutVoteOnly(a, i) ==
    LET p == proposals[i] IN
    /\ a \in OwnerSet
    /\ PassFreezeCheck
    /\ now <= p.expires /\ ~p.executed /\ a \notin p.voters
    /\ proposals' = [proposals EXCEPT ![i].voters = @ \cup {a}, ![i].votes = @ + 1]
    /\ UNCHANGED balance
    /\ SafeUnchanged
VoteForProposal(a, i) ==
    LET p == proposals[i]
        voted == [p EXCEPT !.voters = @ \cup {a}, !.votes = @ + 1]
        after == [proposals EXCEPT ![i] = voted]
    IN /\ a \in OwnerSet
       /\ PassFreezeCheck
       /\ now <= p.expires
       /\ ~p.executed
       /\ a \notin p.voters
       /\ \/ Outvoted(voted) /\ ExecuteStored(after, i)
          \/ ~Outvoted(voted) /\ proposals' = after /\ UNCHANGED balance
       /\ SafeUnchanged

ExecuteProposal(i) ==
    /\ ExecuteStored(proposals, i)
    /\ UNCHANGED freezeVars
    /\ SafeUnchanged

(* Closes expired proposals in order of id, at most CLEANUP_THRESHOLD a     *)
(* call, by setting executed and dropping the voters.                       *)
MutExpiringNow(p) == ~p.executed /\ now >= p.expires
ExpiredOpen(p) == ~p.executed /\ now > p.expires

CleanupExpiredProposals ==
    LET open == {i \in DOMAIN proposals : ExpiredOpen(proposals[i])}
        batch == {i \in open : Cardinality({j \in open : j < i}) < CLEANUP_THRESHOLD}
    IN /\ open # {}
       /\ proposals' = [i \in DOMAIN proposals |->
             IF i \in batch THEN [proposals[i] EXCEPT !.executed = TRUE, !.voters = {}]
                            ELSE proposals[i]]
       /\ UNCHANGED <<balance, freezeVars>>
       /\ SafeUnchanged

Governance ==
    \/ \E a \in Address :
         \/ \E k \in Assets, m \in ProposalAmounts, d \in ProposalDurations :
               CreateProposal(a, k, m, d)
         \/ \E i \in DOMAIN proposals : VoteForProposal(a, i)
    \/ \E i \in DOMAIN proposals : ExecuteProposal(i)
    \/ CleanupExpiredProposals

AllInit == Init /\ proposals = <<>>
AllNext == (Next /\ UNCHANGED proposals) \/ Governance
AllSpec == AllInit /\ [][AllNext]_allVars

(***************************************************************************)
(* Properties                                                              *)
(***************************************************************************)
(* execute_proposal never finds work: a proposal has its votes only because *)
(* a vote executed it, except one created under the threshold 0 that        *)
(* time_lock_recovery accepts, which anyone may execute without a vote.     *)
NoneWaitsForExecution ==
    /\ proposals \in Seq(Proposal)
    /\ \A i \in DOMAIN proposals :
           LET p == proposals[i] IN ~p.executed /\ Outvoted(p) => p.required = 0

(* cleanup closes, it does not pay: a proposal it closed had run out of     *)
(* time, and none of them is executed or voted on again.                    *)
ClosesForGood(p, q) ==
    /\ q.executed /\ ~q.settled => now > p.expires
    /\ p.executed => q = p

(* While a freeze lasts no proposal is created or voted on, and none is     *)
(* paid but those that need no vote.                                        *)
WaitsFrozen(p, q) == q.votes = p.votes /\ (q.settled /\ ~p.settled => p.required = 0)

(* No call, in whatever order, undoes a cleanup or passes a freeze.         *)
ProposalsStand ==
    [][/\ FrozenNow => Len(proposals') = Len(proposals)
       /\ \A i \in DOMAIN proposals :
             /\ ClosesForGood(proposals[i], proposals'[i])
             /\ FrozenNow => WaitsFrozen(proposals[i], proposals'[i])]_allVars

(* Transactions and proposals together are one vault: though they draw on   *)
(* the same balances, each is paid at most once and for its own amount.     *)
Ids == ({"tx"} \X DOMAIN tx) \cup ({"proposal"} \X DOMAIN proposals)
AllFiled == [k \in Ids |->
    IF k[1] = "tx" THEN [asset |-> tx[k[2]].destination, amount |-> tx[k[2]].amount]
                   ELSE [asset |-> proposals[k[2]].asset, amount |-> proposals[k[2]].amount]]
AllSettled == {k \in Ids : IF k[1] = "tx" THEN tx[k[2]].executed ELSE proposals[k[2]].settled}
Joint == INSTANCE Vault WITH
    Account <- Token,
    Request <- [asset : Destinations \cup Assets, amount : Amounts \cup ProposalAmounts],
    filed <- AllFiled, settled <- AllSettled, funds <- balance
OneVault == Joint!VaultSpec
=============================================================================
