------------------------------- MODULE Bridge -------------------------------
(***************************************************************************)
(* contracts/soroban/src/bridge.rs: tokens are locked for another chain,   *)
(* and paid out for transfers that validators saw on another chain.  Only  *)
(* the last outbound transfer is stored.  One token.                       *)
(***************************************************************************)
EXTENDS Integers, FiniteSets, FiniteSetsExt

CONSTANTS
    Validator, Chain, Inbound,      \* Inbound: ids of transfers to this chain
    minValidators, transferTimeout, feeRate,
    Locks, Payouts,                 \* amounts
    NoTransfer,
    MaxLocks, MaxTime               \* bounds

VARIABLES
    now,
    validators, chains,
    transfer, txCount,              \* TRANSFER and TX_COUNT
    validatedBy,                    \* VAL_BY; the count is stored beside it
    count,
    chest,                          \* the contract's balance of the token
    payouts                         \* history: how often an inbound transfer was paid

vars == <<now, validators, chains, transfer, txCount, validatedBy, count, chest, payouts>>

Init ==
    /\ now = 0
    /\ validators = {}
    /\ chains = {}
    /\ transfer = NoTransfer
    /\ txCount = 0
    /\ validatedBy = [i \in Inbound |-> {}]
    /\ count = [i \in Inbound |-> 0]
    /\ chest = 0
    /\ payouts = [i \in Inbound |-> 0]

AddValidator(v) ==
    /\ v \notin validators
    /\ validators' = validators \cup {v}
    /\ UNCHANGED <<now, chains, transfer, txCount, validatedBy, count, chest, payouts>>

(* What a removed validator confirmed stays counted.                        *)
RemoveValidator(v) ==
    /\ v \in validators
    /\ validators' = validators \ {v}
    /\ UNCHANGED <<now, chains, transfer, txCount, validatedBy, count, chest, payouts>>

AddSupportedChain(c) ==
    /\ chains' = chains \cup {c}
    /\ UNCHANGED <<now, validators, transfer, txCount, validatedBy, count, chest, payouts>>

(* Overwrites the transfer before it.                                       *)
Lock(n, c) ==
    LET fee == (n * feeRate) \div 10000 IN
    /\ txCount < MaxLocks
    /\ n > 0
    /\ c \in chains
    /\ chest + n >= fee
    /\ chest' = chest + n - fee
    /\ txCount' = txCount + 1
    /\ transfer' = [id |-> txCount', amount |-> n - fee, expires |-> now + transferTimeout]
    /\ UNCHANGED <<now, validators, chains, validatedBy, count, payouts>>

(* Every confirmation from the minimum on pays: the transfer is paid again  *)
(* by each validator that confirms it after the quorum.                     *)
ValidateInbound(v, i, n) ==
    /\ v \in validators
    /\ v \notin validatedBy[i]
    /\ validatedBy' = [validatedBy EXCEPT ![i] = @ \cup {v}]
    /\ count' = [count EXCEPT ![i] = @ + 1]
    /\ \/ /\ count'[i] >= minValidators
          /\ n \in 0..chest
          /\ chest' = chest - n
          /\ payouts' = [payouts EXCEPT ![i] = @ + 1]
       \/ /\ count'[i] < minValidators
          /\ UNCHANGED <<chest, payouts>>
    /\ UNCHANGED <<now, validators, chains, transfer, txCount>>

(* The status becomes Expired, which a second call does not refuse: only    *)
(* Released, which is never set, would be.                                  *)
ReclaimExpired(id) ==
    /\ transfer # NoTransfer
    /\ transfer.id = id
    /\ now >= transfer.expires
    /\ transfer.amount \in 0..chest
    /\ chest' = chest - transfer.amount
    /\ UNCHANGED <<now, validators, chains, transfer, txCount, validatedBy, count, payouts>>

Tick ==
    /\ now < MaxTime
    /\ now' = now + 1
    /\ UNCHANGED <<validators, chains, transfer, txCount, validatedBy, count, chest, payouts>>

Next ==
    \/ \E v \in Validator : AddValidator(v) \/ RemoveValidator(v)
    \/ \E c \in Chain : AddSupportedChain(c) \/ \E n \in Locks : Lock(n, c)
    \/ \E v \in Validator, i \in Inbound, n \in Payouts : ValidateInbound(v, i, n)
    \/ \E id \in 1..txCount : ReclaimExpired(id)
    \/ Tick

Spec == Init /\ [][Next]_vars

(* validate_inbound: with validators added and removed in between, nothing  *)
(* is paid for an inbound transfer before the minimum of different          *)
(* validators confirmed it.  (That it is paid once does not hold: see       *)
(* ValidateInbound.)                                                        *)
PaidOnQuorum ==
    \A i \in Inbound :
        payouts[i] # 0 => Cardinality(validatedBy[i]) >= Max({1, minValidators})
=============================================================================
