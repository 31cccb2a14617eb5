---------------------------- MODULE MultisigSafe ----------------------------
(***************************************************************************)
(* The multi-signature wallet of contracts/soroban/src/lib.rs: weighted    *)
(* signers, transactions that execute when enough weight has signed, the   *)
(* emergency freeze and the three ways to recover a wallet.                *)
(*                                                                         *)
(* A step is one contract invocation that returned Ok (or the close of a   *)
(* ledger).  An invocation that returns Err or panics has no step: the     *)
(* host discards every storage write it made, so it changes nothing.       *)
(***************************************************************************)
EXTENDS Integers, Sequences, FiniteSets, FiniteSetsExt

CONSTANTS
    Address,            \* the accounts that may call, own or recover the wallet
    Token,              \* the token contracts the wallet may hold a balance of
    NoRequest,          \* no recovery request is stored
    \* arguments of __init__
    InitSigners, Levels, InitLevel, RecoveryDelay,
    InitRecovery, InitRecoveryPath, InitRecoveryKey,
    \* the constants of the source, scaled
    MAX_OWNERS, MIN_FREEZE_DURATION, MAX_FREEZE_DURATION,
    FREEZE_THRESHOLD_RATIO, RECOVERY_PERIOD, TIME_LOCK_PERIOD,
    WeightWord,         \* 2^32: weights are u32 and their sum wraps
    \* bounds: the inputs tried, and how far counters run
    Destinations,       \* where transactions are sent (tokens or anything else)
    Amounts, Lifetimes, Weights, FreezeDurations,
    OwnerLists, Thresholds, RecoveryChoices,
    Deposits,           \* amounts a token may credit to the wallet, with MaxFunds
    MaxFunds, MaxTransactions, MaxTime

(* What __init__ checks of its arguments, and the shape of the constants.  *)
ASSUME InitAssumption ==
    /\ InitSigners \subseteq Address
    /\ InitSigners # {}
    /\ IsFiniteSet(Address)
    /\ Levels \in [{"low", "medium", "high"} -> Nat]
    /\ InitLevel \in 1..Cardinality(InitSigners)
    /\ Cardinality(InitSigners) <= MAX_OWNERS
    /\ {InitRecovery, InitRecoveryPath, InitRecoveryKey} \subseteq Address
    /\ NoRequest \notin [newAddress : Address, initiatedAt : Nat]

ASSUME NumberAssumption ==
    /\ {RecoveryDelay, RECOVERY_PERIOD, TIME_LOCK_PERIOD, MaxFunds, MaxTime} \subseteq Nat
    /\ {MAX_OWNERS, MIN_FREEZE_DURATION, MAX_FREEZE_DURATION} \subseteq Nat \ {0}
    /\ {FREEZE_THRESHOLD_RATIO, WeightWord} \subseteq Nat \ {0}
    /\ MaxTransactions \in Nat

ASSUME InputAssumption ==
    /\ Amounts \subseteq Int
    /\ Lifetimes \subseteq Int
    /\ Weights \subseteq Nat
    /\ FreezeDurations \subseteq Nat
    /\ OwnerLists \subseteq [Address -> Nat]
    /\ Thresholds \subseteq Nat
    /\ RecoveryChoices \subseteq Address
    /\ Deposits \subseteq Nat

VARIABLES
    now,                \* ledger timestamp and sequence: the two advance together
    weight,             \* SIGNERS: the weight of a signer, 0 for anyone else
    currentThreshold,   \* THRESHOLD_CONFIG.current
    owners,             \* OWNERS: how often each address is in the list
    threshold,          \* THRESHOLD, the copy beside OWNERS
    tx,                 \* TRANSACTIONS with their SIGNATURES, in order of id
    balance,            \* what each token contract holds for the wallet
    frozen, freezeUntil,
    freezeSigs, unfreezeSigs,   \* who signed under the key of this ledger
    recoveryAddress, recoveryPath, recoveryKey, request,
    lastHeartbeat, lastActive

configVars == <<weight, currentThreshold>>
legacyVars == <<owners, threshold>>
fundVars == <<tx, balance>>
freezeVars == <<frozen, freezeUntil>>
ledgerSigs == <<freezeSigs, unfreezeSigs>>
recoveryVars == <<recoveryAddress, recoveryPath, recoveryKey, request>>
activityVars == <<lastHeartbeat, lastActive>>
vars == <<now, configVars, legacyVars, fundVars, freezeVars, ledgerSigs,
          recoveryVars, activityVars>>

RecoveryRequest == [newAddress : Address, initiatedAt : Nat]
(* executedAt is a history field: when the transaction was executed.        *)
Transaction == [destination : Destinations, amount : Int, expires : Int,
                executed : BOOLEAN, signed : SUBSET Address, executedAt : Nat]

(***************************************************************************)
(* Helpers.  An operator named Mut... is a seeded fault: no definition of  *)
(* the specification uses it (see "mutants" in PROJECT.json).              *)
(***************************************************************************)
Signers == {a \in Address : weight[a] > 0}
OwnerSet == {a \in Address : owners[a] > 0}

(* The loops over OWNERS that count signatures meet a repeated owner again. *)
Entries(list, S) == MapThenSumSet(LAMBDA a : list[a], S)
Listed(S) == [a \in Address |-> IF a \in S THEN 1 ELSE 0]

(* calculate_signed_weight: a u32 sum over the signers of today.            *)
MutHeadCount(signed) == Cardinality(signed) % WeightWord
SignedWeight(signed) ==
    MapThenSumSet(LAMBDA a : weight[a], signed \cap Signers) % WeightWord

Quorate(t) == SignedWeight(t.signed) >= currentThreshold

Unexpired(t) == now <= t.expires

(* The token client is built from the destination itself, so a positive     *)
(* amount goes through only if the destination is a token contract that     *)
(* holds it for the wallet.  Otherwise transfer panics.                     *)
MutPayUnchecked(t) == t.amount > 0 => t.destination \in Token
CanPay(t) ==
    t.amount > 0 => /\ t.destination \in Token
                    /\ balance[t.destination] >= t.amount

BalanceAfter(t) ==
    IF t.amount > 0 THEN [balance EXCEPT ![t.destination] = @ - t.amount] ELSE balance

(* execute_transaction on the stored list: no caller, no freeze check.      *)
MutExecuteTwice(list, id) ==
    LET t == list[id] IN
    /\ Quorate(t) /\ Unexpired(t) /\ CanPay(t)
    /\ tx' = [list EXCEPT ![id].executed = TRUE, ![id].executedAt = now]
    /\ balance' = BalanceAfter(t)
    /\ lastHeartbeat' = now
    /\ lastActive' = now
MutExecuteSilently(list, id) ==
    LET t == list[id] IN
    /\ ~t.executed /\ Quorate(t) /\ Unexpired(t) /\ CanPay(t)
    /\ tx' = [list EXCEPT ![id].executed = TRUE, ![id].executedAt = now]
    /\ balance' = BalanceAfter(t)
    /\ UNCHANGED activityVars
Execute(list, id) ==
    LET t == list[id] IN
    /\ ~t.executed
    /\ Quorate(t)
    /\ Unexpired(t)
    /\ CanPay(t)
    /\ tx' = [list EXCEPT ![id].executed = TRUE, ![id].executedAt = now]
    /\ balance' = BalanceAfter(t)
    /\ lastHeartbeat' = now
    /\ lastActive' = now

(* sign_transaction_internal: sign, then execute in the same invocation if  *)
(* that reached the threshold.  If the payment fails so does the signature. *)
MutSignOnly(list, id, a) ==
    LET t == list[id] IN
    /\ ~t.executed /\ Unexpired(t) /\ a \notin t.signed
    /\ tx' = [list EXCEPT ![id].signed = @ \cup {a}]
    /\ UNCHANGED <<balance, activityVars>>
Sign(list, id, a) ==
    LET t == list[id]
        signed == [t EXCEPT !.signed = @ \cup {a}]
        after == [list EXCEPT ![id] = signed]
    IN /\ ~t.executed
       /\ Unexpired(t)
       /\ a \notin t.signed
       /\ \/ Quorate(signed) /\ Execute(after, id)
          \/ ~Quorate(signed) /\ tx' = after /\ UNCHANGED <<balance, activityVars>>

(* check_frozen_status: an expired freeze is lifted by the first invocation *)
(* that gets past the check.                                                *)
MutFrozenIgnored == frozen' = FALSE /\ freezeUntil' = 0
PassFreezeCheck ==
    /\ frozen => now >= freezeUntil
    /\ frozen' = FALSE
    /\ freezeUntil' = IF frozen THEN 0 ELSE freezeUntil

(***************************************************************************)
(* __init__: the deployment, as nobody can call a name with two underscores*)
(***************************************************************************)
Init ==
    /\ now = 0
    /\ weight = Listed(InitSigners)
    /\ currentThreshold = InitLevel
    /\ owners = Listed(InitSigners)
    /\ threshold = InitLevel
    /\ tx = <<>>
    /\ balance = [k \in Token |-> 0]
    /\ frozen = FALSE
    /\ freezeUntil = 0
    /\ freezeSigs = {}
    /\ unfreezeSigs = {}
    /\ recoveryAddress = InitRecovery
    /\ recoveryPath = InitRecoveryPath
    /\ recoveryKey = InitRecoveryKey
    /\ request = NoRequest
    /\ lastHeartbeat = 0
    /\ lastActive = 0

(***************************************************************************)
(* Transactions                                                            *)
(***************************************************************************)
SubmitTransaction(a, dest, amount, life) ==
    /\ Len(tx) < MaxTransactions
    /\ a \in Signers
    /\ a \in OwnerSet
    /\ PassFreezeCheck
    /\ LET t == [destination |-> dest, amount |-> amount, expires |-> now + life,
                 executed |-> FALSE, signed |-> {}, executedAt |-> 0]
       IN Sign(Append(tx, t), Len(tx) + 1, a)
    /\ UNCHANGED <<now, configVars, legacyVars, ledgerSigs, recoveryVars>>

SignTransaction(a, id) ==
    /\ a \in Signers
    /\ a \in OwnerSet
    /\ PassFreezeCheck
    /\ Sign(tx, id, a)
    /\ UNCHANGED <<now, configVars, legacyVars, ledgerSigs, recoveryVars>>

ExecuteTransaction(id) ==
    /\ Execute(tx, id)
    /\ UNCHANGED <<now, configVars, legacyVars, freezeVars, ledgerSigs, recoveryVars>>

(* A token contract credits the wallet: no code of the wallet runs.         *)
Deposit(k, n) ==
    /\ balance[k] + n <= MaxFunds
    /\ balance' = [balance EXCEPT ![k] = @ + n]
    /\ UNCHANGED <<now, configVars, legacyVars, tx, freezeVars, ledgerSigs,
                   recoveryVars, activityVars>>

(***************************************************************************)
(* Signers and threshold                                                   *)
(***************************************************************************)
(* Any one signer may change the configuration while the wallet is not frozen. *)
Configure(a) ==
    /\ a \in Signers
    /\ PassFreezeCheck
    /\ UNCHANGED <<now, fundVars, ledgerSigs, recoveryVars, activityVars>>

(* The legacy owners list is rebuilt from the signers.                      *)
AddSigner(a, new, w) ==
    /\ Configure(a)
    /\ Cardinality(Signers) < MAX_OWNERS
    /\ w # 0
    /\ new \notin Signers
    /\ weight' = [weight EXCEPT ![new] = w]
    /\ owners' = Listed(Signers')
    /\ UNCHANGED <<currentThreshold, threshold>>

RemoveSigner(a, old) ==
    /\ Configure(a)
    /\ Cardinality(Signers) > 1
    /\ old \in Signers
    /\ SignedWeight(Signers \ {old}) >= currentThreshold
    /\ weight' = [weight EXCEPT ![old] = 0]
    /\ owners' = Listed(Signers')
    /\ UNCHANGED <<currentThreshold, threshold>>

UpdateSignerWeight(a, b, w) ==
    /\ Configure(a)
    /\ b \in Signers
    /\ w # 0
    /\ weight' = [weight EXCEPT ![b] = w]
    /\ UNCHANGED <<currentThreshold, legacyVars>>

MutSetAnyThreshold(n) ==
    /\ n <= Cardinality(Signers)
    /\ currentThreshold' = n
    /\ threshold' = n
    /\ UNCHANGED <<weight, owners>>
MutSetOneCopy(n) ==
    /\ 0 < n
    /\ n <= Cardinality(Signers)
    /\ currentThreshold' = n
    /\ UNCHANGED <<weight, legacyVars>>
SetThreshold(n) ==
    /\ 0 < n
    /\ n <= Cardinality(Signers)
    /\ currentThreshold' = n
    /\ threshold' = n
    /\ UNCHANGED <<weight, owners>>

ChangeThreshold(a, n) == Configure(a) /\ SetThreshold(n)
ChangeThresholdLevel(a, level) == Configure(a) /\ SetThreshold(Levels[level])

(***************************************************************************)
(* Freeze                                                                  *)
(***************************************************************************)
(* Signatures are stored under the sequence of the current ledger, counted  *)
(* over OWNERS, and removed when the operation succeeds.                    *)
FreezeThreshold ==
    LET third == (threshold + FREEZE_THRESHOLD_RATIO - 1) \div FREEZE_THRESHOLD_RATIO
    IN IF third > 1 THEN third ELSE 1

ValidDuration(d) == d \in MIN_FREEZE_DURATION..MAX_FREEZE_DURATION

MutSigsKept(sigs) == sigs
SigsCleared(sigs) == sigs \ OwnerSet

FreezeWallet(a, d) ==
    /\ a \in Signers
    /\ ValidDuration(d)
    /\ frozen /\ freezeUntil > now => now + d > freezeUntil
    /\ a \notin freezeSigs
    /\ Entries(owners, freezeSigs \cup {a}) >= FreezeThreshold
    /\ frozen' = TRUE
    /\ freezeUntil' = now + d
    /\ freezeSigs' = SigsCleared(freezeSigs \cup {a})
    /\ UNCHANGED <<now, configVars, legacyVars, fundVars, unfreezeSigs,
                   recoveryVars, activityVars>>

AllOwners(sigs) == Entries(owners, sigs) >= Entries(owners, Address)

UnfreezeWallet(a) ==
    /\ a \in Signers
    /\ frozen
    /\ \/ now >= freezeUntil /\ UNCHANGED unfreezeSigs
       \/ /\ now < freezeUntil
          /\ a \notin unfreezeSigs
          /\ AllOwners(unfreezeSigs \cup {a})
          /\ unfreezeSigs' = SigsCleared(unfreezeSigs \cup {a})
    /\ frozen' = FALSE
    /\ freezeUntil' = 0
    /\ UNCHANGED <<now, configVars, legacyVars, fundVars, freezeSigs,
                   recoveryVars, activityVars>>

(* The view writes too: it lifts a freeze that ran out.                     *)
GetFreezeStatus ==
    /\ frozen
    /\ now >= freezeUntil
    /\ frozen' = FALSE
    /\ freezeUntil' = 0
    /\ UNCHANGED <<now, configVars, legacyVars, fundVars, ledgerSigs,
                   recoveryVars, activityVars>>

(***************************************************************************)
(* Recovery                                                                *)
(***************************************************************************)
InitiateRecovery(a, new) ==
    /\ a \in Signers
    /\ request = NoRequest
    /\ request' = [newAddress |-> new, initiatedAt |-> now]
    /\ UNCHANGED <<now, configVars, legacyVars, fundVars, freezeVars, ledgerSigs,
                   recoveryAddress, recoveryPath, recoveryKey, activityVars>>

(* execute_after is initiated_at + RECOVERY_DELAY, which never changes.     *)
MutNoDelay == request # NoRequest
DelayPassed == request # NoRequest /\ now >= request.initiatedAt + RecoveryDelay

ExecuteRecovery ==
    /\ DelayPassed
    /\ recoveryAddress' = request.newAddress
    /\ request' = NoRequest
    /\ UNCHANGED <<now, configVars, legacyVars, fundVars, freezeVars, ledgerSigs,
                   recoveryPath, recoveryKey, activityVars>>

CancelRecovery(a) ==
    /\ a \in Signers
    /\ request # NoRequest
    /\ request' = NoRequest
    /\ UNCHANGED <<now, configVars, legacyVars, fundVars, freezeVars, ledgerSigs,
                   recoveryAddress, recoveryPath, recoveryKey, activityVars>>

(* Writes OWNERS and THRESHOLD only: SIGNERS and THRESHOLD_CONFIG, which    *)
(* decide about transactions, stay as they were.                            *)
EmergencyRecovery(a, list, n, new) ==
    /\ a = recoveryAddress
    /\ n \in 1..Entries(list, Address)
    /\ Entries(list, Address) <= MAX_OWNERS
    /\ owners' = list
    /\ threshold' = n
    /\ recoveryAddress' = new
    /\ request' = NoRequest
    /\ frozen' = FALSE
    /\ freezeUntil' = 0
    /\ UNCHANGED <<now, configVars, fundVars, ledgerSigs, recoveryPath, recoveryKey,
                   activityVars>>

Heartbeat(a) ==
    /\ a \in OwnerSet
    /\ PassFreezeCheck
    /\ lastHeartbeat' = now
    /\ lastActive' = now
    /\ UNCHANGED <<now, configVars, legacyVars, fundVars, ledgerSigs, recoveryVars>>

CancelTimeLockRecovery(a) ==
    /\ a \in OwnerSet
    /\ PassFreezeCheck
    /\ lastHeartbeat' = now
    /\ request' = NoRequest
    /\ UNCHANGED <<now, configVars, legacyVars, fundVars, ledgerSigs,
                   recoveryAddress, recoveryPath, recoveryKey, lastActive>>

(* The new owners, threshold and addresses are taken as given.              *)
TimeLockRecovery(a, list, n, new, newPath) ==
    /\ a = recoveryPath
    /\ now - lastHeartbeat >= RECOVERY_PERIOD
    /\ owners' = list
    /\ threshold' = n
    /\ recoveryAddress' = new
    /\ recoveryPath' = newPath
    /\ lastHeartbeat' = now
    /\ UNCHANGED <<now, configVars, fundVars, freezeVars, ledgerSigs, recoveryKey,
                   request, lastActive>>

UpdateRecoveryKey(a, new) ==
    /\ a = recoveryKey
    /\ now - lastActive >= TIME_LOCK_PERIOD
    /\ recoveryKey' = new
    /\ UNCHANGED <<now, configVars, legacyVars, fundVars, freezeVars, ledgerSigs,
                   recoveryAddress, recoveryPath, request, activityVars>>

(***************************************************************************)
(* A ledger closes: the keys of the old sequence are never looked up again *)
(***************************************************************************)
CloseLedger ==
    /\ now < MaxTime
    /\ now' = now + 1
    /\ freezeSigs' = {}
    /\ unfreezeSigs' = {}
    /\ UNCHANGED <<configVars, legacyVars, fundVars, freezeVars, recoveryVars,
                   activityVars>>

Transactions ==
    \/ \E a \in Address :
         \/ \E d \in Destinations, m \in Amounts, l \in Lifetimes :
               SubmitTransaction(a, d, m, l)
         \/ \E id \in DOMAIN tx : SignTransaction(a, id)
    \/ \E id \in DOMAIN tx : ExecuteTransaction(id)
    \/ \E k \in Token, n \in Deposits : Deposit(k, n)

Configuration ==
    \E a \in Address :
        \/ \E b \in Address, w \in Weights : AddSigner(a, b, w) \/ UpdateSignerWeight(a, b, w)
        \/ \E b \in Address : RemoveSigner(a, b)
        \/ \E n \in Thresholds : ChangeThreshold(a, n)
        \/ \E level \in DOMAIN Levels : ChangeThresholdLevel(a, level)

Freezing ==
    \/ \E a \in Address : \/ \E d \in FreezeDurations : FreezeWallet(a, d)
                          \/ UnfreezeWallet(a)
    \/ GetFreezeStatus

Recovery ==
    \/ \E a \in Address :
         \/ \E new \in RecoveryChoices : InitiateRecovery(a, new) \/ UpdateRecoveryKey(a, new)
         \/ CancelRecovery(a) \/ Heartbeat(a) \/ CancelTimeLockRecovery(a)
         \/ \E list \in OwnerLists, n \in Thresholds, new \in RecoveryChoices :
              \/ EmergencyRecovery(a, list, n, new)
              \/ \E path \in RecoveryChoices : TimeLockRecovery(a, list, n, new, path)
    \/ ExecuteRecovery

Next == Transactions \/ Configuration \/ Freezing \/ Recovery \/ CloseLedger

Spec == Init /\ [][Next]_vars

(***************************************************************************)
(* Properties                                                              *)
(***************************************************************************)
(* Every variable keeps its type: weights stay natural numbers, only known  *)
(* requests are pending and no token balance is ever overdrawn.             *)
TypeOK ==
    /\ now \in Nat
    /\ weight \in [Address -> Nat]
    /\ currentThreshold \in Nat
    /\ owners \in [Address -> Nat]
    /\ threshold \in Nat
    /\ tx \in Seq(Transaction)
    /\ balance \in [Token -> Nat]
    /\ frozen \in BOOLEAN
    /\ freezeUntil \in Nat
    /\ freezeSigs \subseteq Address
    /\ unfreezeSigs \subseteq Address
    /\ {recoveryAddress, recoveryPath, recoveryKey} \subseteq Address
    /\ request \in RecoveryRequest \cup {NoRequest}
    /\ {lastHeartbeat, lastActive} \subseteq 0..now

(* No sequence of signer removals, level changes and recoveries leaves a    *)
(* wallet that pays without a signature: some signer remains and the        *)
(* threshold that execute_transaction reads stays between 1 and MAX_OWNERS. *)
SomeSignatureNeeded ==
    /\ Signers # {}
    /\ currentThreshold \in 1..MAX_OWNERS

(* A freeze never reaches further ahead than MAX_FREEZE_DURATION, however   *)
(* often freeze_wallet extended it, and a thawed wallet keeps no deadline.  *)
FreezeBounded ==
    IF frozen THEN freezeUntil - now <= MAX_FREEZE_DURATION ELSE freezeUntil = 0

(* "Update legacy owners list for backward compatibility": as long as no    *)
(* recovery replaced the owners, add_signer, remove_signer and the          *)
(* threshold functions keep OWNERS and THRESHOLD equal to what SIGNERS and  *)
(* THRESHOLD_CONFIG say.  (OwnerLists = {} rules the replacements out.)     *)
LegacyMirror ==
    OwnerLists = {} => owners = Listed(Signers) /\ threshold = currentThreshold

IsPaid(id) == id \in DOMAIN tx /\ tx[id].executed

(* execute_transaction: whatever was signed and whoever was removed,        *)
(* re-added or reweighted since, a transaction is executed only on the      *)
(* weight, counted without wrap-around, of those who are signers now.       *)
PaidWithQuorum ==
    [][\A id \in DOMAIN tx' :
          IsPaid(id)' /\ ~IsPaid(id) =>
              currentThreshold <= MapThenSumSet(LAMBDA a : weight[a],
                                               tx'[id].signed \cap Signers)]_vars

(* sign_transaction_internal: a signature that completes the quorum         *)
(* executes, so only a change of the configuration leaves a transaction     *)
(* that has its quorum and is not executed.                                 *)
SigningSettles ==
    [][UNCHANGED configVars =>
          \A id \in DOMAIN tx' :
              Quorate(tx[id])' /\ ~IsPaid(id)' => id \in DOMAIN tx /\ Quorate(tx[id])]_vars

FrozenNow == frozen /\ now < freezeUntil

(* A freeze stops the signers: while it lasts no one is added, removed or   *)
(* reweighted, nothing is submitted or signed, and the only payments are of *)
(* transactions whose quorum was complete before (execute_transaction does  *)
(* not look at the freeze).                                                 *)
FreezeHolds ==
    [][FrozenNow => /\ UNCHANGED configVars
                    /\ Len(tx') = Len(tx)
                    /\ \A id \in DOMAIN tx :
                          /\ tx'[id].signed = tx[id].signed
                          /\ IsPaid(id)' /\ ~IsPaid(id) => Quorate(tx[id])]_vars

(* The recovery paths put the owners, and only the owners, in place.        *)
ReplacesOwners(path) ==
    \E a \in Address, list \in OwnerLists, n \in Thresholds, new \in RecoveryChoices :
        IF path THEN \E q \in RecoveryChoices : TimeLockRecovery(a, list, n, new, q)
                ELSE EmergencyRecovery(a, list, n, new)

(* initiate_recovery / execute_recovery: unless the owners are replaced as  *)
(* a whole, the recovery address changes only to the address of a request   *)
(* that stood for the whole delay, time in which a signer could cancel it.  *)
RecoveryWaits ==
    [][recoveryAddress' # recoveryAddress =>
          \/ ReplacesOwners(TRUE) \/ ReplacesOwners(FALSE)
          \/ /\ request # NoRequest
             /\ recoveryAddress' = request.newAddress
             /\ now - request.initiatedAt >= RecoveryDelay]_vars

(* time_lock_recovery is for abandoned wallets: it never succeeds within    *)
(* RECOVERY_PERIOD of an executed transaction.                              *)
TimeLockNeedsSilence ==
    [][ReplacesOwners(TRUE) =>
          \A id \in DOMAIN tx : IsPaid(id) => now - tx[id].executedAt >= RECOVERY_PERIOD]_vars

(* The transactions are a vault: filed once, paid at most once, each for    *)
(* exactly its amount, and nothing else moves money out.                    *)
Vlt == INSTANCE Vault WITH
    Account <- Token,
    Request <- [asset : Destinations, amount : Amounts],
    filed <- [id \in DOMAIN tx |-> [asset |-> tx[id].destination, amount |-> tx[id].amount]],
    settled <- {id \in DOMAIN tx : tx[id].executed},
    funds <- balance
IsAVault == Vlt!VaultSpec

(* time_lock_recovery "Update signers and configuration" (lib.rs:1469):     *)
(* after a recovery the owners it installed can submit and sign.            *)
OwnersCanSign == OwnerSet \subseteq Signers
=============================================================================
