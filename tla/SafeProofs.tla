------------------------------ MODULE SafeProofs ------------------------------
(***************************************************************************)
(* What TLAPS proves of the wallet, of its proposals and of its upgrades,  *)
(* for every set of addresses and tokens, every configuration __init__     *)
(* accepts and every value of the bounds.                                  *)
(***************************************************************************)
EXTENDS SafeProposals, SafeUpgrade, Sums, SequenceTheorems, FiniteSetTheorems, TLAPS

(***************************************************************************)
(* Types                                                                   *)
(***************************************************************************)
(* Executing a transaction of a typed list leaves typed lists and balances, *)
(* and a transaction that differs from the old one in two fields.           *)
LEMMA ExecuteTyped ==
    ASSUME TypeOK,
           NEW list \in Seq(Transaction), NEW id \in DOMAIN list,
           Execute(list, id)
    PROVE  /\ tx' \in Seq(Transaction)
           /\ balance' \in [Token -> Nat]
           /\ lastHeartbeat' = now
           /\ lastActive' = now
           /\ DOMAIN tx' = DOMAIN list
           /\ \A k \in DOMAIN list :
                 tx'[k] = IF k = id THEN [list[id] EXCEPT !.executed = TRUE, !.executedAt = now]
                                   ELSE list[k]
<1> DEFINE t == list[id]
           u == [t EXCEPT !.executed = TRUE, !.executedAt = now]
<1>1. id \in 1..Len(list)
  BY LenProperties
<1>2. t \in Transaction
  BY <1>1, ElementOfSeq
<1>3. u \in Transaction
  BY <1>2 DEF TypeOK, Transaction
<1>4. tx' = [list EXCEPT ![id] = u]
  BY <1>1, <1>2, LenProperties DEF Execute, Transaction
<1>5. /\ tx' \in Seq(Transaction)
      /\ DOMAIN tx' = DOMAIN list
      /\ \A k \in DOMAIN list : tx'[k] = IF k = id THEN u ELSE list[k]
  <2> HIDE DEF u
  <2> QED
    BY <1>1, <1>3, <1>4, ExceptSeq, LenProperties
<1>6. balance' \in [Token -> Nat]
  <2>1. t.amount \in Int /\ balance \in [Token -> Nat]
    BY <1>2 DEF Transaction, TypeOK
  <2>2. CASE t.amount > 0
    <3>1. t.destination \in Token /\ balance[t.destination] - t.amount \in Nat
      BY <2>1, <2>2 DEF Execute, CanPay
    <3>2. balance' = [balance EXCEPT ![t.destination] = @ - t.amount]
      BY <2>2 DEF Execute, BalanceAfter
    <3> QED
      BY <2>1, <3>1, <3>2
  <2> QED
    BY <2>1, <2>2 DEF Execute, BalanceAfter
<1> QED
  BY <1>5, <1>6 DEF Execute

LEMMA SignTyped ==
    ASSUME TypeOK,
           NEW list \in Seq(Transaction), NEW id \in DOMAIN list, NEW a \in Address,
           Sign(list, id, a)
    PROVE  /\ tx' \in Seq(Transaction)
           /\ balance' \in [Token -> Nat]
           /\ {lastHeartbeat', lastActive'} \subseteq 0..now
<1> DEFINE t == list[id]
           signed == [t EXCEPT !.signed = @ \cup {a}]
           after == [list EXCEPT ![id] = signed]
<1>1. id \in 1..Len(list)
  BY LenProperties
<1>2. t \in Transaction
  BY <1>1, ElementOfSeq
<1>3. signed \in Transaction
  BY <1>2 DEF Transaction
<1>4. after \in Seq(Transaction) /\ id \in DOMAIN after
  BY <1>1, <1>3, ExceptSeq, LenProperties
<1>5. CASE Execute(after, id)
  <2> HIDE DEF t, signed, after
  <2>1. /\ tx' \in Seq(Transaction)
        /\ balance' \in [Token -> Nat]
        /\ lastHeartbeat' = now
        /\ lastActive' = now
    BY <1>4, <1>5, ExecuteTyped
  <2> QED
    BY <2>1 DEF TypeOK
<1>6. CASE tx' = after /\ UNCHANGED <<balance, activityVars>>
  BY <1>4, <1>6 DEF TypeOK, activityVars
<1>7. \/ Execute(after, id)
      \/ tx' = after /\ UNCHANGED <<balance, activityVars>>
  BY DEF Sign
<1> QED
  BY <1>5, <1>6, <1>7

(* A caller may set any natural number as a threshold or a weight, and only  *)
(* addresses sign: each step of the wallet keeps the types.                  *)
LEMMA TypeInit == Init => TypeOK
<1> SUFFICES ASSUME Init PROVE TypeOK
  OBVIOUS
<1>1. Cardinality(InitSigners) \in Nat
  BY InitAssumption, FS_Subset, FS_CardinalityType
<1>2. threshold \in Nat /\ currentThreshold \in Nat
  BY <1>1, InitAssumption DEF Init
<1>3. weight \in [Address -> Nat] /\ owners \in [Address -> Nat]
  BY DEF Init, Listed
<1>4. tx \in Seq(Transaction)
  BY EmptySeq DEF Init
<1>5. balance \in [Token -> Nat] /\ now \in Nat
  BY DEF Init
<1>6. {recoveryAddress, recoveryPath, recoveryKey} \subseteq Address
  BY InitAssumption DEF Init
<1>7. {lastHeartbeat, lastActive} \subseteq 0..now
  BY DEF Init
<1> QED
  BY <1>2, <1>3, <1>4, <1>5, <1>6, <1>7 DEF Init, TypeOK

LEMMA TransactionsTyped == TypeOK /\ Transactions => TypeOK'
<1> SUFFICES ASSUME TypeOK, Transactions PROVE TypeOK'
  OBVIOUS
<1>1. ASSUME NEW a \in Address, NEW d \in Destinations, NEW m \in Amounts,
             NEW l \in Lifetimes, SubmitTransaction(a, d, m, l)
      PROVE  TypeOK'
  <2> DEFINE t == [destination |-> d, amount |-> m, expires |-> now + l,
                   executed |-> FALSE, signed |-> {}, executedAt |-> 0]
             list == Append(tx, t)
  <2>1. t \in Transaction
    BY InputAssumption DEF Transaction, TypeOK
  <2>2. list \in Seq(Transaction) /\ Len(tx) + 1 \in DOMAIN list
    BY <2>1, AppendProperties, LenProperties DEF TypeOK
  <2>3. Sign(list, Len(tx) + 1, a)
    BY <1>1 DEF SubmitTransaction
  <2> HIDE DEF t, list
  <2>4. /\ tx' \in Seq(Transaction)
        /\ balance' \in [Token -> Nat]
        /\ {lastHeartbeat', lastActive'} \subseteq 0..now
    BY <2>2, <2>3, SignTyped
  <2> QED
    BY <1>1, <2>4 DEF SubmitTransaction, PassFreezeCheck, TypeOK,
       configVars, legacyVars, ledgerSigs, recoveryVars
<1>2. ASSUME NEW a \in Address, NEW id \in DOMAIN tx, SignTransaction(a, id)
      PROVE  TypeOK'
  <2>1. /\ tx' \in Seq(Transaction)
        /\ balance' \in [Token -> Nat]
        /\ {lastHeartbeat', lastActive'} \subseteq 0..now
    BY <1>2, SignTyped DEF SignTransaction, TypeOK
  <2> QED
    BY <1>2, <2>1 DEF SignTransaction, PassFreezeCheck, TypeOK,
       configVars, legacyVars, ledgerSigs, recoveryVars
<1>3. ASSUME NEW id \in DOMAIN tx, ExecuteTransaction(id)
      PROVE  TypeOK'
  <2>1. /\ tx' \in Seq(Transaction)
        /\ balance' \in [Token -> Nat]
        /\ lastHeartbeat' = now
        /\ lastActive' = now
    BY <1>3, ExecuteTyped DEF ExecuteTransaction, TypeOK
  <2> QED
    BY <1>3, <2>1 DEF ExecuteTransaction, TypeOK,
       configVars, legacyVars, freezeVars, ledgerSigs, recoveryVars
<1>4. ASSUME NEW k \in Token, NEW n \in Deposits, Deposit(k, n)
      PROVE  TypeOK'
  BY <1>4, InputAssumption DEF Deposit, TypeOK, configVars, legacyVars, freezeVars,
     ledgerSigs, recoveryVars, activityVars
<1> QED
  BY <1>1, <1>2, <1>3, <1>4 DEF Transactions

LEMMA ConfigurationTyped == TypeOK /\ Configuration => TypeOK'
<1> SUFFICES ASSUME TypeOK, Configuration PROVE TypeOK'
  OBVIOUS
<1> USE DEF Configure, PassFreezeCheck, fundVars, ledgerSigs, recoveryVars, activityVars,
            legacyVars, TypeOK
<1>1. ASSUME NEW a \in Address, NEW b \in Address, NEW w \in Weights, AddSigner(a, b, w)
      PROVE  TypeOK'
  BY <1>1, InputAssumption DEF AddSigner, Listed
<1>2. ASSUME NEW a \in Address, NEW b \in Address, NEW w \in Weights,
             UpdateSignerWeight(a, b, w)
      PROVE  TypeOK'
  BY <1>2, InputAssumption DEF UpdateSignerWeight
<1>3. ASSUME NEW a \in Address, NEW b \in Address, RemoveSigner(a, b)
      PROVE  TypeOK'
  BY <1>3 DEF RemoveSigner, Listed
<1>4. ASSUME NEW a \in Address, NEW n \in Nat, Configure(a), SetThreshold(n)
      PROVE  TypeOK'
  BY <1>4 DEF SetThreshold
<1>5. ASSUME NEW a \in Address, NEW n \in Thresholds, ChangeThreshold(a, n)
      PROVE  TypeOK'
  BY <1>4, <1>5, InputAssumption DEF ChangeThreshold
<1>6. ASSUME NEW a \in Address, NEW level \in DOMAIN Levels, ChangeThresholdLevel(a, level)
      PROVE  TypeOK'
  <2>1. Levels[level] \in Nat
    BY InitAssumption
  <2> QED
    BY <1>4, <1>6, <2>1 DEF ChangeThresholdLevel
<1> QED
  BY <1>1, <1>2, <1>3, <1>5, <1>6 DEF Configuration

LEMMA FreezingTyped == TypeOK /\ Freezing => TypeOK'
<1> USE DEF TypeOK, configVars, legacyVars, fundVars, ledgerSigs, recoveryVars, activityVars
<1>1. ASSUME TypeOK, NEW a \in Address, NEW d \in FreezeDurations, FreezeWallet(a, d)
      PROVE  TypeOK'
  BY <1>1, InputAssumption DEF FreezeWallet, SigsCleared
<1>2. ASSUME TypeOK, NEW a \in Address, UnfreezeWallet(a)
      PROVE  TypeOK'
  BY <1>2 DEF UnfreezeWallet, SigsCleared
<1>3. ASSUME TypeOK, GetFreezeStatus
      PROVE  TypeOK'
  BY <1>3 DEF GetFreezeStatus
<1> QED
  BY <1>1, <1>2, <1>3 DEF Freezing

LEMMA RecoveryTyped == TypeOK /\ Recovery => TypeOK'
<1> SUFFICES ASSUME TypeOK, Recovery PROVE TypeOK'
  OBVIOUS
<1> USE InputAssumption DEF TypeOK, configVars, legacyVars, fundVars, freezeVars, ledgerSigs,
            recoveryVars, activityVars
<1>1. ASSUME NEW a \in Address, NEW new \in RecoveryChoices, InitiateRecovery(a, new)
      PROVE  TypeOK'
  BY <1>1 DEF InitiateRecovery, RecoveryRequest
<1>2. ASSUME NEW a \in Address, NEW new \in RecoveryChoices, UpdateRecoveryKey(a, new)
      PROVE  TypeOK'
  BY <1>2 DEF UpdateRecoveryKey
<1>3. ASSUME NEW a \in Address, CancelRecovery(a)
      PROVE  TypeOK'
  BY <1>3 DEF CancelRecovery
<1>4. ASSUME NEW a \in Address, Heartbeat(a)
      PROVE  TypeOK'
  <2>1. {lastHeartbeat', lastActive'} \subseteq 0..now
    BY <1>4 DEF Heartbeat
  <2>2. frozen' \in BOOLEAN /\ freezeUntil' \in Nat
    BY <1>4 DEF Heartbeat, PassFreezeCheck
  <2> QED
    BY <1>4, <2>1, <2>2 DEF Heartbeat
<1>5. ASSUME NEW a \in Address, CancelTimeLockRecovery(a)
      PROVE  TypeOK'
  <2>1. {lastHeartbeat', lastActive'} \subseteq 0..now
    BY <1>5 DEF CancelTimeLockRecovery
  <2>2. frozen' \in BOOLEAN /\ freezeUntil' \in Nat
    BY <1>5 DEF CancelTimeLockRecovery, PassFreezeCheck
  <2> QED
    BY <1>5, <2>1, <2>2 DEF CancelTimeLockRecovery
<1>6. ASSUME NEW a \in Address, NEW list \in OwnerLists, NEW n \in Thresholds,
             NEW new \in RecoveryChoices, EmergencyRecovery(a, list, n, new)
      PROVE  TypeOK'
  BY <1>6 DEF EmergencyRecovery
<1>7. ASSUME NEW a \in Address, NEW list \in OwnerLists, NEW n \in Thresholds,
             NEW new \in RecoveryChoices, NEW path \in RecoveryChoices,
             TimeLockRecovery(a, list, n, new, path)
      PROVE  TypeOK'
  <2>1. {lastHeartbeat', lastActive'} \subseteq 0..now
    BY <1>7 DEF TimeLockRecovery
  <2> QED
    BY <1>7, <2>1 DEF TimeLockRecovery
<1>8. ASSUME ExecuteRecovery
      PROVE  TypeOK'
  BY <1>8 DEF ExecuteRecovery, DelayPassed, RecoveryRequest
<1> QED
  BY <1>1, <1>2, <1>3, <1>4, <1>5, <1>6, <1>7, <1>8 DEF Recovery

(* TypeOK is inductive: no call overdraws a token or leaves a malformed      *)
(* transaction, owner list, freeze deadline or recovery request behind.      *)
LEMMA StepTyped == TypeOK /\ [Next]_vars => TypeOK'
<1> SUFFICES ASSUME TypeOK, [Next]_vars PROVE TypeOK'
  OBVIOUS
<1>1. CASE CloseLedger
  BY <1>1 DEF CloseLedger, TypeOK, configVars, legacyVars, fundVars, freezeVars,
     recoveryVars, activityVars
<1>2. CASE UNCHANGED vars
  BY <1>2 DEF TypeOK, vars, configVars, legacyVars, fundVars, freezeVars, ledgerSigs,
     recoveryVars, activityVars
<1> QED
  BY <1>1, <1>2, TransactionsTyped, ConfigurationTyped, FreezingTyped, RecoveryTyped
     DEF Next

(* The wallet never holds a value that is not of its type, and never owes a  *)
(* token: whatever the calls and their order.                                *)
THEOREM Typing == Spec => []TypeOK
  BY TypeInit, StepTyped, PTL DEF Spec

(***************************************************************************)
(* What each group of operations leaves alone                              *)
(***************************************************************************)
(* The freeze is lifted and its deadline forgotten.                         *)
Unfreeze == frozen' = FALSE /\ freezeUntil' = 0

LEMMA TransactionsFrame ==
    Transactions => /\ UNCHANGED <<now, configVars, legacyVars, ledgerSigs, recoveryVars>>
                    /\ PassFreezeCheck \/ UNCHANGED freezeVars
  BY DEF Transactions, SubmitTransaction, SignTransaction, ExecuteTransaction, Deposit

LEMMA ConfigurationFrame ==
    Configuration => /\ UNCHANGED <<now, fundVars, ledgerSigs, recoveryVars, activityVars>>
                     /\ PassFreezeCheck
  BY DEF Configuration, AddSigner, RemoveSigner, UpdateSignerWeight, ChangeThreshold,
     ChangeThresholdLevel, Configure

LEMMA FreezingFrame ==
    Freezing => UNCHANGED <<now, configVars, legacyVars, fundVars, recoveryVars, activityVars>>
  BY DEF Freezing, FreezeWallet, UnfreezeWallet, GetFreezeStatus

LEMMA RecoveryFrame ==
    Recovery => /\ UNCHANGED <<now, configVars, fundVars, ledgerSigs>>
                /\ PassFreezeCheck \/ Unfreeze \/ UNCHANGED freezeVars
  BY DEF Recovery, InitiateRecovery, UpdateRecoveryKey, CancelRecovery, Heartbeat,
     CancelTimeLockRecovery, EmergencyRecovery, TimeLockRecovery, ExecuteRecovery, Unfreeze,
     recoveryVars

(***************************************************************************)
(* Signers and threshold                                                   *)
(***************************************************************************)
(* The strengthening that makes SomeSignatureNeeded inductive: add_signer    *)
(* stops at MAX_OWNERS, so a threshold that is at most the number of signers *)
(* when it is set is at most MAX_OWNERS ever after.                          *)
SignersFit == SomeSignatureNeeded /\ Cardinality(Signers) <= MAX_OWNERS

LEMMA SignersFinite ==
    ASSUME TypeOK
    PROVE  IsFiniteSet(Signers) /\ Cardinality(Signers) \in Nat
  BY InitAssumption, FS_Subset, FS_CardinalityType DEF Signers

LEMMA ThresholdFitsSigners ==
    ASSUME TypeOK, SignersFit, NEW n \in Nat, SetThreshold(n)
    PROVE  SignersFit'
<1>1. Signers' = Signers
  BY DEF SetThreshold, Signers
<1>2. MAX_OWNERS \in Nat /\ Cardinality(Signers) \in Nat
  BY NumberAssumption, SignersFinite
<1>3. currentThreshold' \in 1..MAX_OWNERS
  BY <1>2 DEF SetThreshold, SignersFit
<1> QED
  BY <1>1, <1>3 DEF SignersFit, SomeSignatureNeeded

(* No sequence of additions, removals, weight and threshold changes leaves a *)
(* wallet without signers or with a threshold that no signature is needed    *)
(* for: SomeSignatureNeeded, for every MAX_OWNERS and every set of accounts. *)
THEOREM SignatureNeeded == Spec => []SomeSignatureNeeded
<1>1. Init => SignersFit
  <2> SUFFICES ASSUME Init PROVE SignersFit
    OBVIOUS
  <2>1. Signers = InitSigners
    BY InitAssumption DEF Init, Signers, Listed
  <2>2. Cardinality(InitSigners) \in Nat
    BY InitAssumption, FS_Subset, FS_CardinalityType
  <2>3. currentThreshold \in 1..MAX_OWNERS
    BY <2>2, InitAssumption, NumberAssumption DEF Init
  <2> QED
    BY <2>1, <2>3, InitAssumption DEF SignersFit, SomeSignatureNeeded
<1>2. TypeOK /\ SignersFit /\ [Next]_vars => SignersFit'
  <2> SUFFICES ASSUME TypeOK, SignersFit, [Next]_vars PROVE SignersFit'
    OBVIOUS
  <2>1. CASE UNCHANGED configVars
    <3>1. Signers' = Signers /\ currentThreshold' = currentThreshold
      BY <2>1 DEF configVars, Signers
    <3> QED
      BY <3>1 DEF SignersFit, SomeSignatureNeeded
  <2>2. CASE Configuration
    <3>1. ASSUME NEW a \in Address, NEW b \in Address, NEW w \in Weights, AddSigner(a, b, w)
          PROVE  SignersFit'
      <4>1. Signers' = Signers \cup {b}
        BY <3>1, InputAssumption DEF AddSigner, Signers, TypeOK
      <4>2. Cardinality(Signers') <= MAX_OWNERS /\ Signers' # {}
        BY <3>1, <4>1, SignersFinite, FS_AddElement, NumberAssumption DEF AddSigner
      <4> QED
        BY <3>1, <4>2 DEF SignersFit, SomeSignatureNeeded, AddSigner
    <3>2. ASSUME NEW a \in Address, NEW b \in Address, RemoveSigner(a, b)
          PROVE  SignersFit'
      <4>1. Signers' = Signers \ {b} /\ b \in Signers
        BY <3>2 DEF RemoveSigner, Signers, TypeOK
      <4>2. Cardinality(Signers') = Cardinality(Signers) - 1 /\ IsFiniteSet(Signers')
        BY <4>1, SignersFinite, FS_RemoveElement
      <4>3. Cardinality(Signers') > 0
        BY <3>2, <4>2, SignersFinite DEF RemoveSigner
      <4>4. Signers' # {}
        BY <4>3, FS_EmptySet
      <4>5. Cardinality(Signers') <= MAX_OWNERS
        BY <4>2, SignersFinite, NumberAssumption DEF SignersFit
      <4> QED
        BY <3>2, <4>4, <4>5 DEF SignersFit, SomeSignatureNeeded, RemoveSigner
    <3>3. ASSUME NEW a \in Address, NEW b \in Address, NEW w \in Weights,
                 UpdateSignerWeight(a, b, w)
          PROVE  SignersFit'
      <4>1. Signers' = Signers
        BY <3>3, InputAssumption DEF UpdateSignerWeight, Signers, TypeOK
      <4> QED
        BY <3>3, <4>1 DEF SignersFit, SomeSignatureNeeded, UpdateSignerWeight
    <3>4. ASSUME NEW a \in Address, NEW n \in Thresholds, ChangeThreshold(a, n)
          PROVE  SignersFit'
      BY <3>4, ThresholdFitsSigners, InputAssumption DEF ChangeThreshold
    <3>5. ASSUME NEW a \in Address, NEW level \in DOMAIN Levels,
                 ChangeThresholdLevel(a, level)
          PROVE  SignersFit'
      <4>1. Levels[level] \in Nat
        BY InitAssumption
      <4> QED
        BY <3>5, <4>1, ThresholdFitsSigners DEF ChangeThresholdLevel
    <3> QED
      BY <2>2, <3>1, <3>2, <3>3, <3>4, <3>5 DEF Configuration
  <2>3. CASE CloseLedger \/ UNCHANGED vars
    BY <2>1, <2>3 DEF CloseLedger, vars
  <2> QED
    BY <2>1, <2>2, <2>3, TransactionsFrame, FreezingFrame, RecoveryFrame DEF Next
<1>3. SignersFit => SomeSignatureNeeded
  BY DEF SignersFit
<1> QED
  BY <1>1, <1>2, <1>3, Typing, PTL DEF Spec

(* As long as no recovery replaces the owners, OWNERS and THRESHOLD say what *)
(* SIGNERS and THRESHOLD_CONFIG say, whichever of the two is read.           *)
THEOREM Mirror == Spec => []LegacyMirror
<1>1. Init => LegacyMirror
  BY InitAssumption DEF Init, LegacyMirror, Signers, Listed
<1>2. TypeOK /\ LegacyMirror /\ [Next]_vars => LegacyMirror'
  <2> SUFFICES ASSUME TypeOK, LegacyMirror, [Next]_vars, OwnerLists = {}
               PROVE  (owners = Listed(Signers) /\ threshold = currentThreshold)'
    BY DEF LegacyMirror
  <2>1. owners = Listed(Signers) /\ threshold = currentThreshold
    BY DEF LegacyMirror
  <2>2. CASE UNCHANGED <<configVars, legacyVars>>
    BY <2>1, <2>2 DEF configVars, legacyVars, Listed, Signers
  <2>3. CASE Configuration
    <3>1. ASSUME NEW a \in Address, NEW b \in Address, NEW w \in Weights, AddSigner(a, b, w)
          PROVE  (owners = Listed(Signers) /\ threshold = currentThreshold)'
      BY <2>1, <3>1 DEF AddSigner, Listed
    <3>2. ASSUME NEW a \in Address, NEW b \in Address, RemoveSigner(a, b)
          PROVE  (owners = Listed(Signers) /\ threshold = currentThreshold)'
      BY <2>1, <3>2 DEF RemoveSigner, Listed
    <3>3. ASSUME NEW a \in Address, NEW b \in Address, NEW w \in Weights,
                 UpdateSignerWeight(a, b, w)
          PROVE  (owners = Listed(Signers) /\ threshold = currentThreshold)'
      <4>1. Signers' = Signers
        BY <3>3, InputAssumption DEF UpdateSignerWeight, Signers, TypeOK
      <4> QED
        BY <2>1, <3>3, <4>1 DEF UpdateSignerWeight, legacyVars, Listed
    <3>4. ASSUME NEW n, SetThreshold(n)
          PROVE  (owners = Listed(Signers) /\ threshold = currentThreshold)'
      BY <2>1, <3>4 DEF SetThreshold, Listed, Signers
    <3> QED
      BY <2>3, <3>1, <3>2, <3>3, <3>4 DEF Configuration, ChangeThreshold, ChangeThresholdLevel
  <2>4. CASE Recovery
    <3>1. UNCHANGED legacyVars
      BY <2>4 DEF Recovery, InitiateRecovery, UpdateRecoveryKey, CancelRecovery, Heartbeat,
         CancelTimeLockRecovery, ExecuteRecovery
    <3> QED
      BY <2>2, <2>4, <3>1, RecoveryFrame
  <2>5. CASE CloseLedger \/ UNCHANGED vars
    BY <2>2, <2>5 DEF CloseLedger, vars
  <2> QED
    BY <2>2, <2>3, <2>4, <2>5, TransactionsFrame, FreezingFrame DEF Next
<1> QED
  BY <1>1, <1>2, Typing, PTL DEF Spec

(***************************************************************************)
(* Freeze                                                                  *)
(***************************************************************************)
(* The three things a step can do to the freeze.                            *)
LEMMA FreezeMoves ==
    ASSUME TypeOK, [Next]_vars
    PROVE  \/ UNCHANGED freezeVars /\ now' \in {now, now + 1}
           \/ Unfreeze /\ now' = now
           \/ \E d \in MIN_FREEZE_DURATION..MAX_FREEZE_DURATION :
                 frozen' = TRUE /\ freezeUntil' = now + d /\ now' = now
<1> DEFINE Moves == \/ UNCHANGED freezeVars /\ now' \in {now, now + 1}
                    \/ Unfreeze /\ now' = now
                    \/ \E d \in MIN_FREEZE_DURATION..MAX_FREEZE_DURATION :
                          frozen' = TRUE /\ freezeUntil' = now + d /\ now' = now
<1> SUFFICES Moves
  OBVIOUS
<1>1. ASSUME PassFreezeCheck, now' = now
      PROVE  Moves
  BY <1>1 DEF PassFreezeCheck, Unfreeze, freezeVars, TypeOK
<1>2. CASE Transactions \/ Configuration \/ Recovery
  BY <1>1, <1>2, TransactionsFrame, ConfigurationFrame, RecoveryFrame
<1>3. CASE Freezing
  <2>1. ASSUME NEW a \in Address, NEW d \in FreezeDurations, FreezeWallet(a, d)
        PROVE  Moves
    BY <2>1 DEF FreezeWallet, ValidDuration
  <2>2. ASSUME NEW a \in Address, UnfreezeWallet(a)
        PROVE  Moves
    BY <2>2 DEF UnfreezeWallet, Unfreeze
  <2>3. CASE GetFreezeStatus
    BY <2>3 DEF GetFreezeStatus, Unfreeze
  <2> QED
    BY <1>3, <2>1, <2>2, <2>3 DEF Freezing
<1>4. CASE CloseLedger
  BY <1>4 DEF CloseLedger
<1>5. CASE UNCHANGED vars
  BY <1>5 DEF vars
<1> QED
  BY <1>2, <1>3, <1>4, <1>5 DEF Next

(* However often it is extended, a freeze ends within MAX_FREEZE_DURATION.   *)
THEOREM FreezeIsBounded == Spec => []FreezeBounded
<1>1. Init => FreezeBounded
  BY DEF Init, FreezeBounded
<1>2. TypeOK /\ FreezeBounded /\ [Next]_vars => FreezeBounded'
  <2> SUFFICES ASSUME TypeOK, FreezeBounded, [Next]_vars PROVE FreezeBounded'
    OBVIOUS
  <2>0. /\ MAX_FREEZE_DURATION \in Nat /\ MIN_FREEZE_DURATION \in Nat
        /\ now \in Nat /\ freezeUntil \in Nat /\ frozen \in BOOLEAN
    BY NumberAssumption DEF TypeOK
  <2>1. CASE UNCHANGED freezeVars /\ now' \in {now, now + 1}
    <3>1. frozen' = frozen /\ freezeUntil' = freezeUntil
      BY <2>1 DEF freezeVars
    <3>2. now' = now \/ now' = now + 1
      BY <2>1
    <3> QED
      BY <2>0, <3>1, <3>2 DEF FreezeBounded
  <2>2. CASE Unfreeze
    BY <2>2 DEF Unfreeze, FreezeBounded
  <2>3. CASE \E d \in MIN_FREEZE_DURATION..MAX_FREEZE_DURATION :
                frozen' = TRUE /\ freezeUntil' = now + d /\ now' = now
    BY <2>0, <2>3 DEF FreezeBounded
  <2> QED
    BY <2>1, <2>2, <2>3, FreezeMoves
<1> QED
  BY <1>1, <1>2, Typing, PTL DEF Spec

(* While the wallet is frozen the signers can change nothing, and only what  *)
(* had its quorum before is paid.                                            *)
THEOREM FrozenMeansStopped == Spec => FreezeHolds
<1> DEFINE Held == /\ UNCHANGED configVars
                   /\ Len(tx') = Len(tx)
                   /\ \A id \in DOMAIN tx :
                         /\ tx'[id].signed = tx[id].signed
                         /\ IsPaid(id)' /\ ~IsPaid(id) => Quorate(tx[id])
<1>1. TypeOK /\ [Next]_vars => [FrozenNow => Held]_vars
  <2> SUFFICES ASSUME TypeOK, Next, FrozenNow
               PROVE  Held
    BY DEF TypeOK
  <2>1. ~PassFreezeCheck
    BY DEF FrozenNow, PassFreezeCheck, TypeOK
  <2>2. ASSUME UNCHANGED <<configVars, tx>>
        PROVE  Held
    BY <2>2 DEF IsPaid
  <2>3. CASE Transactions
    <3>1. ASSUME NEW id \in DOMAIN tx, ExecuteTransaction(id)
          PROVE  Held
      <4>1. id \in 1..Len(tx) /\ tx \in Seq(Transaction)
        BY LenProperties DEF TypeOK
      <4>2. tx[id] \in Transaction
        BY <4>1, ElementOfSeq
      <4> DEFINE u == [tx[id] EXCEPT !.executed = TRUE, !.executedAt = now]
      <4>3. u \in Transaction /\ u.signed = tx[id].signed
        BY <4>2 DEF Transaction, TypeOK
      <4>4. tx' = [tx EXCEPT ![id] = u]
        BY <3>1, <4>1, <4>2, LenProperties DEF ExecuteTransaction, Execute, Transaction
      <4> HIDE DEF u
      <4>5. /\ Len(tx') = Len(tx)
            /\ \A j \in 1..Len(tx) : tx'[j] = IF j = id THEN u ELSE tx[j]
        BY <4>1, <4>3, <4>4, ExceptSeq
      <4>6. Quorate(tx[id])
        BY <3>1 DEF ExecuteTransaction, Execute
      <4>7. UNCHANGED configVars
        BY <3>1 DEF ExecuteTransaction
      <4> QED
        BY <4>1, <4>3, <4>5, <4>6, <4>7, LenProperties DEF IsPaid
    <3>2. ASSUME NEW k \in Token, NEW n \in Deposits, Deposit(k, n)
          PROVE  Held
      BY <2>2, <3>2 DEF Deposit
    <3> QED
      BY <2>1, <2>3, <3>1, <3>2 DEF Transactions, SubmitTransaction, SignTransaction
  <2>4. CASE Configuration
    BY <2>1, <2>4, ConfigurationFrame
  <2>5. CASE Freezing \/ Recovery \/ CloseLedger
    BY <2>2, <2>5, FreezingFrame, RecoveryFrame DEF CloseLedger, fundVars
  <2> QED
    BY <2>3, <2>4, <2>5 DEF Next
<1> QED
  BY <1>1, Typing, PTL DEF Spec, FreezeHolds

(***************************************************************************)
(* Recovery                                                                *)
(***************************************************************************)
(* Short of a replacement of the owners as a whole, the recovery address     *)
(* changes only to that of a request a signer had the whole delay to cancel. *)
THEOREM RecoveryIsDelayed == Spec => RecoveryWaits
<1> DEFINE Waits == \/ ReplacesOwners(TRUE) \/ ReplacesOwners(FALSE)
                    \/ /\ request # NoRequest
                       /\ recoveryAddress' = request.newAddress
                       /\ now - request.initiatedAt >= RecoveryDelay
<1>1. TypeOK /\ [Next]_vars => [recoveryAddress' # recoveryAddress => Waits]_vars
  <2> SUFFICES ASSUME TypeOK, Next, recoveryAddress' # recoveryAddress
               PROVE  Waits
    OBVIOUS
  <2>1. Recovery
    BY TransactionsFrame, ConfigurationFrame, FreezingFrame DEF Next, CloseLedger, recoveryVars
  <2>2. CASE ExecuteRecovery
    <3>1. request \in RecoveryRequest
      BY <2>2 DEF ExecuteRecovery, DelayPassed, TypeOK
    <3>2. now \in Nat /\ request.initiatedAt \in Nat /\ RecoveryDelay \in Nat
      BY <3>1, NumberAssumption DEF RecoveryRequest, TypeOK
    <3>3. /\ request # NoRequest
          /\ recoveryAddress' = request.newAddress
          /\ now >= request.initiatedAt + RecoveryDelay
      BY <2>2 DEF ExecuteRecovery, DelayPassed
    <3>4. now - request.initiatedAt >= RecoveryDelay
      BY <3>2, <3>3
    <3> QED
      BY <3>3, <3>4
  <2>3. CASE \E a \in Address, list \in OwnerLists, n \in Thresholds, new \in RecoveryChoices :
                \/ EmergencyRecovery(a, list, n, new)
                \/ \E path \in RecoveryChoices : TimeLockRecovery(a, list, n, new, path)
    BY <2>3 DEF ReplacesOwners
  <2> QED
    BY <2>1, <2>2, <2>3 DEF Recovery, InitiateRecovery, UpdateRecoveryKey, CancelRecovery,
       Heartbeat, CancelTimeLockRecovery, recoveryVars
<1> QED
  BY <1>1, Typing, PTL DEF Spec, RecoveryWaits

(* Every payment was a heartbeat, and the heartbeat only moves forward.      *)
PaidBeforeHeartbeat ==
    \A id \in DOMAIN tx : tx[id].executed => tx[id].executedAt <= lastHeartbeat

LEMMA ExecuteBeats ==
    ASSUME TypeOK, NEW list \in Seq(Transaction), NEW id \in DOMAIN list,
           \A k \in DOMAIN list : list[k].executed => list[k].executedAt <= lastHeartbeat,
           Execute(list, id)
    PROVE  PaidBeforeHeartbeat'
<1>1. list[id] \in Transaction
  BY LenProperties, ElementOfSeq
<1>2. /\ DOMAIN tx' = DOMAIN list
      /\ \A k \in DOMAIN list :
            tx'[k] = IF k = id THEN [list[id] EXCEPT !.executed = TRUE, !.executedAt = now]
                              ELSE list[k]
      /\ lastHeartbeat' = now
  BY ExecuteTyped
<1> SUFFICES ASSUME NEW k \in DOMAIN list, tx'[k].executed
             PROVE  tx'[k].executedAt <= now
  BY <1>2 DEF PaidBeforeHeartbeat
<1>3. CASE k = id
  <2>1. tx'[k].executedAt = now
    BY <1>1, <1>2, <1>3 DEF Transaction
  <2> QED
    BY <2>1 DEF TypeOK
<1>4. CASE k # id
  <2>1. list[k] \in Transaction
    BY LenProperties, ElementOfSeq
  <2>2. tx'[k] = list[k] /\ list[k].executedAt <= lastHeartbeat
    BY <1>2, <1>4
  <2>3. list[k].executedAt \in Nat /\ lastHeartbeat \in 0..now /\ now \in Nat
    BY <2>1 DEF Transaction, TypeOK
  <2> QED
    BY <2>2, <2>3
<1> QED
  BY <1>3, <1>4

LEMMA SignBeats ==
    ASSUME TypeOK, NEW list \in Seq(Transaction), NEW id \in DOMAIN list, NEW a \in Address,
           \A k \in DOMAIN list : list[k].executed => list[k].executedAt <= lastHeartbeat,
           Sign(list, id, a)
    PROVE  PaidBeforeHeartbeat'
<1> DEFINE signed == [list[id] EXCEPT !.signed = @ \cup {a}]
           after == [list EXCEPT ![id] = signed]
<1>1. list[id] \in Transaction /\ id \in 1..Len(list)
  BY LenProperties, ElementOfSeq
<1>2. signed \in Transaction
  BY <1>1 DEF Transaction
<1>3. signed.executed = list[id].executed /\ signed.executedAt = list[id].executedAt
  BY <1>1 DEF Transaction
<1>4. \/ Execute(after, id)
      \/ tx' = after /\ UNCHANGED <<balance, activityVars>>
  BY DEF Sign
<1> HIDE DEF signed
<1>5. /\ after \in Seq(Transaction)
      /\ DOMAIN after = DOMAIN list
      /\ \A k \in DOMAIN list : after[k] = IF k = id THEN signed ELSE list[k]
  BY <1>1, <1>2, ExceptSeq, LenProperties
<1>6. \A k \in DOMAIN after : after[k].executed => after[k].executedAt <= lastHeartbeat
  BY <1>3, <1>5
<1> HIDE DEF after
<1>7. CASE Execute(after, id)
  BY <1>5, <1>6, <1>7, ExecuteBeats
<1>8. CASE tx' = after /\ UNCHANGED <<balance, activityVars>>
  BY <1>6, <1>8 DEF PaidBeforeHeartbeat, activityVars
<1> QED
  BY <1>4, <1>7, <1>8

LEMMA HeartbeatInv == TypeOK /\ PaidBeforeHeartbeat /\ [Next]_vars => PaidBeforeHeartbeat'
<1> SUFFICES ASSUME TypeOK, PaidBeforeHeartbeat, [Next]_vars PROVE PaidBeforeHeartbeat'
  OBVIOUS
<1>1. ASSUME UNCHANGED tx, lastHeartbeat' \in {lastHeartbeat, now}
      PROVE  PaidBeforeHeartbeat'
  <2> SUFFICES ASSUME NEW id \in DOMAIN tx, tx[id].executed
               PROVE  tx[id].executedAt <= lastHeartbeat'
    BY <1>1 DEF PaidBeforeHeartbeat
  <2>1. tx[id] \in Transaction
    BY LenProperties, ElementOfSeq DEF TypeOK
  <2>2. tx[id].executedAt \in Nat /\ lastHeartbeat \in 0..now /\ now \in Nat
    BY <2>1 DEF Transaction, TypeOK
  <2>3. tx[id].executedAt <= lastHeartbeat
    BY DEF PaidBeforeHeartbeat
  <2> QED
    BY <1>1, <2>2, <2>3
<1>2. CASE Transactions
  <2>1. ASSUME NEW a \in Address, NEW d \in Destinations, NEW m \in Amounts,
               NEW l \in Lifetimes, SubmitTransaction(a, d, m, l)
        PROVE  PaidBeforeHeartbeat'
    <3> DEFINE t == [destination |-> d, amount |-> m, expires |-> now + l,
                     executed |-> FALSE, signed |-> {}, executedAt |-> 0]
               list == Append(tx, t)
    <3>1. t \in Transaction /\ ~t.executed
      BY InputAssumption DEF Transaction, TypeOK
    <3>2. Sign(list, Len(tx) + 1, a)
      BY <2>1 DEF SubmitTransaction
    <3> HIDE DEF t
    <3>3. list \in Seq(Transaction) /\ Len(tx) + 1 \in DOMAIN list
      BY <3>1, AppendProperties, LenProperties DEF TypeOK
    <3>4. \A k \in DOMAIN list : list[k].executed => list[k].executedAt <= lastHeartbeat
      <4>1. DOMAIN list = 1..(Len(tx) + 1) /\ DOMAIN tx = 1..Len(tx) /\ Len(tx) \in Nat
        BY <3>1, <3>3, AppendProperties, LenProperties DEF TypeOK
      <4>2. /\ list[Len(tx) + 1] = t
            /\ \A k \in 1..Len(tx) : list[k] = tx[k]
        BY <3>1, AppendProperties DEF TypeOK
      <4> QED
        BY <3>1, <4>1, <4>2 DEF PaidBeforeHeartbeat
    <3> HIDE DEF list
    <3> QED
      BY <3>2, <3>3, <3>4, SignBeats
  <2>2. ASSUME NEW a \in Address, NEW id \in DOMAIN tx, SignTransaction(a, id)
        PROVE  PaidBeforeHeartbeat'
    BY <2>2, SignBeats DEF SignTransaction, TypeOK, PaidBeforeHeartbeat
  <2>3. ASSUME NEW id \in DOMAIN tx, ExecuteTransaction(id)
        PROVE  PaidBeforeHeartbeat'
    BY <2>3, ExecuteBeats DEF ExecuteTransaction, TypeOK, PaidBeforeHeartbeat
  <2>4. ASSUME NEW k \in Token, NEW n \in Deposits, Deposit(k, n)
        PROVE  PaidBeforeHeartbeat'
    BY <1>1, <2>4 DEF Deposit, activityVars
  <2> QED
    BY <1>2, <2>1, <2>2, <2>3, <2>4 DEF Transactions
<1>3. CASE Configuration \/ Freezing \/ CloseLedger \/ UNCHANGED vars
  BY <1>1, <1>3, ConfigurationFrame, FreezingFrame DEF CloseLedger, vars, fundVars, activityVars
<1>4. CASE Recovery
  <2>1. UNCHANGED tx
    BY <1>4, RecoveryFrame DEF fundVars
  <2>2. lastHeartbeat' \in {lastHeartbeat, now}
    BY <1>4 DEF Recovery, InitiateRecovery, UpdateRecoveryKey, CancelRecovery, Heartbeat,
       CancelTimeLockRecovery, EmergencyRecovery, TimeLockRecovery, ExecuteRecovery, activityVars
  <2> QED
    BY <1>1, <2>1, <2>2
<1> QED
  BY <1>2, <1>3, <1>4 DEF Next

(* time_lock_recovery never succeeds within RECOVERY_PERIOD of a payment.    *)
THEOREM SilenceBeforeTimeLock == Spec => TimeLockNeedsSilence
<1> DEFINE Silent == \A id \in DOMAIN tx : IsPaid(id) => now - tx[id].executedAt >= RECOVERY_PERIOD
<1>1. Init => PaidBeforeHeartbeat
  BY DEF Init, PaidBeforeHeartbeat
<1>2. TypeOK /\ PaidBeforeHeartbeat /\ [Next]_vars => [ReplacesOwners(TRUE) => Silent]_vars
  <2> SUFFICES ASSUME TypeOK, PaidBeforeHeartbeat, ReplacesOwners(TRUE),
                      NEW id \in DOMAIN tx, IsPaid(id)
               PROVE  now - tx[id].executedAt >= RECOVERY_PERIOD
    OBVIOUS
  <2>1. now - lastHeartbeat >= RECOVERY_PERIOD
    BY DEF ReplacesOwners, TimeLockRecovery
  <2>2. tx[id].executedAt <= lastHeartbeat
    BY DEF PaidBeforeHeartbeat, IsPaid
  <2>3. tx[id] \in Transaction
    BY LenProperties, ElementOfSeq DEF TypeOK
  <2>4. /\ tx[id].executedAt \in Nat /\ RECOVERY_PERIOD \in Nat
        /\ lastHeartbeat \in 0..now /\ now \in Nat
    BY <2>3, NumberAssumption DEF Transaction, TypeOK
  <2> QED
    BY <2>1, <2>2, <2>4
<1> QED
  BY <1>1, <1>2, HeartbeatInv, Typing, PTL DEF Spec, TimeLockNeedsSilence

(***************************************************************************)
(* The wallet implements the vault                                         *)
(***************************************************************************)
(* A list of transactions as the vault sees it: what was asked for and which *)
(* of it is settled.                                                         *)
Filings(list) == [id \in DOMAIN list |->
                    [asset |-> list[id].destination, amount |-> list[id].amount]]
Settled(list) == {id \in DOMAIN list : list[id].executed}

(* A payment of the wallet is a payment of the vault.                        *)
LEMMA PayRefines ==
    ASSUME TypeOK, NEW list \in Seq(Transaction), NEW id \in DOMAIN list,
           Execute(list, id)
    PROVE  /\ Filings(tx)' = Filings(list)
           /\ id \notin Settled(list)
           /\ Settled(tx)' = Settled(list) \cup {id}
           /\ Vlt!Pay(Filings(list)[id])
<1> DEFINE t == list[id]
           u == [t EXCEPT !.executed = TRUE, !.executedAt = now]
<1>1. t \in Transaction
  BY LenProperties, ElementOfSeq
<1>2. /\ u.destination = t.destination
      /\ u.amount = t.amount
      /\ u.executed
  BY <1>1 DEF Transaction
<1>3. /\ DOMAIN tx' = DOMAIN list
      /\ \A k \in DOMAIN list : tx'[k] = IF k = id THEN u ELSE list[k]
  BY ExecuteTyped
<1> HIDE DEF u
<1>4. Filings(tx)' = Filings(list)
  BY <1>2, <1>3 DEF Filings
<1>5. Settled(tx)' = Settled(list) \cup {id}
  BY <1>2, <1>3 DEF Settled
<1>6. id \notin Settled(list)
  BY DEF Settled, Execute
<1>7. Vlt!Pay(Filings(list)[id])
  <2>1. Filings(list)[id].asset = t.destination /\ Filings(list)[id].amount = t.amount
    BY DEF Filings
  <2>2. CanPay(t) /\ balance' = BalanceAfter(t)
    BY DEF Execute
  <2> HIDE DEF t
  <2> QED
    BY <2>1, <2>2 DEF Vlt!Pay, Vlt!Moves, CanPay, BalanceAfter
<1> QED
  BY <1>4, <1>5, <1>6, <1>7

(* A signature settles a filed transaction or leaves the vault alone.        *)
LEMMA SignRefines ==
    ASSUME TypeOK, NEW list \in Seq(Transaction), NEW id \in DOMAIN list, NEW a \in Address,
           Sign(list, id, a)
    PROVE  /\ Filings(tx)' = Filings(list)
           /\ id \notin Settled(list)
           /\ \/ Settled(tx)' = Settled(list) \cup {id} /\ Vlt!Pay(Filings(list)[id])
              \/ Settled(tx)' = Settled(list) /\ UNCHANGED balance
<1> DEFINE signed == [list[id] EXCEPT !.signed = @ \cup {a}]
           after == [list EXCEPT ![id] = signed]
<1>1. list[id] \in Transaction /\ id \in 1..Len(list)
  BY LenProperties, ElementOfSeq
<1>2. signed \in Transaction
  BY <1>1 DEF Transaction
<1>3. /\ signed.destination = list[id].destination
      /\ signed.amount = list[id].amount
      /\ signed.executed = list[id].executed
  BY <1>1 DEF Transaction
<1>4. \/ Execute(after, id)
      \/ tx' = after /\ UNCHANGED <<balance, activityVars>>
  BY DEF Sign
<1>5. ~list[id].executed
  BY DEF Sign
<1> HIDE DEF signed
<1>6. /\ after \in Seq(Transaction)
      /\ DOMAIN after = DOMAIN list
      /\ \A k \in DOMAIN list : after[k] = IF k = id THEN signed ELSE list[k]
  BY <1>1, <1>2, ExceptSeq, LenProperties
<1> HIDE DEF after
<1>7. Filings(after) = Filings(list) /\ Settled(after) = Settled(list)
  BY <1>3, <1>6 DEF Filings, Settled
<1>8. CASE Execute(after, id)
  BY <1>6, <1>7, <1>8, PayRefines
<1>9. CASE tx' = after /\ UNCHANGED <<balance, activityVars>>
  BY <1>5, <1>7, <1>9 DEF Filings, Settled
<1> QED
  BY <1>4, <1>8, <1>9

LEMMA SubmitRefines ==
    ASSUME TypeOK, NEW a \in Address, NEW d \in Destinations, NEW m \in Amounts,
           NEW l \in Lifetimes, SubmitTransaction(a, d, m, l), balance' \in [Token -> Nat]
    PROVE  Vlt!VaultNext
<1> DEFINE t == [destination |-> d, amount |-> m, expires |-> now + l,
                 executed |-> FALSE, signed |-> {}, executedAt |-> 0]
           r == [asset |-> d, amount |-> m]
           list == Append(tx, t)
<1>0. PICK id : id = Len(tx) + 1
  OBVIOUS
<1>1. t \in Transaction
  BY InputAssumption DEF Transaction, TypeOK
<1>2. t.destination = d /\ t.amount = m /\ ~t.executed
  OBVIOUS
<1>3. Sign(list, id, a)
  BY <1>0 DEF SubmitTransaction
<1> HIDE DEF t
<1>4. /\ list \in Seq(Transaction)
      /\ DOMAIN list = DOMAIN tx \cup {id}
      /\ id \notin DOMAIN tx
      /\ list[id] = t
      /\ \A k \in DOMAIN tx : list[k] = tx[k]
  <2>1. /\ DOMAIN tx = 1..Len(tx)
        /\ Len(tx) \in Nat
    BY LenProperties DEF TypeOK
  <2>2. /\ list \in Seq(Transaction)
        /\ Len(list) = Len(tx) + 1
        /\ \A k \in 1..Len(tx) : list[k] = tx[k]
        /\ list[id] = t
    BY <1>0, <1>1, AppendProperties DEF TypeOK
  <2>3. DOMAIN list = 1..(Len(tx) + 1)
    BY <2>2, LenProperties
  <2> QED
    BY <1>0, <2>1, <2>2, <2>3
<1> HIDE DEF list
<1>5. /\ Filings(list) = [k \in DOMAIN Filings(tx) \cup {id} |->
                            IF k = id THEN r ELSE Filings(tx)[k]]
      /\ Filings(list)[id] = r
      /\ Settled(list) = Settled(tx)
      /\ DOMAIN Filings(tx) = DOMAIN tx
      /\ id \in DOMAIN Filings(list)
  BY <1>2, <1>4 DEF Filings, Settled
<1>6. /\ Filings(tx)' = Filings(list)
      /\ \/ Settled(tx)' = Settled(list) \cup {id} /\ Vlt!Pay(Filings(list)[id])
         \/ Settled(tx)' = Settled(list) /\ UNCHANGED balance
  BY <1>3, <1>4, SignRefines
<1>7. r \in [asset : Destinations, amount : Amounts]
  OBVIOUS
<1> HIDE DEF r
<1>8. Vlt!Filed(id, Filings(tx)'[id])
  BY <1>4, <1>5, <1>6, <1>7 DEF Vlt!Filed, Filings
<1>9. Vlt!File(id) \/ Vlt!FileAndSettle(id)
  BY <1>5, <1>6, <1>8 DEF Vlt!File, Vlt!FileAndSettle, Filings, Settled
<1>10. id \in DOMAIN Filings(tx)'
  BY <1>5, <1>6
<1> QED
  BY <1>9, <1>10 DEF Vlt!VaultNext, Filings

(* Every step of the core is a step of the vault, or leaves it alone.        *)
LEMMA StepRefines ==
    TypeOK /\ TypeOK' /\ [Next]_vars => [Vlt!VaultNext]_(Vlt!vaultVars)
<1> SUFFICES ASSUME TypeOK, TypeOK', [Next]_vars
             PROVE  Vlt!VaultNext \/ UNCHANGED Vlt!vaultVars
  OBVIOUS
<1>1. ASSUME UNCHANGED fundVars
      PROVE  UNCHANGED Vlt!vaultVars
  BY <1>1 DEF fundVars, Vlt!vaultVars
<1>2. tx \in Seq(Transaction) /\ balance' \in [Token -> Nat]
  BY DEF TypeOK
<1>3. CASE Transactions
  <2>1. ASSUME NEW a \in Address, NEW d \in Destinations, NEW m \in Amounts,
               NEW l \in Lifetimes, SubmitTransaction(a, d, m, l)
        PROVE  Vlt!VaultNext
    BY <1>2, <2>1, SubmitRefines
  <2>2. ASSUME NEW id \in DOMAIN tx,
               Filings(tx)' = Filings(tx), id \notin Settled(tx),
               Settled(tx)' = Settled(tx) \cup {id}, Vlt!Pay(Filings(tx)[id])
        PROVE  Vlt!VaultNext
    <3>1. Vlt!Settle(id)
      BY <2>2 DEF Vlt!Settle, Filings, Settled
    <3>2. id \in DOMAIN Filings(tx)'
      BY <2>2 DEF Filings
    <3> QED
      BY <3>1, <3>2 DEF Vlt!VaultNext, Filings
  <2>3. ASSUME NEW a \in Address, NEW id \in DOMAIN tx, SignTransaction(a, id)
        PROVE  Vlt!VaultNext \/ UNCHANGED Vlt!vaultVars
    <3>1. Sign(tx, id, a)
      BY <2>3 DEF SignTransaction
    <3>2. /\ Filings(tx)' = Filings(tx)
          /\ id \notin Settled(tx)
          /\ \/ Settled(tx)' = Settled(tx) \cup {id} /\ Vlt!Pay(Filings(tx)[id])
             \/ Settled(tx)' = Settled(tx) /\ UNCHANGED balance
      BY <1>2, <3>1, SignRefines
    <3>3. CASE Settled(tx)' = Settled(tx) /\ UNCHANGED balance
      BY <3>2, <3>3 DEF Vlt!vaultVars, Filings, Settled
    <3> QED
      BY <2>2, <3>2, <3>3
  <2>4. ASSUME NEW id \in DOMAIN tx, ExecuteTransaction(id)
        PROVE  Vlt!VaultNext
    BY <1>2, <2>2, <2>4, PayRefines DEF ExecuteTransaction
  <2>5. ASSUME NEW k \in Token, NEW n \in Deposits, Deposit(k, n)
        PROVE  Vlt!VaultNext
    <3>1. UNCHANGED tx
      BY <2>5 DEF Deposit
    <3>2. balance' \in [Token -> Nat] /\ \A j \in Token : balance'[j] >= balance[j]
      <4>1. n \in Nat /\ balance \in [Token -> Nat]
        BY InputAssumption DEF TypeOK
      <4>2. balance' = [balance EXCEPT ![k] = @ + n]
        BY <2>5 DEF Deposit
      <4> QED
        BY <1>2, <4>1, <4>2
    <3>3. Vlt!Receive
      BY <3>1, <3>2 DEF Vlt!Receive
    <3> QED
      BY <3>3 DEF Vlt!VaultNext
  <2> QED
    BY <1>3, <2>1, <2>3, <2>4, <2>5 DEF Transactions
<1> QED
  BY <1>1, <1>3, ConfigurationFrame, FreezingFrame, RecoveryFrame
     DEF Next, CloseLedger, vars

(* Each transaction is paid at most once, its own amount from the token it   *)
(* names, and no other call of the wallet moves money out.                   *)
THEOREM SafeIsAVault == Spec => IsAVault
<1>1. Init => Vlt!VaultInit
  BY EmptySeq DEF Init, Vlt!VaultInit
<1> QED
  BY <1>1, StepRefines, Typing, PTL DEF Spec, IsAVault, Vlt!VaultSpec

(***************************************************************************)
(* The quorum                                                              *)
(***************************************************************************)
(* What the signatures s weigh under the weights w, before the sum wraps.   *)
Carried(w, s) == SumOver(w, s \cap {a \in Address : w[a] > 0})

LEMMA CarriedIsSigned ==
    /\ \A s : SignedWeight(s) = Carried(weight, s) % WeightWord
    /\ \A t : Quorate(t) <=> Carried(weight, t.signed) % WeightWord >= currentThreshold
  BY DEF Quorate, SignedWeight, Carried, SumOver, Signers

LEMMA CarriedThen ==
    ASSUME NEW id
    PROVE  Quorate(tx[id])' <=> Carried(weight', tx'[id].signed) % WeightWord >= currentThreshold'
  BY DEF Quorate, SignedWeight, Carried, SumOver, Signers, MapThenSumSet, MapThenFoldSet

(* A u32 sum that wrapped is smaller than the sum.                          *)
LEMMA QuorumIsCovered ==
    ASSUME TypeOK, NEW t \in Transaction, Quorate(t)
    PROVE  currentThreshold <= Carried(weight, t.signed)
<1>1. \A n \in Nat, w \in Nat \ {0} : n % w <= n
  OBVIOUS
<1> DEFINE s == t.signed \cap {a \in Address : weight[a] > 0}
<1>2. IsFiniteSet(s) /\ \A a \in s : weight[a] \in Nat
  BY InitAssumption, FS_Subset DEF TypeOK
<1>3. Carried(weight, t.signed) \in Nat
  BY <1>2, SumNat DEF Carried
<1>4. Carried(weight, t.signed) % WeightWord >= currentThreshold
  BY CarriedIsSigned
<1>5. currentThreshold \in Nat /\ WeightWord \in Nat \ {0}
  BY NumberAssumption DEF TypeOK
<1> HIDE DEF s
<1>6. \A n \in Nat, w \in Nat \ {0}, c \in Nat : n % w >= c => c <= n
  BY <1>1
<1> QED
  BY <1>3, <1>4, <1>5, <1>6

(* Nothing of the list but what had its quorum is paid.                     *)
PaysCovered(list) ==
    /\ DOMAIN tx' = DOMAIN list
    /\ \A id \in DOMAIN list :
          tx'[id].executed /\ ~list[id].executed =>
              currentThreshold <= Carried(weight, tx'[id].signed)

LEMMA ExecuteCovered ==
    ASSUME TypeOK, NEW list \in Seq(Transaction), NEW id \in DOMAIN list,
           Execute(list, id)
    PROVE  PaysCovered(list)
<1>1. list[id] \in Transaction
  BY LenProperties, ElementOfSeq
<1>2. /\ DOMAIN tx' = DOMAIN list
      /\ \A k \in DOMAIN list :
            tx'[k] = IF k = id THEN [list[id] EXCEPT !.executed = TRUE, !.executedAt = now]
                              ELSE list[k]
  BY ExecuteTyped
<1>3. tx'[id].signed = list[id].signed
  BY <1>1, <1>2 DEF Transaction
<1>4. currentThreshold <= Carried(weight, list[id].signed)
  BY <1>1, QuorumIsCovered DEF Execute
<1>5. \A k \in DOMAIN list : k # id => tx'[k] = list[k]
  BY <1>2
<1> QED
  BY <1>2, <1>3, <1>4, <1>5 DEF PaysCovered

LEMMA SignCovered ==
    ASSUME TypeOK, NEW list \in Seq(Transaction), NEW id \in DOMAIN list, NEW a \in Address,
           Sign(list, id, a)
    PROVE  PaysCovered(list)
<1> DEFINE signed == [list[id] EXCEPT !.signed = @ \cup {a}]
           after == [list EXCEPT ![id] = signed]
<1>1. list[id] \in Transaction /\ id \in 1..Len(list)
  BY LenProperties, ElementOfSeq
<1>2. signed \in Transaction
  BY <1>1 DEF Transaction
<1>3. signed.executed = list[id].executed
  BY <1>1 DEF Transaction
<1>4. \/ Execute(after, id)
      \/ tx' = after /\ UNCHANGED <<balance, activityVars>>
  BY DEF Sign
<1> HIDE DEF signed
<1>5. /\ after \in Seq(Transaction)
      /\ DOMAIN after = DOMAIN list
      /\ \A k \in DOMAIN list : after[k] = IF k = id THEN signed ELSE list[k]
  BY <1>1, <1>2, ExceptSeq, LenProperties
<1>6. \A k \in DOMAIN list : after[k].executed = list[k].executed
  BY <1>3, <1>5
<1> HIDE DEF after
<1>7. CASE Execute(after, id)
  <2>1. PaysCovered(after)
    BY <1>5, <1>7, ExecuteCovered
  <2> QED
    BY <1>5, <1>6, <2>1 DEF PaysCovered
<1>8. CASE tx' = after /\ UNCHANGED <<balance, activityVars>>
  BY <1>5, <1>6, <1>8 DEF PaysCovered
<1> QED
  BY <1>4, <1>7, <1>8

(* Whatever was signed and whoever was removed, added again or reweighted,   *)
(* a transaction is paid only on the unwrapped weight of today's signers.    *)
THEOREM QuorumPays == Spec => PaidWithQuorum
<1> DEFINE Covered == \A id \in DOMAIN tx' :
                          IsPaid(id)' /\ ~IsPaid(id) =>
                              currentThreshold <= MapThenSumSet(LAMBDA a : weight[a],
                                                                tx'[id].signed \cap Signers)
           Paid == \A id \in DOMAIN tx' :
                       IsPaid(id)' /\ ~IsPaid(id) =>
                           currentThreshold <= Carried(weight, tx'[id].signed)
<1>1. Paid => Covered
  BY DEF Carried, SumOver, Signers
<1>2. ASSUME TypeOK, [Next]_vars
      PROVE  Paid
  <2>1. ASSUME UNCHANGED tx
        PROVE  Paid
    BY <2>1 DEF IsPaid
  <2>2. ASSUME PaysCovered(tx)
        PROVE  Paid
    BY <2>2 DEF PaysCovered, IsPaid
  <2>3. ASSUME NEW a \in Address, NEW d \in Destinations, NEW m \in Amounts,
               NEW l \in Lifetimes, SubmitTransaction(a, d, m, l)
        PROVE  Paid
    <3> DEFINE t == [destination |-> d, amount |-> m, expires |-> now + l,
                     executed |-> FALSE, signed |-> {}, executedAt |-> 0]
               list == Append(tx, t)
    <3>1. t \in Transaction /\ ~t.executed
      BY <1>2, InputAssumption DEF Transaction, TypeOK
    <3>2. Sign(list, Len(tx) + 1, a)
      BY <2>3 DEF SubmitTransaction
    <3> HIDE DEF t
    <3>3. list \in Seq(Transaction) /\ Len(tx) + 1 \in DOMAIN list
      BY <1>2, <3>1, AppendProperties, LenProperties DEF TypeOK
    <3>4. \A k \in DOMAIN list : list[k].executed => k \in DOMAIN tx /\ tx[k].executed
      <4>1. DOMAIN list = 1..(Len(tx) + 1) /\ DOMAIN tx = 1..Len(tx) /\ Len(tx) \in Nat
        BY <1>2, <3>1, <3>3, AppendProperties, LenProperties DEF TypeOK
      <4>2. /\ list[Len(tx) + 1] = t
            /\ \A k \in 1..Len(tx) : list[k] = tx[k]
        BY <1>2, <3>1, AppendProperties DEF TypeOK
      <4> QED
        BY <3>1, <4>1, <4>2
    <3> HIDE DEF list
    <3>5. PaysCovered(list)
      BY <1>2, <3>2, <3>3, SignCovered
    <3> QED
      BY <3>4, <3>5 DEF PaysCovered, IsPaid
  <2>4. ASSUME NEW a \in Address, NEW id \in DOMAIN tx, SignTransaction(a, id)
        PROVE  Paid
    BY <1>2, <2>2, <2>4, SignCovered DEF SignTransaction, TypeOK
  <2>5. ASSUME NEW id \in DOMAIN tx, ExecuteTransaction(id)
        PROVE  Paid
    BY <1>2, <2>2, <2>5, ExecuteCovered DEF ExecuteTransaction, TypeOK
  <2>6. ASSUME NEW k \in Token, NEW n \in Deposits, Deposit(k, n)
        PROVE  Paid
    BY <2>1, <2>6 DEF Deposit
  <2>7. CASE Configuration \/ Freezing \/ Recovery \/ CloseLedger \/ UNCHANGED vars
    BY <2>1, <2>7, ConfigurationFrame, FreezingFrame, RecoveryFrame DEF CloseLedger, vars, fundVars
  <2> QED
    BY <1>2, <2>3, <2>4, <2>5, <2>6, <2>7 DEF Next, Transactions
<1>3. TypeOK /\ [Next]_vars => [Covered]_vars
  <2> HIDE DEF Paid, Covered
  <2> QED
    BY <1>1, <1>2
<1> QED
  BY <1>3, Typing, PTL DEF Spec, PaidWithQuorum

(* A signature leaves its transaction short of the quorum, or paid.         *)
LEMMA SignSettles ==
    ASSUME TypeOK, NEW list \in Seq(Transaction), NEW id \in DOMAIN list, NEW a \in Address,
           Sign(list, id, a)
    PROVE  /\ DOMAIN tx' = DOMAIN list
           /\ tx'[id].executed \/ ~Quorate(tx'[id])
           /\ \A k \in DOMAIN list : k # id => tx'[k] = list[k]
<1> DEFINE signed == [list[id] EXCEPT !.signed = @ \cup {a}]
           after == [list EXCEPT ![id] = signed]
<1>1. list[id] \in Transaction /\ id \in 1..Len(list)
  BY LenProperties, ElementOfSeq
<1>2. signed \in Transaction
  BY <1>1 DEF Transaction
<1>3. \/ Execute(after, id)
      \/ ~Quorate(signed) /\ tx' = after
  BY DEF Sign
<1> HIDE DEF signed
<1>4. /\ after \in Seq(Transaction)
      /\ DOMAIN after = DOMAIN list
      /\ \A k \in DOMAIN list : after[k] = IF k = id THEN signed ELSE list[k]
  BY <1>1, <1>2, ExceptSeq, LenProperties
<1> HIDE DEF after
<1>5. CASE Execute(after, id)
  <2>1. /\ DOMAIN tx' = DOMAIN after
        /\ \A k \in DOMAIN after :
              tx'[k] = IF k = id THEN [after[id] EXCEPT !.executed = TRUE, !.executedAt = now]
                                ELSE after[k]
    BY <1>4, <1>5, ExecuteTyped
  <2>2. tx'[id].executed
    BY <1>2, <1>4, <2>1 DEF Transaction
  <2> QED
    BY <1>4, <2>1, <2>2
<1>6. CASE ~Quorate(signed) /\ tx' = after
  BY <1>4, <1>6
<1> QED
  BY <1>3, <1>5, <1>6

(* Only a change of the configuration leaves a transaction that has its      *)
(* quorum and is not executed.                                               *)
THEOREM SignaturesSettle == Spec => SigningSettles
<1> DEFINE Settles == UNCHANGED configVars =>
                         \A id \in DOMAIN tx' :
                             Quorate(tx[id])' /\ ~IsPaid(id)' => id \in DOMAIN tx /\ Quorate(tx[id])
<1>1. ASSUME TypeOK, [Next]_vars, UNCHANGED configVars, NEW id \in DOMAIN tx',
             Quorate(tx[id])', ~IsPaid(id)'
      PROVE  id \in DOMAIN tx /\ Quorate(tx[id])
  <2>1. Carried(weight, tx'[id].signed) % WeightWord >= currentThreshold
    <3>1. Quorate(tx[id])' <=> Carried(weight', tx'[id].signed) % WeightWord >= currentThreshold'
      BY CarriedThen
    <3> QED
      BY <1>1, <3>1 DEF configVars
  <2>2. Quorate(tx'[id]) /\ ~tx'[id].executed
    BY <1>1, <2>1, CarriedIsSigned DEF IsPaid
  <2>3. CASE UNCHANGED tx
    BY <2>2, <2>3
  <2>4. ASSUME NEW a \in Address, NEW d \in Destinations, NEW m \in Amounts,
               NEW l \in Lifetimes, SubmitTransaction(a, d, m, l)
        PROVE  id \in DOMAIN tx /\ Quorate(tx[id])
    <3> DEFINE t == [destination |-> d, amount |-> m, expires |-> now + l,
                     executed |-> FALSE, signed |-> {}, executedAt |-> 0]
               list == Append(tx, t)
    <3>1. t \in Transaction
      BY <1>1, InputAssumption DEF Transaction, TypeOK
    <3>2. Sign(list, Len(tx) + 1, a)
      BY <2>4 DEF SubmitTransaction
    <3> HIDE DEF t
    <3>3. list \in Seq(Transaction) /\ Len(tx) + 1 \in DOMAIN list
      BY <1>1, <3>1, AppendProperties, LenProperties DEF TypeOK
    <3>4. \A k \in DOMAIN list : k # Len(tx) + 1 => k \in DOMAIN tx /\ list[k] = tx[k]
      <4>1. DOMAIN list = 1..(Len(tx) + 1) /\ DOMAIN tx = 1..Len(tx) /\ Len(tx) \in Nat
        BY <1>1, <3>1, <3>3, AppendProperties, LenProperties DEF TypeOK
      <4>2. \A k \in 1..Len(tx) : list[k] = tx[k]
        BY <1>1, <3>1, AppendProperties DEF TypeOK
      <4> QED
        BY <4>1, <4>2
    <3> HIDE DEF list
    <3>5. /\ DOMAIN tx' = DOMAIN list
          /\ tx'[Len(tx) + 1].executed \/ ~Quorate(tx'[Len(tx) + 1])
          /\ \A k \in DOMAIN list : k # Len(tx) + 1 => tx'[k] = list[k]
      BY <1>1, <3>2, <3>3, SignSettles
    <3> QED
      BY <2>2, <3>4, <3>5
  <2>5. ASSUME NEW a \in Address, NEW k \in DOMAIN tx, SignTransaction(a, k)
        PROVE  id \in DOMAIN tx /\ Quorate(tx[id])
    <3>1. /\ DOMAIN tx' = DOMAIN tx
          /\ tx'[k].executed \/ ~Quorate(tx'[k])
          /\ \A j \in DOMAIN tx : j # k => tx'[j] = tx[j]
      BY <1>1, <2>5, SignSettles DEF SignTransaction, TypeOK
    <3> QED
      BY <2>2, <3>1
  <2>6. ASSUME NEW k \in DOMAIN tx, ExecuteTransaction(k)
        PROVE  id \in DOMAIN tx /\ Quorate(tx[id])
    <3>1. tx[k] \in Transaction
      BY <1>1, LenProperties, ElementOfSeq DEF TypeOK
    <3>2. /\ DOMAIN tx' = DOMAIN tx
          /\ \A j \in DOMAIN tx :
                tx'[j] = IF j = k THEN [tx[k] EXCEPT !.executed = TRUE, !.executedAt = now]
                                  ELSE tx[j]
      BY <1>1, <2>6, ExecuteTyped DEF ExecuteTransaction, TypeOK
    <3>3. tx'[k].executed
      BY <3>1, <3>2 DEF Transaction
    <3> QED
      BY <2>2, <3>2, <3>3
  <2>7. ASSUME NEW k \in Token, NEW n \in Deposits, Deposit(k, n)
        PROVE  UNCHANGED tx
    BY <2>7 DEF Deposit
  <2>8. CASE Configuration \/ Freezing \/ Recovery \/ CloseLedger \/ UNCHANGED vars
    BY <2>3, <2>8, ConfigurationFrame, FreezingFrame, RecoveryFrame DEF CloseLedger, vars, fundVars
  <2> QED
    BY <1>1, <2>3, <2>4, <2>5, <2>6, <2>7, <2>8 DEF Next, Transactions
<1>2. TypeOK /\ [Next]_vars => [Settles]_vars
  BY <1>1
<1> QED
  BY <1>2, Typing, PTL DEF Spec, SigningSettles

(***************************************************************************)
(* Signatures that wait for others                                         *)
(***************************************************************************)
(* How many entries of a list of owners the addresses in s are.             *)
LEMMA EntriesSum ==
    ASSUME NEW list \in [Address -> Nat], NEW s \in SUBSET Address
    PROVE  /\ Entries(list, s) = SumOver(list, s)
           /\ Entries(list, s) \in Nat
           /\ \A a \in s : list[a] <= Entries(list, s)
<1>1. Entries(list, s) = SumOver(list, s)
  BY DEF Entries, SumOver
<1>2. IsFiniteSet(s) /\ \A a \in s : list[a] \in Nat
  BY InitAssumption, FS_Subset
<1> QED
  BY <1>1, <1>2, SumNat, SumBounds

LEMMA OneEntry ==
    ASSUME TypeOK
    PROVE  /\ \A a \in Address : Entries(owners, {a}) = owners[a] /\ owners[a] \in Nat
           /\ Entries(owners, Address) \in Nat
<1>1. \A s : Entries(owners, s) = SumOver(owners, s)
  BY DEF Entries, SumOver
<1>2. \A a \in Address : owners[a] \in Nat
  BY DEF TypeOK
<1> QED
  BY <1>1, <1>2, SumSingle, EntriesSum DEF TypeOK

(* The strengthening: no signature waits and the list of owners names        *)
(* someone, so whoever meets a quorum alone is an owner, whose signature     *)
(* the operation takes back.                                                 *)
NobodyWaits ==
    ListsNameSomeone => /\ freezeSigs = {} /\ unfreezeSigs = {} /\ upgradeSigs = {}
                        /\ Entries(owners, Address) > 0

LEMMA ListedCount ==
    ASSUME NEW s \in SUBSET Address, s # {}
    PROVE  Entries(Listed(s), Address) > 0
<1>1. PICK a \in Address : a \in s
  OBVIOUS
<1>2. Listed(s) \in [Address -> Nat] /\ Listed(s)[a] = 1
  BY <1>1 DEF Listed
<1> QED
  BY <1>2, EntriesSum

LEMMA OwnersNamed ==
    ASSUME TypeOK, [Next]_vars, ListsNameSomeone, Entries(owners, Address) > 0
    PROVE  Entries(owners', Address) > 0
<1>1. CASE UNCHANGED legacyVars
  BY <1>1 DEF legacyVars
<1>2. CASE Configuration
  <2>1. ASSUME NEW a \in Address, NEW b \in Address, NEW w \in Weights, AddSigner(a, b, w)
        PROVE  Entries(owners', Address) > 0
    <3>1. b \in Signers' /\ Signers' \in SUBSET Address
      BY <2>1, InputAssumption DEF AddSigner, Signers, TypeOK
    <3> QED
      BY <2>1, <3>1, ListedCount DEF AddSigner
  <2>2. ASSUME NEW a \in Address, NEW b \in Address, RemoveSigner(a, b)
        PROVE  Entries(owners', Address) > 0
    <3>1. Signers' = Signers \ {b} /\ b \in Signers /\ Signers' \in SUBSET Address
      BY <2>2 DEF RemoveSigner, Signers, TypeOK
    <3>2. Cardinality(Signers') = Cardinality(Signers) - 1 /\ IsFiniteSet(Signers')
      BY <3>1, SignersFinite, FS_RemoveElement
    <3>3. Signers' # {}
      BY <2>2, <3>2, SignersFinite, FS_EmptySet DEF RemoveSigner
    <3> QED
      BY <2>2, <3>1, <3>3, ListedCount DEF RemoveSigner
  <2> QED
    BY <1>1, <1>2, <2>1, <2>2 DEF Configuration, UpdateSignerWeight, ChangeThreshold,
       ChangeThresholdLevel, SetThreshold, legacyVars
<1>3. CASE Recovery
  <2>1. ASSUME NEW a \in Address, NEW list \in OwnerLists, NEW n \in Thresholds,
               NEW new \in RecoveryChoices,
               \/ EmergencyRecovery(a, list, n, new)
               \/ \E path \in RecoveryChoices : TimeLockRecovery(a, list, n, new, path)
        PROVE  Entries(owners', Address) > 0
    BY <2>1 DEF EmergencyRecovery, TimeLockRecovery, ListsNameSomeone
  <2> QED
    BY <1>1, <1>3, <2>1 DEF Recovery, InitiateRecovery, UpdateRecoveryKey, CancelRecovery,
       Heartbeat, CancelTimeLockRecovery, ExecuteRecovery
<1> QED
  BY <1>1, <1>2, <1>3, TransactionsFrame, FreezingFrame DEF Next, CloseLedger, vars

LEMMA LedgerSigsGone ==
    ASSUME TypeOK, [Next]_vars, freezeSigs = {}, unfreezeSigs = {}, Entries(owners, Address) > 0
    PROVE  freezeSigs' = {} /\ unfreezeSigs' = {}
<1>1. CASE UNCHANGED ledgerSigs
  BY <1>1 DEF ledgerSigs
<1>2. CASE Freezing
  <2>1. ASSUME NEW a \in Address, NEW d \in FreezeDurations, FreezeWallet(a, d)
        PROVE  freezeSigs' = {} /\ UNCHANGED unfreezeSigs
    <3>1. FreezeThreshold \in Int /\ FreezeThreshold >= 1
      <4>1. threshold \in Nat /\ FREEZE_THRESHOLD_RATIO \in Nat \ {0}
        BY NumberAssumption DEF TypeOK
      <4>2. \A p \in Nat, r \in Nat \ {0} : ((p + r - 1) \div r) \in Int
        OBVIOUS
      <4>3. ((threshold + FREEZE_THRESHOLD_RATIO - 1) \div FREEZE_THRESHOLD_RATIO) \in Int
        BY <4>1, <4>2
      <4> QED
        BY <4>3 DEF FreezeThreshold
    <3>2. freezeSigs \cup {a} = {a}
      OBVIOUS
    <3>3. Entries(owners, {a}) >= FreezeThreshold /\ freezeSigs' = SigsCleared({a})
      BY <2>1, <3>2 DEF FreezeWallet
    <3>4. owners[a] > 0
      BY <3>1, <3>3, OneEntry
    <3> QED
      BY <2>1, <3>3, <3>4 DEF FreezeWallet, SigsCleared, OwnerSet
  <2>2. ASSUME NEW a \in Address, UnfreezeWallet(a)
        PROVE  unfreezeSigs' = {} /\ UNCHANGED freezeSigs
    <3>1. unfreezeSigs \cup {a} = {a}
      OBVIOUS
    <3>2. \/ UNCHANGED unfreezeSigs
          \/ AllOwners({a}) /\ unfreezeSigs' = SigsCleared({a})
      BY <2>2, <3>1 DEF UnfreezeWallet
    <3>3. AllOwners({a}) => owners[a] > 0
      BY OneEntry DEF AllOwners
    <3> QED
      BY <2>2, <3>2, <3>3 DEF UnfreezeWallet, SigsCleared, OwnerSet
  <2>3. CASE GetFreezeStatus
    BY <2>3 DEF GetFreezeStatus, ledgerSigs
  <2> QED
    BY <1>2, <2>1, <2>2, <2>3 DEF Freezing
<1>3. CASE CloseLedger
  BY <1>3 DEF CloseLedger
<1> QED
  BY <1>1, <1>2, <1>3, TransactionsFrame, ConfigurationFrame, RecoveryFrame DEF Next, vars

(* No call leaves its signature behind for another caller to act on: as long *)
(* as every list of owners a recovery installs names someone.                *)
THEOREM ConsentIsOneCall == UpgradeSpec => []NoConsentSurvives
<1> DEFINE Inv == TypeOK /\ NobodyWaits
<1>1. UpgradeInit => Inv
  <2> SUFFICES ASSUME UpgradeInit PROVE Inv
    OBVIOUS
  <2>1. TypeOK /\ owners = Listed(InitSigners)
    BY TypeInit DEF UpgradeInit, Init
  <2>2. Entries(owners, Address) > 0
    BY <2>1, ListedCount, InitAssumption
  <2> QED
    BY <2>1, <2>2 DEF UpgradeInit, Init, NobodyWaits
<1>2. Inv /\ [UpgradeNext]_safeVars => Inv'
  <2> SUFFICES ASSUME Inv, [UpgradeNext]_safeVars PROVE Inv'
    OBVIOUS
  <2>1. [Next]_vars
    BY DEF UpgradeNext, Refused, Upgrade, safeVars
  <2>2. TypeOK'
    BY <2>1, StepTyped
  <2>3. ASSUME ListsNameSomeone
        PROVE  /\ freezeSigs' = {} /\ unfreezeSigs' = {} /\ upgradeSigs' = {}
               /\ Entries(owners', Address) > 0
    <3>1. /\ freezeSigs = {} /\ unfreezeSigs = {} /\ upgradeSigs = {}
          /\ Entries(owners, Address) > 0
      BY <2>3 DEF NobodyWaits
    <3>2. upgradeSigs' = {}
      <4>1. ASSUME NEW a \in Address, NEW hash \in Wasm, Upgrade(a, hash)
            PROVE  upgradeSigs' = {}
        <5>1. upgradeSigs \cup {a} = {a}
          BY <3>1
        <5>2. AllOwners({a}) /\ upgradeSigs' = SigsCleared({a})
          BY <4>1, <5>1 DEF Upgrade
        <5>3. owners[a] > 0
          BY <3>1, <5>2, OneEntry DEF AllOwners
        <5> QED
          BY <5>2, <5>3 DEF SigsCleared, OwnerSet
      <4> QED
        BY <3>1, <4>1 DEF UpgradeNext, Refused, safeVars, upgradeVars
    <3> QED
      BY <2>1, <2>3, <3>1, <3>2, OwnersNamed, LedgerSigsGone
  <2>4. ListsNameSomeone' = ListsNameSomeone
    BY DEF ListsNameSomeone, Entries, MapThenSumSet, MapThenFoldSet
  <2>5. Entries(owners, Address)' = Entries(owners', Address)
    BY DEF Entries, MapThenSumSet, MapThenFoldSet
  <2> QED
    BY <2>2, <2>3, <2>4, <2>5 DEF NobodyWaits
<1>3. Inv => NoConsentSurvives
  BY DEF NobodyWaits, NoConsentSurvives
<1> QED
  BY <1>1, <1>2, <1>3, PTL DEF UpgradeSpec

(***************************************************************************)
(* Proposals                                                               *)
(***************************************************************************)
ProposalsOK == proposals \in Seq(Proposal)

LEMMA ProposalAt ==
    ASSUME ProposalsOK, NEW i \in DOMAIN proposals
    PROVE  i \in 1..Len(proposals) /\ proposals[i] \in Proposal
  BY LenProperties, ElementOfSeq DEF ProposalsOK

(***************************************************************************)
(* What a step may make of a proposal                                      *)
(***************************************************************************)
(* An executed proposal was outvoted, unexpired and affordable.             *)
LEMMA ExecuteStoredTyped ==
    ASSUME TypeOK,
           NEW list \in Seq(Proposal), NEW i \in DOMAIN list,
           ExecuteStored(list, i)
    PROVE  /\ proposals' \in Seq(Proposal)
           /\ DOMAIN proposals' = DOMAIN list
           /\ Len(proposals') = Len(list)
           /\ \A k \in DOMAIN list :
                 proposals'[k] = IF k = i THEN [list[i] EXCEPT !.executed = TRUE, !.settled = TRUE]
                                          ELSE list[k]
           /\ balance' \in [Token -> Nat]
<1> DEFINE p == list[i]
           q == [p EXCEPT !.executed = TRUE, !.settled = TRUE]
<1>1. i \in 1..Len(list)
  BY LenProperties
<1>2. p \in Proposal
  BY <1>1, ElementOfSeq
<1>3. q \in Proposal
  BY <1>2 DEF Proposal
<1>4. proposals' = [list EXCEPT ![i] = q]
  BY <1>1, <1>2, LenProperties DEF ExecuteStored, Proposal
<1>5. /\ proposals' \in Seq(Proposal)
      /\ DOMAIN proposals' = DOMAIN list
      /\ Len(proposals') = Len(list)
      /\ \A k \in DOMAIN list : proposals'[k] = IF k = i THEN q ELSE list[k]
  <2> HIDE DEF q
  <2> QED
    BY <1>1, <1>3, <1>4, ExceptSeq, LenProperties
<1>6. balance' \in [Token -> Nat]
  <2>1. p.amount \in Int /\ balance \in [Token -> Nat]
    BY <1>2 DEF Proposal, TypeOK
  <2>2. CASE p.amount > 0
    <3>1. p.asset \in Token /\ balance[p.asset] - p.amount \in Nat
      BY <2>1, <2>2 DEF ExecuteStored, Affordable
    <3>2. balance' = [balance EXCEPT ![p.asset] = @ - p.amount]
      BY <2>2 DEF ExecuteStored
    <3> QED
      BY <2>1, <3>1, <3>2
  <2> QED
    BY <2>1, <2>2 DEF ExecuteStored
<1> QED
  BY <1>5, <1>6

Opened(p, required) ==
    /\ p \in Proposal
    /\ p.asset \in Assets /\ p.amount \in ProposalAmounts
    /\ p.required = required /\ p.votes = 0
    /\ ~p.executed /\ ~p.settled

LEMMA CreateAppends ==
    ASSUME TypeOK, ProposalsOK,
           NEW a \in Address, NEW k \in Assets, NEW m \in ProposalAmounts, NEW d \in ProposalDurations,
           CreateProposal(a, k, m, d)
    PROVE  \E p : Opened(p, threshold) /\ proposals' = Append(proposals, p)
<1> DEFINE p == [asset |-> k, amount |-> m, expires |-> now + d, executed |-> FALSE,
                 votes |-> 0, required |-> threshold, voters |-> {}, settled |-> FALSE]
<1>1. p \in Proposal
  BY ProposalAssumption DEF Proposal, TypeOK
<1>2. Opened(p, threshold)
  BY <1>1 DEF Opened
<1> QED
  BY <1>2 DEF CreateProposal

(* A vote adds one, or adds one and executes.                               *)
Voted(p, a) == [p EXCEPT !.voters = @ \cup {a}, !.votes = @ + 1]
VotedExecuted(p, a) == [Voted(p, a) EXCEPT !.executed = TRUE, !.settled = TRUE]

LEMMA VotedTyped ==
    ASSUME NEW p \in Proposal, NEW a \in Address
    PROVE  Voted(p, a) \in Proposal
<1>1. p.votes + 1 \in Nat /\ p.voters \cup {a} \in SUBSET Address
  BY DEF Proposal
<1> QED
  BY <1>1 DEF Voted, Proposal

PaysFor(p) ==
    /\ Affordable(p)
    /\ balance' = IF p.amount > 0 THEN [balance EXCEPT ![p.asset] = @ - p.amount] ELSE balance

LEMMA VoteMoves ==
    ASSUME TypeOK, ProposalsOK,
           NEW a \in Address, NEW i \in DOMAIN proposals,
           VoteForProposal(a, i)
    PROVE  /\ proposals' \in Seq(Proposal)
           /\ Len(proposals') = Len(proposals)
           /\ DOMAIN proposals' = DOMAIN proposals
           /\ \A k \in DOMAIN proposals : k # i => proposals'[k] = proposals[k]
           /\ \/ /\ ~Outvoted(Voted(proposals[i], a))
                 /\ proposals'[i] = Voted(proposals[i], a)
                 /\ UNCHANGED balance
              \/ /\ proposals'[i] = VotedExecuted(proposals[i], a)
                 /\ PaysFor(proposals[i])
           /\ balance' \in [Token -> Nat]
<1> DEFINE voted == Voted(proposals[i], a)
           after == [proposals EXCEPT ![i] = voted]
<1>1. i \in 1..Len(proposals) /\ proposals[i] \in Proposal
  BY ProposalAt
<1>2. voted \in Proposal
  BY <1>1, VotedTyped
<1>3. /\ after \in Seq(Proposal)
      /\ Len(after) = Len(proposals)
      /\ DOMAIN after = DOMAIN proposals
      /\ \A k \in DOMAIN proposals : after[k] = IF k = i THEN voted ELSE proposals[k]
  <2> HIDE DEF voted
  <2> QED
    BY <1>1, <1>2, ExceptSeq, LenProperties DEF ProposalsOK
<1>4. \/ Outvoted(voted) /\ ExecuteStored(after, i)
      \/ ~Outvoted(voted) /\ proposals' = after /\ UNCHANGED balance
  BY DEF VoteForProposal, Voted
<1>5. CASE Outvoted(voted) /\ ExecuteStored(after, i)
  <2>1. /\ proposals' \in Seq(Proposal)
        /\ DOMAIN proposals' = DOMAIN after
        /\ Len(proposals') = Len(after)
        /\ \A k \in DOMAIN after :
              proposals'[k] = IF k = i THEN [after[i] EXCEPT !.executed = TRUE, !.settled = TRUE]
                                       ELSE after[k]
        /\ balance' \in [Token -> Nat]
    <3> HIDE DEF after
    <3> QED
      BY <1>3, <1>5, ExecuteStoredTyped
  <2>2. /\ voted.asset = proposals[i].asset
        /\ voted.amount = proposals[i].amount
    BY <1>1 DEF Voted, Proposal
  <2> HIDE DEF after, voted
  <2>3. after[i] = voted
    BY <1>3
  <2>4. PaysFor(voted)
    BY <1>5, <2>3 DEF ExecuteStored, PaysFor
  <2>5. PaysFor(proposals[i])
    BY <2>2, <2>4 DEF PaysFor, Affordable
  <2>6. proposals'[i] = [voted EXCEPT !.executed = TRUE, !.settled = TRUE]
    BY <1>3, <2>1
  <2> QED
    BY <1>3, <2>1, <2>5, <2>6 DEF VotedExecuted, voted
<1>6. CASE ~Outvoted(voted) /\ proposals' = after /\ UNCHANGED balance
  <2> HIDE DEF after, voted
  <2>1. balance' \in [Token -> Nat]
    BY <1>6 DEF TypeOK
  <2> QED
    BY <1>3, <1>6, <2>1 DEF voted
<1> QED
  BY <1>4, <1>5, <1>6

Closed(p) == [p EXCEPT !.executed = TRUE, !.voters = {}]

LEMMA CleanupMoves ==
    ASSUME ProposalsOK, CleanupExpiredProposals
    PROVE  /\ proposals' \in Seq(Proposal)
           /\ Len(proposals') = Len(proposals)
           /\ DOMAIN proposals' = DOMAIN proposals
           /\ \A k \in DOMAIN proposals :
                 \/ proposals'[k] = proposals[k]
                 \/ ExpiredOpen(proposals[k]) /\ proposals'[k] = Closed(proposals[k])
<1> DEFINE open == {i \in DOMAIN proposals : ExpiredOpen(proposals[i])}
           batch == {i \in open : Cardinality({j \in open : j < i}) < CLEANUP_THRESHOLD}
<1>1. proposals' = [i \in DOMAIN proposals |->
             IF i \in batch THEN Closed(proposals[i]) ELSE proposals[i]]
  BY DEF CleanupExpiredProposals, Closed
<1>2. \A i \in batch : i \in DOMAIN proposals /\ ExpiredOpen(proposals[i])
  OBVIOUS
<1> HIDE DEF batch, open
<1>3. DOMAIN proposals = 1..Len(proposals) /\ Len(proposals) \in Nat
  BY LenProperties DEF ProposalsOK
<1>4. \A i \in 1..Len(proposals) : proposals[i] \in Proposal /\ Closed(proposals[i]) \in Proposal
  BY <1>3, ProposalAt DEF Proposal, Closed
<1>5. proposals' \in [1..Len(proposals) -> Proposal]
  BY <1>1, <1>3, <1>4
<1>6. proposals' \in Seq(Proposal) /\ Len(proposals') = Len(proposals)
  BY <1>3, <1>5, SeqDef, LenProperties
<1> QED
  BY <1>1, <1>2, <1>3, <1>6

(***************************************************************************)
(* No proposal waits to be executed                                        *)
(***************************************************************************)
(* Of the wallet's core, governance touches balances and the freeze only.   *)
LEMMA CoreStaysTyped ==
    ASSUME TypeOK, SafeUnchanged, balance' \in [Token -> Nat],
           PassFreezeCheck \/ UNCHANGED freezeVars
    PROVE  TypeOK'
<1>1. frozen' \in BOOLEAN
  BY Zenon DEF TypeOK, PassFreezeCheck, freezeVars
<1>2. freezeUntil' \in Nat
  BY DEF TypeOK, PassFreezeCheck, freezeVars
<1>3. /\ UNCHANGED <<now, weight, currentThreshold, owners, threshold, tx>>
      /\ UNCHANGED <<freezeSigs, unfreezeSigs, recoveryAddress, recoveryPath, recoveryKey, request>>
      /\ UNCHANGED <<lastHeartbeat, lastActive>>
  BY DEF SafeUnchanged, configVars, legacyVars, ledgerSigs, recoveryVars, activityVars
<1> QED
  BY <1>1, <1>2, <1>3 DEF TypeOK

Waits(p) == ~p.executed /\ Outvoted(p)

LEMMA NoneWaitsInit == AllInit => TypeOK /\ NoneWaitsForExecution
  BY TypeInit, EmptySeq DEF AllInit, NoneWaitsForExecution

LEMMA NoneWaitsStep ==
    TypeOK /\ NoneWaitsForExecution /\ [AllNext]_allVars => TypeOK' /\ NoneWaitsForExecution'
<1> SUFFICES ASSUME TypeOK, NoneWaitsForExecution, [AllNext]_allVars
             PROVE  TypeOK' /\ NoneWaitsForExecution'
  OBVIOUS
<1>1. ProposalsOK /\ \A k \in DOMAIN proposals : Waits(proposals[k]) => proposals[k].required = 0
  BY DEF NoneWaitsForExecution, ProposalsOK, Waits
<1>2. ASSUME proposals' \in Seq(Proposal),
             \A k \in DOMAIN proposals' : Waits(proposals'[k]) => proposals'[k].required = 0
      PROVE  NoneWaitsForExecution'
  BY <1>2 DEF NoneWaitsForExecution, Waits, Outvoted
<1>3. CASE [Next]_vars /\ UNCHANGED proposals
  BY <1>3, StepTyped DEF NoneWaitsForExecution, Outvoted
<1>4. ASSUME NEW a \in Address, NEW k \in Assets, NEW m \in ProposalAmounts, NEW d \in ProposalDurations,
             CreateProposal(a, k, m, d)
      PROVE  TypeOK' /\ NoneWaitsForExecution'
  <2>1. PICK p : Opened(p, threshold) /\ proposals' = Append(proposals, p)
    BY <1>1, <1>4, CreateAppends
  <2>2. /\ proposals' \in Seq(Proposal)
        /\ Len(proposals') = Len(proposals) + 1
        /\ \A i \in 1..Len(proposals) : proposals'[i] = proposals[i]
        /\ proposals'[Len(proposals) + 1] = p
    BY <1>1, <2>1, AppendProperties DEF ProposalsOK, Opened
  <2>3. DOMAIN proposals = 1..Len(proposals) /\ DOMAIN proposals' = 1..(Len(proposals) + 1)
        /\ Len(proposals) \in Nat
    BY <1>1, <2>2, LenProperties DEF ProposalsOK
  <2>4. Waits(p) => p.required = 0
    BY <2>1 DEF Waits, Outvoted, Opened, TypeOK
  <2>5. \A i \in DOMAIN proposals' : i \in DOMAIN proposals \/ i = Len(proposals) + 1
    BY <2>3
  <2>6. NoneWaitsForExecution'
    BY <1>1, <1>2, <2>2, <2>3, <2>4, <2>5
  <2>7. TypeOK'
    BY <1>4, CoreStaysTyped DEF CreateProposal, TypeOK
  <2> QED
    BY <2>6, <2>7
<1>5. ASSUME NEW a \in Address, NEW i \in DOMAIN proposals, VoteForProposal(a, i)
      PROVE  TypeOK' /\ NoneWaitsForExecution'
  <2>1. /\ proposals' \in Seq(Proposal)
        /\ DOMAIN proposals' = DOMAIN proposals
        /\ \A k \in DOMAIN proposals : k # i => proposals'[k] = proposals[k]
        /\ \/ /\ ~Outvoted(Voted(proposals[i], a))
              /\ proposals'[i] = Voted(proposals[i], a)
           \/ proposals'[i] = VotedExecuted(proposals[i], a)
        /\ balance' \in [Token -> Nat]
    BY <1>1, <1>5, VoteMoves
  <2>2. proposals[i] \in Proposal
    BY <1>1, ProposalAt
  <2>3. ~Waits(proposals'[i])
    BY <2>1, <2>2 DEF Waits, Voted, VotedExecuted, Proposal
  <2>4. NoneWaitsForExecution'
    BY <1>1, <1>2, <2>1, <2>3
  <2>5. TypeOK'
    BY <1>5, <2>1, CoreStaysTyped DEF VoteForProposal
  <2> QED
    BY <2>4, <2>5
<1>6. ASSUME NEW i \in DOMAIN proposals, ExecuteProposal(i)
      PROVE  TypeOK' /\ NoneWaitsForExecution'
  <2>1. /\ proposals' \in Seq(Proposal)
        /\ DOMAIN proposals' = DOMAIN proposals
        /\ \A k \in DOMAIN proposals :
              proposals'[k] = IF k = i THEN [proposals[i] EXCEPT !.executed = TRUE, !.settled = TRUE]
                                       ELSE proposals[k]
        /\ balance' \in [Token -> Nat]
    BY <1>1, <1>6, ExecuteStoredTyped DEF ExecuteProposal, ProposalsOK
  <2>2. proposals[i] \in Proposal
    BY <1>1, ProposalAt
  <2>3. ~Waits(proposals'[i])
    BY <2>1, <2>2 DEF Waits, Proposal
  <2>4. NoneWaitsForExecution'
    BY <1>1, <1>2, <2>1, <2>3
  <2>5. TypeOK'
    BY <1>6, <2>1, CoreStaysTyped DEF ExecuteProposal
  <2> QED
    BY <2>4, <2>5
<1>7. CASE CleanupExpiredProposals
  <2>1. /\ proposals' \in Seq(Proposal)
        /\ DOMAIN proposals' = DOMAIN proposals
        /\ \A k \in DOMAIN proposals :
              \/ proposals'[k] = proposals[k]
              \/ ExpiredOpen(proposals[k]) /\ proposals'[k] = Closed(proposals[k])
    BY <1>1, <1>7, CleanupMoves
  <2>2. \A k \in DOMAIN proposals : ~Waits(Closed(proposals[k]))
    BY <1>1, ProposalAt DEF Waits, Closed, Proposal
  <2>3. NoneWaitsForExecution'
    BY <1>1, <1>2, <2>1, <2>2
  <2>4. TypeOK'
    BY <1>7, CoreStaysTyped DEF CleanupExpiredProposals, TypeOK
  <2> QED
    BY <2>3, <2>4
<1> QED
  BY <1>3, <1>4, <1>5, <1>6, <1>7 DEF AllNext, Governance, allVars

(* A proposal that has its votes is executed by the last of them: none is   *)
(* left for execute_proposal, except under a threshold of 0.                *)
THEOREM NoneWaits == AllSpec => []NoneWaitsForExecution
  BY NoneWaitsInit, NoneWaitsStep, PTL DEF AllSpec

(***************************************************************************)
(* Cleanups and freezes stand                                              *)
(***************************************************************************)
(* What ClosesForGood leaves to an invariant: time does not run back, so a  *)
(* closed proposal stays expired.                                           *)
ClosedIsExpired ==
    \A i \in DOMAIN proposals :
        proposals[i].executed /\ ~proposals[i].settled => now > proposals[i].expires

StandsInv == TypeOK /\ NoneWaitsForExecution /\ ClosedIsExpired

Stand == /\ FrozenNow => Len(proposals') = Len(proposals)
         /\ \A i \in DOMAIN proposals :
               /\ ClosesForGood(proposals[i], proposals'[i])
               /\ FrozenNow => WaitsFrozen(proposals[i], proposals'[i])

LEMMA TimePasses == TypeOK /\ [Next]_vars => now' \in Nat /\ now' >= now
<1> SUFFICES ASSUME TypeOK, [Next]_vars PROVE now' \in Nat /\ now' >= now
  OBVIOUS
<1>1. CASE UNCHANGED now
  BY <1>1 DEF TypeOK
<1>2. CASE CloseLedger
  BY <1>2 DEF CloseLedger, TypeOK
<1> QED
  BY <1>1, <1>2, TransactionsFrame, ConfigurationFrame, FreezingFrame, RecoveryFrame DEF Next, vars

LEMMA FrozenStopsVotes == TypeOK /\ FrozenNow => ~PassFreezeCheck
  BY DEF FrozenNow, PassFreezeCheck, TypeOK

LEMMA StandsStep ==
    ASSUME StandsInv, [AllNext]_allVars
    PROVE  ClosedIsExpired' /\ Stand
<1> DEFINE Expired(p) == p.executed /\ ~p.settled => now > p.expires
<1>1. /\ ProposalsOK
      /\ \A k \in DOMAIN proposals : Waits(proposals[k]) => proposals[k].required = 0
      /\ \A k \in DOMAIN proposals : Expired(proposals[k])
  BY DEF StandsInv, NoneWaitsForExecution, ClosedIsExpired, ProposalsOK, Waits
<1>2. \A k \in DOMAIN proposals : proposals[k] \in Proposal
  BY <1>1, ProposalAt
<1>3. TypeOK
  BY DEF StandsInv
<1>4. CASE [Next]_vars /\ UNCHANGED proposals
  <2>1. now' \in Nat /\ now' >= now /\ now \in Nat
    BY <1>3, <1>4, TimePasses DEF TypeOK
  <2>2. \A k \in DOMAIN proposals : proposals[k].expires \in Nat
    BY <1>2 DEF Proposal
  <2> QED
    BY <1>1, <1>4, <2>1, <2>2 DEF ClosedIsExpired, Stand, ClosesForGood, WaitsFrozen
<1>5. ASSUME NEW a \in Address, NEW k \in Assets, NEW m \in ProposalAmounts, NEW d \in ProposalDurations,
             CreateProposal(a, k, m, d)
      PROVE  ClosedIsExpired' /\ Stand
  <2>1. PICK p : Opened(p, threshold) /\ proposals' = Append(proposals, p)
    BY <1>1, <1>3, <1>5, CreateAppends
  <2>2. /\ DOMAIN proposals = 1..Len(proposals)
        /\ DOMAIN proposals' = 1..(Len(proposals) + 1)
        /\ Len(proposals) \in Nat
        /\ \A i \in 1..Len(proposals) : proposals'[i] = proposals[i]
        /\ proposals'[Len(proposals) + 1] = p
    BY <1>1, <2>1, AppendProperties, LenProperties DEF ProposalsOK, Opened
  <2>3. now' = now /\ ~FrozenNow
    BY <1>3, <1>5, FrozenStopsVotes DEF CreateProposal, SafeUnchanged
  <2>4. Expired(p)
    BY <2>1 DEF Opened
  <2>5. \A i \in DOMAIN proposals' : Expired(proposals'[i])
    BY <1>1, <2>2, <2>4
  <2> QED
    BY <1>1, <2>2, <2>3, <2>5 DEF ClosedIsExpired, Stand, ClosesForGood
<1>6. ASSUME NEW a \in Address, NEW i \in DOMAIN proposals, VoteForProposal(a, i)
      PROVE  ClosedIsExpired' /\ Stand
  <2>1. /\ DOMAIN proposals' = DOMAIN proposals
        /\ \A k \in DOMAIN proposals : k # i => proposals'[k] = proposals[k]
        /\ \/ proposals'[i] = Voted(proposals[i], a)
           \/ proposals'[i] = VotedExecuted(proposals[i], a)
    BY <1>1, <1>3, <1>6, VoteMoves
  <2>2. now' = now /\ ~FrozenNow /\ ~proposals[i].executed
    BY <1>3, <1>6, FrozenStopsVotes DEF VoteForProposal, SafeUnchanged
  <2>3. \/ ~proposals'[i].executed
        \/ proposals'[i].settled
    BY <1>2, <2>1, <2>2 DEF Voted, VotedExecuted, Proposal
  <2> QED
    BY <1>1, <2>1, <2>2, <2>3 DEF ClosedIsExpired, Stand, ClosesForGood
<1>7. ASSUME NEW i \in DOMAIN proposals, ExecuteProposal(i)
      PROVE  ClosedIsExpired' /\ Stand
  <2> DEFINE q == [proposals[i] EXCEPT !.executed = TRUE, !.settled = TRUE]
  <2>1. /\ DOMAIN proposals' = DOMAIN proposals
        /\ Len(proposals') = Len(proposals)
        /\ \A k \in DOMAIN proposals : proposals'[k] = IF k = i THEN q ELSE proposals[k]
    BY <1>1, <1>3, <1>7, ExecuteStoredTyped DEF ExecuteProposal, ProposalsOK
  <2>2. now' = now /\ Waits(proposals[i])
    BY <1>7 DEF ExecuteProposal, ExecuteStored, SafeUnchanged, Waits
  <2>3. q.executed /\ q.settled /\ q.votes = proposals[i].votes
    BY <1>2 DEF Proposal
  <2>4. proposals[i].required = 0 /\ ~proposals[i].executed
    BY <1>1, <2>2 DEF Waits
  <2> HIDE DEF q
  <2> QED
    BY <1>1, <2>1, <2>2, <2>3, <2>4 DEF ClosedIsExpired, Stand, ClosesForGood, WaitsFrozen
<1>8. CASE CleanupExpiredProposals
  <2>1. /\ DOMAIN proposals' = DOMAIN proposals
        /\ Len(proposals') = Len(proposals)
        /\ \A k \in DOMAIN proposals :
              \/ proposals'[k] = proposals[k]
              \/ ExpiredOpen(proposals[k]) /\ proposals'[k] = Closed(proposals[k])
    BY <1>1, <1>8, CleanupMoves
  <2>2. now' = now
    BY <1>8 DEF CleanupExpiredProposals, SafeUnchanged
  <2>3. \A k \in DOMAIN proposals :
           /\ Closed(proposals[k]).expires = proposals[k].expires
           /\ Closed(proposals[k]).settled = proposals[k].settled
           /\ Closed(proposals[k]).votes = proposals[k].votes
    BY <1>2 DEF Closed, Proposal
  <2> QED
    BY <1>1, <2>1, <2>2, <2>3 DEF ClosedIsExpired, Stand, ClosesForGood, WaitsFrozen, ExpiredOpen
<1> QED
  BY <1>4, <1>5, <1>6, <1>7, <1>8 DEF AllNext, Governance, allVars

(* No call undoes a cleanup, pays what one closed, or passes a freeze to    *)
(* create, vote or, a vote being needed, execute.                           *)
THEOREM CleanupAndFreezeStand == AllSpec => ProposalsStand
<1>1. AllInit => StandsInv
  BY NoneWaitsInit DEF AllInit, StandsInv, ClosedIsExpired
<1>2. StandsInv /\ [AllNext]_allVars => StandsInv'
  BY NoneWaitsStep, StandsStep DEF StandsInv
<1>3. StandsInv /\ [AllNext]_allVars => [Stand]_allVars
  BY StandsStep
<1> QED
  BY <1>1, <1>2, <1>3, PTL DEF AllSpec, ProposalsStand, Stand

(***************************************************************************)
(* Transactions and proposals are one vault                                *)
(***************************************************************************)
(* Two vaults side by side: their ids are tagged; what one files or settles *)
(* leaves what the other has alone.                                         *)
Tagged(A, B) == ({"tx"} \X A) \cup ({"proposal"} \X B)
Beside(F, G) ==
    [k \in Tagged(DOMAIN F, DOMAIN G) |-> IF k[1] = "tx" THEN F[k[2]] ELSE G[k[2]]]
With(F, id, r) == [k \in DOMAIN F \cup {id} |-> IF k = id THEN r ELSE F[k]]

LEMMA TagsTell ==
    ASSUME NEW A, NEW B
    PROVE  /\ \A k \in Tagged(A, B) : \/ k = <<"tx", k[2]>> /\ k[1] = "tx" /\ k[2] \in A
                                      \/ k = <<"proposal", k[2]>> /\ k[1] = "proposal" /\ k[2] \in B
           /\ \A a : <<"tx", a>> \in Tagged(A, B) <=> a \in A
           /\ \A b : <<"proposal", b>> \in Tagged(A, B) <=> b \in B
  BY DEF Tagged

LEMMA BesideAt ==
    ASSUME NEW F, NEW G
    PROVE  /\ DOMAIN Beside(F, G) = Tagged(DOMAIN F, DOMAIN G)
           /\ \A a \in DOMAIN F : Beside(F, G)[<<"tx", a>>] = F[a]
           /\ \A b \in DOMAIN G : Beside(F, G)[<<"proposal", b>>] = G[b]
  BY TagsTell DEF Beside

LEMMA FileLeft ==
    ASSUME NEW F, NEW G, NEW id, id \notin DOMAIN F, NEW r
    PROVE  Beside(With(F, id, r), G) = With(Beside(F, G), <<"tx", id>>, r)
<1> DEFINE H == Beside(With(F, id, r), G)
           K == Beside(F, G)
           k0 == <<"tx", id>>
<1>1. /\ DOMAIN With(F, id, r) = DOMAIN F \cup {id}
      /\ DOMAIN H = Tagged(DOMAIN With(F, id, r), DOMAIN G)
      /\ DOMAIN K = Tagged(DOMAIN F, DOMAIN G)
  BY BesideAt DEF With
<1>2. DOMAIN H = DOMAIN K \cup {k0}
  <2>1. Tagged(DOMAIN F \cup {id}, DOMAIN G) = Tagged(DOMAIN F, DOMAIN G) \cup {k0}
    BY DEF Tagged
  <2> HIDE DEF H, K, k0
  <2> QED
    BY <1>1, <2>1, Zenon
<1>3. ASSUME NEW k \in DOMAIN H
      PROVE  H[k] = IF k = k0 THEN r ELSE K[k]
  <2>1. \/ k = <<"tx", k[2]>> /\ k[2] \in DOMAIN F \cup {id}
        \/ k = <<"proposal", k[2]>> /\ k[2] \in DOMAIN G
    BY <1>1, TagsTell
  <2>2. ASSUME NEW a \in DOMAIN F \cup {id}, k = <<"tx", a>>
        PROVE  H[k] = IF k = k0 THEN r ELSE K[k]
    <3>1. H[k] = With(F, id, r)[a]
      BY <1>1, <2>2, BesideAt
    <3>2. a # id => K[k] = F[a]
      BY <2>2, BesideAt
    <3> QED
      BY <2>2, <3>1, <3>2 DEF With
  <2>3. ASSUME NEW b \in DOMAIN G, k = <<"proposal", b>>
        PROVE  H[k] = IF k = k0 THEN r ELSE K[k]
    <3>1. H[k] = G[b] /\ K[k] = G[b]
      BY <2>3, BesideAt
    <3>2. k # k0
      BY <2>3
    <3> QED
      BY <3>1, <3>2
  <2> QED
    BY <2>1, <2>2, <2>3
<1>4. H = [k \in DOMAIN H |-> H[k]]
  BY DEF Beside
<1> HIDE DEF H, K, k0
<1> QED
  BY <1>2, <1>3, <1>4 DEF With, H, K, k0

LEMMA FileRight ==
    ASSUME NEW F, NEW G, NEW id, id \notin DOMAIN G, NEW r
    PROVE  Beside(F, With(G, id, r)) = With(Beside(F, G), <<"proposal", id>>, r)
<1> DEFINE H == Beside(F, With(G, id, r))
           K == Beside(F, G)
           k0 == <<"proposal", id>>
<1>1. /\ DOMAIN With(G, id, r) = DOMAIN G \cup {id}
      /\ DOMAIN H = Tagged(DOMAIN F, DOMAIN With(G, id, r))
      /\ DOMAIN K = Tagged(DOMAIN F, DOMAIN G)
  BY BesideAt DEF With
<1>2. DOMAIN H = DOMAIN K \cup {k0}
  <2>1. Tagged(DOMAIN F, DOMAIN G \cup {id}) = Tagged(DOMAIN F, DOMAIN G) \cup {k0}
    BY DEF Tagged
  <2> HIDE DEF H, K, k0
  <2> QED
    BY <1>1, <2>1, Zenon
<1>3. ASSUME NEW k \in DOMAIN H
      PROVE  H[k] = IF k = k0 THEN r ELSE K[k]
  <2>1. \/ k = <<"tx", k[2]>> /\ k[2] \in DOMAIN F
        \/ k = <<"proposal", k[2]>> /\ k[2] \in DOMAIN G \cup {id}
    BY <1>1, TagsTell
  <2>2. ASSUME NEW b \in DOMAIN G \cup {id}, k = <<"proposal", b>>
        PROVE  H[k] = IF k = k0 THEN r ELSE K[k]
    <3>1. H[k] = With(G, id, r)[b]
      BY <1>1, <2>2, BesideAt
    <3>2. b # id => K[k] = G[b]
      BY <2>2, BesideAt
    <3> QED
      BY <2>2, <3>1, <3>2 DEF With
  <2>3. ASSUME NEW a \in DOMAIN F, k = <<"tx", a>>
        PROVE  H[k] = IF k = k0 THEN r ELSE K[k]
    <3>1. H[k] = F[a] /\ K[k] = F[a]
      BY <2>3, BesideAt
    <3>2. k # k0
      BY <2>3
    <3> QED
      BY <3>1, <3>2
  <2> QED
    BY <2>1, <2>2, <2>3
<1>4. H = [k \in DOMAIN H |-> H[k]]
  BY DEF Beside
<1> HIDE DEF H, K, k0
<1> QED
  BY <1>2, <1>3, <1>4 DEF With, H, K, k0

PFilings(list) == [i \in DOMAIN list |-> [asset |-> list[i].asset, amount |-> list[i].amount]]
PSettled(list) == {i \in DOMAIN list : list[i].settled}

LEMMA AllIsBeside ==
    ASSUME NEW t, NEW q
    PROVE  /\ [k \in Tagged(DOMAIN t, DOMAIN q) |->
                  IF k[1] = "tx" THEN [asset |-> t[k[2]].destination, amount |-> t[k[2]].amount]
                                 ELSE [asset |-> q[k[2]].asset, amount |-> q[k[2]].amount]]
              = Beside(Filings(t), PFilings(q))
           /\ {k \in Tagged(DOMAIN t, DOMAIN q) :
                  IF k[1] = "tx" THEN t[k[2]].executed ELSE q[k[2]].settled}
              = Tagged(Settled(t), PSettled(q))
<1>1. DOMAIN Filings(t) = DOMAIN t /\ DOMAIN PFilings(q) = DOMAIN q
  BY DEF Filings, PFilings
<1>2. ASSUME NEW k \in Tagged(DOMAIN t, DOMAIN q)
      PROVE  (IF k[1] = "tx" THEN [asset |-> t[k[2]].destination, amount |-> t[k[2]].amount]
                             ELSE [asset |-> q[k[2]].asset, amount |-> q[k[2]].amount])
             = (IF k[1] = "tx" THEN Filings(t)[k[2]] ELSE PFilings(q)[k[2]])
  BY <1>2, TagsTell DEF Filings, PFilings
<1>3. ASSUME NEW k \in Tagged(DOMAIN t, DOMAIN q)
      PROVE  (IF k[1] = "tx" THEN t[k[2]].executed ELSE q[k[2]].settled)
             <=> k \in Tagged(Settled(t), PSettled(q))
  BY <1>3 DEF Tagged, Settled, PSettled
<1>4. Tagged(Settled(t), PSettled(q)) \subseteq Tagged(DOMAIN t, DOMAIN q)
  BY DEF Tagged, Settled, PSettled
<1> QED
  BY <1>1, <1>2, <1>3, <1>4 DEF Beside

LEMMA AllNow ==
    /\ AllFiled = Beside(Filings(tx), PFilings(proposals))
    /\ AllSettled = Tagged(Settled(tx), PSettled(proposals))
  BY AllIsBeside, ZenonT(60) DEF AllFiled, AllSettled, Ids, Tagged

LEMMA AllThen ==
    /\ AllFiled' = Beside(Filings(tx'), PFilings(proposals'))
    /\ AllSettled' = Tagged(Settled(tx'), PSettled(proposals'))
  BY AllIsBeside, ZenonT(60) DEF AllFiled, AllSettled, Ids, Tagged

(* The steps of the joint vault, in terms of what is filed and settled.     *)
JointRequest == [asset : Destinations \cup Assets, amount : Amounts \cup ProposalAmounts]

LEMMA JointFiles ==
    ASSUME NEW k, NEW r \in JointRequest,
           k \notin DOMAIN AllFiled, AllFiled' = With(AllFiled, k, r),
           \/ AllSettled' = AllSettled /\ UNCHANGED balance
           \/ AllSettled' = AllSettled \cup {k} /\ Joint!Pay(r)
    PROVE  Joint!VaultNext
<1>1. k \in DOMAIN AllFiled' /\ AllFiled'[k] = r
  BY DEF With
<1>2. Joint!Filed(k, AllFiled'[k])
  BY <1>1 DEF Joint!Filed, With, JointRequest
<1> QED
  BY <1>1, <1>2 DEF Joint!VaultNext, Joint!File, Joint!FileAndSettle

LEMMA JointSettles ==
    ASSUME NEW k \in DOMAIN AllFiled, k \notin AllSettled,
           AllFiled' = AllFiled, AllSettled' = AllSettled \cup {k}, Joint!Pay(AllFiled[k])
    PROVE  Joint!VaultNext
  BY DEF Joint!VaultNext, Joint!Settle

LEMMA JointStays ==
    ASSUME AllFiled' = AllFiled, AllSettled' = AllSettled, UNCHANGED balance
    PROVE  UNCHANGED Joint!vaultVars
  BY DEF Joint!vaultVars

(* What the vault of the transactions does, the joint one does.             *)
LEMMA CoreIsJoint ==
    ASSUME TypeOK, TypeOK', [Next]_vars, UNCHANGED proposals
    PROVE  Joint!VaultNext \/ UNCHANGED Joint!vaultVars
<1> DEFINE F == Filings(tx)
           G == PFilings(proposals)
           S == Settled(tx)
           T == PSettled(proposals)
<1>1. /\ AllFiled = Beside(F, G) /\ AllFiled' = Beside(F', G)
      /\ AllSettled = Tagged(S, T) /\ AllSettled' = Tagged(S', T)
  BY AllNow, AllThen DEF PFilings, PSettled, Filings, Settled
<1>2. /\ DOMAIN AllFiled = Tagged(DOMAIN F, DOMAIN G)
      /\ \A id : <<"tx", id>> \in DOMAIN AllFiled <=> id \in DOMAIN F
      /\ \A id : <<"tx", id>> \in AllSettled <=> id \in S
      /\ \A id \in DOMAIN F : AllFiled[<<"tx", id>>] = F[id]
  BY <1>1, BesideAt, TagsTell
<1>3. ASSUME NEW id, S' = S \cup {id}
      PROVE  AllSettled' = AllSettled \cup {<<"tx", id>>}
  BY <1>1, <1>3 DEF Tagged
<1>4. ASSUME NEW r, Vlt!Pay(r) PROVE Joint!Pay(r)
  BY <1>4 DEF Vlt!Pay, Joint!Pay, Vlt!Moves, Joint!Moves
<1>5. Vlt!VaultNext \/ UNCHANGED Vlt!vaultVars
  BY StepRefines
<1>6. CASE UNCHANGED Vlt!vaultVars
  <2>1. F' = F /\ S' = S /\ UNCHANGED balance
    BY <1>6 DEF Vlt!vaultVars, Filings, Settled
  <2> HIDE DEF F, G, S, T
  <2> QED
    BY <1>1, <2>1, JointStays
<1>7. ASSUME NEW id, Vlt!File(id) \/ Vlt!FileAndSettle(id)
      PROVE  Joint!VaultNext
  <2> DEFINE r == F'[id]
             k == <<"tx", id>>
  <2>1. /\ id \notin DOMAIN F
        /\ r \in [asset : Destinations, amount : Amounts]
        /\ F' = With(F, id, r)
    BY <1>7 DEF Vlt!File, Vlt!FileAndSettle, Vlt!Filed, With, Filings
  <2>2. \/ S' = S /\ UNCHANGED balance
        \/ S' = S \cup {id} /\ Vlt!Pay(r)
    BY <1>7 DEF Vlt!File, Vlt!FileAndSettle, Filings, Settled
  <2> HIDE DEF F, G, S, T, r
  <2>3. AllFiled' = With(AllFiled, k, r)
    BY <1>1, <2>1, FileLeft
  <2>4. r \in JointRequest
    BY <2>1 DEF JointRequest
  <2>5. k \notin DOMAIN AllFiled
    BY <1>2, <2>1
  <2>6. \/ AllSettled' = AllSettled /\ UNCHANGED balance
        \/ AllSettled' = AllSettled \cup {k} /\ Joint!Pay(r)
    BY <1>1, <1>3, <1>4, <2>2
  <2> QED
    BY <2>3, <2>4, <2>5, <2>6, JointFiles
<1>8. ASSUME NEW id, Vlt!Settle(id)
      PROVE  Joint!VaultNext
  <2>1. id \in DOMAIN F /\ id \notin S /\ S' = S \cup {id} /\ F' = F /\ Vlt!Pay(F[id])
    BY <1>8 DEF Vlt!Settle, Filings, Settled
  <2> HIDE DEF F, G, S, T
  <2> QED
    BY <1>1, <1>2, <1>3, <1>4, <2>1, JointSettles
<1>9. CASE Vlt!Receive
  <2>1. F' = F /\ S' = S
    BY <1>9 DEF Vlt!Receive, Filings, Settled
  <2>2. AllFiled' = AllFiled /\ AllSettled' = AllSettled
    <3> HIDE DEF F, G, S, T
    <3> QED
      BY <1>1, <2>1
  <2> QED
    BY <1>9, <2>2 DEF Vlt!Receive, Joint!Receive, Joint!VaultNext
<1> QED
  BY <1>5, <1>6, <1>7, <1>8, <1>9 DEF Vlt!VaultNext

(* What governance does to the proposals alone, the joint vault does.       *)
LEMMA GovernanceJoint ==
    ASSUME UNCHANGED tx
    PROVE  /\ \A i, r :
                 /\ r \in [asset : Assets, amount : ProposalAmounts]
                 /\ i \notin DOMAIN PFilings(proposals)
                 /\ PFilings(proposals)' = With(PFilings(proposals), i, r)
                 /\ PSettled(proposals)' = PSettled(proposals)
                 /\ UNCHANGED balance
                 => Joint!VaultNext
           /\ \A i \in DOMAIN PFilings(proposals) :
                 /\ i \notin PSettled(proposals)
                 /\ PFilings(proposals)' = PFilings(proposals)
                 /\ PSettled(proposals)' = PSettled(proposals) \cup {i}
                 /\ Joint!Pay(PFilings(proposals)[i])
                 => Joint!VaultNext
           /\ /\ PFilings(proposals)' = PFilings(proposals)
              /\ PSettled(proposals)' = PSettled(proposals)
              /\ UNCHANGED balance
              => UNCHANGED Joint!vaultVars
<1> DEFINE F == Filings(tx)
           G == PFilings(proposals)
           S == Settled(tx)
           T == PSettled(proposals)
<1>1. /\ AllFiled = Beside(F, G) /\ AllFiled' = Beside(F, G')
      /\ AllSettled = Tagged(S, T) /\ AllSettled' = Tagged(S, T')
  BY AllNow, AllThen DEF PFilings, PSettled, Filings, Settled
<1>2. /\ \A i : <<"proposal", i>> \in DOMAIN AllFiled <=> i \in DOMAIN G
      /\ \A i : <<"proposal", i>> \in AllSettled <=> i \in T
      /\ \A i \in DOMAIN G : AllFiled[<<"proposal", i>>] = G[i]
  BY <1>1, BesideAt, TagsTell
<1>3. ASSUME NEW i, T' = T \cup {i}
      PROVE  AllSettled' = AllSettled \cup {<<"proposal", i>>}
  BY <1>1, <1>3 DEF Tagged
<1> HIDE DEF F, G, S, T
<1>4. ASSUME NEW i, NEW r \in [asset : Assets, amount : ProposalAmounts],
             i \notin DOMAIN G, G' = With(G, i, r), T' = T, UNCHANGED balance
      PROVE  Joint!VaultNext
  <2>1. AllFiled' = With(AllFiled, <<"proposal", i>>, r)
    BY <1>1, <1>4, FileRight
  <2>2. r \in JointRequest
    BY DEF JointRequest
  <2> QED
    BY <1>1, <1>2, <1>4, <2>1, <2>2, JointFiles
<1>5. ASSUME NEW i \in DOMAIN G, i \notin T, G' = G, T' = T \cup {i}, Joint!Pay(G[i])
      PROVE  Joint!VaultNext
  BY <1>1, <1>2, <1>3, <1>5, JointSettles
<1>6. ASSUME G' = G, T' = T, UNCHANGED balance
      PROVE  UNCHANGED Joint!vaultVars
  BY <1>1, <1>6, JointStays
<1> QED
  BY <1>4, <1>5, <1>6 DEF G, T

(* A settled proposal is marked executed, so that no call settles it again. *)
PaidIsExecuted ==
    \A i \in DOMAIN proposals : proposals[i].settled => proposals[i].executed

LEMMA PaysIsPay ==
    ASSUME NEW p, PaysFor(p)
    PROVE  Joint!Pay([asset |-> p.asset, amount |-> p.amount])
  BY DEF PaysFor, Affordable, Joint!Pay, Joint!Moves

(* A call that keeps what is filed and settles one proposal at most.        *)
LEMMA SettlesOne ==
    ASSUME UNCHANGED tx,
           DOMAIN proposals' = DOMAIN proposals,
           \A k \in DOMAIN proposals : /\ proposals'[k].asset = proposals[k].asset
                                       /\ proposals'[k].amount = proposals[k].amount,
           NEW i \in DOMAIN proposals,
           \A k \in DOMAIN proposals : k # i => proposals'[k].settled = proposals[k].settled,
           \/ proposals'[i].settled = proposals[i].settled /\ UNCHANGED balance
           \/ ~proposals[i].settled /\ proposals'[i].settled /\ PaysFor(proposals[i])
    PROVE  Joint!VaultNext \/ UNCHANGED Joint!vaultVars
<1>1. PFilings(proposals)' = PFilings(proposals)
  BY DEF PFilings
<1>2. /\ i \in DOMAIN PFilings(proposals)
      /\ PFilings(proposals)[i] = [asset |-> proposals[i].asset, amount |-> proposals[i].amount]
  BY DEF PFilings
<1>3. CASE proposals'[i].settled = proposals[i].settled /\ UNCHANGED balance
  <2>1. PSettled(proposals)' = PSettled(proposals)
    BY <1>3 DEF PSettled
  <2> QED
    BY <1>1, <1>3, <2>1, GovernanceJoint
<1>4. CASE ~proposals[i].settled /\ proposals'[i].settled /\ PaysFor(proposals[i])
  <2>1. PSettled(proposals)' = PSettled(proposals) \cup {i} /\ i \notin PSettled(proposals)
    BY <1>4 DEF PSettled
  <2>2. Joint!Pay(PFilings(proposals)[i])
    BY <1>2, <1>4, PaysIsPay
  <2> QED
    BY <1>1, <1>2, <2>1, <2>2, GovernanceJoint
<1> QED
  BY <1>3, <1>4

LEMMA JointStep ==
    ASSUME TypeOK, NoneWaitsForExecution, PaidIsExecuted, [AllNext]_allVars
    PROVE  PaidIsExecuted' /\ (Joint!VaultNext \/ UNCHANGED Joint!vaultVars)
<1>1. ProposalsOK /\ \A k \in DOMAIN proposals : proposals[k].settled => proposals[k].executed
  BY DEF NoneWaitsForExecution, PaidIsExecuted, ProposalsOK
<1>2. \A k \in DOMAIN proposals : proposals[k] \in Proposal
  BY <1>1, ProposalAt
<1>3. CASE [Next]_vars /\ UNCHANGED proposals
  <2>1. TypeOK'
    BY <1>3, StepTyped
  <2> QED
    BY <1>1, <1>3, <2>1, CoreIsJoint DEF PaidIsExecuted
<1>4. ASSUME NEW a \in Address, NEW k \in Assets, NEW m \in ProposalAmounts, NEW d \in ProposalDurations,
             CreateProposal(a, k, m, d)
      PROVE  PaidIsExecuted' /\ Joint!VaultNext
  <2> DEFINE i == Len(proposals) + 1
  <2>1. PICK p : Opened(p, threshold) /\ proposals' = Append(proposals, p)
    BY <1>1, <1>4, CreateAppends
  <2>2. /\ DOMAIN proposals' = DOMAIN proposals \cup {i}
        /\ i \notin DOMAIN proposals
        /\ \A j \in DOMAIN proposals : proposals'[j] = proposals[j]
        /\ proposals'[i] = p
    BY <1>1, <2>1, AppendProperties, LenProperties DEF ProposalsOK, Opened
  <2> DEFINE r == [asset |-> p.asset, amount |-> p.amount]
  <2> HIDE DEF i
  <2>3. PFilings(proposals)' = With(PFilings(proposals), i, r) /\ i \notin DOMAIN PFilings(proposals)
    BY <2>2 DEF PFilings, With
  <2>4. PSettled(proposals)' = PSettled(proposals)
    BY <2>1, <2>2 DEF PSettled, Opened
  <2>5. r \in [asset : Assets, amount : ProposalAmounts]
    BY <2>1 DEF Opened
  <2>6. UNCHANGED <<tx, balance>>
    BY <1>4 DEF CreateProposal, SafeUnchanged
  <2>7. Joint!VaultNext
    <3> HIDE DEF r
    <3> QED
      BY <2>3, <2>4, <2>5, <2>6, GovernanceJoint
  <2> QED
    BY <1>1, <2>1, <2>2, <2>7 DEF PaidIsExecuted, Opened
<1>5. ASSUME NEW a \in Address, NEW i \in DOMAIN proposals, VoteForProposal(a, i)
      PROVE  PaidIsExecuted' /\ (Joint!VaultNext \/ UNCHANGED Joint!vaultVars)
  <2>1. /\ DOMAIN proposals' = DOMAIN proposals
        /\ \A k \in DOMAIN proposals : k # i => proposals'[k] = proposals[k]
        /\ \/ proposals'[i] = Voted(proposals[i], a) /\ UNCHANGED balance
           \/ proposals'[i] = VotedExecuted(proposals[i], a) /\ PaysFor(proposals[i])
    BY <1>1, <1>5, VoteMoves
  <2>2. UNCHANGED tx /\ ~proposals[i].executed /\ ~proposals[i].settled
    BY <1>1, <1>5 DEF VoteForProposal, SafeUnchanged
  <2>3. /\ Voted(proposals[i], a).asset = proposals[i].asset
        /\ Voted(proposals[i], a).amount = proposals[i].amount
        /\ Voted(proposals[i], a).settled = proposals[i].settled
        /\ VotedExecuted(proposals[i], a).asset = proposals[i].asset
        /\ VotedExecuted(proposals[i], a).amount = proposals[i].amount
        /\ VotedExecuted(proposals[i], a).settled
        /\ VotedExecuted(proposals[i], a).executed
    BY <1>2 DEF Voted, VotedExecuted, Proposal
  <2>4. /\ proposals'[i].asset = proposals[i].asset
        /\ proposals'[i].amount = proposals[i].amount
        /\ \/ proposals'[i].settled = proposals[i].settled /\ UNCHANGED balance
           \/ /\ ~proposals[i].settled /\ proposals'[i].settled
              /\ proposals'[i].executed /\ PaysFor(proposals[i])
    BY <2>1, <2>2, <2>3
  <2>5. Joint!VaultNext \/ UNCHANGED Joint!vaultVars
    BY <2>1, <2>2, <2>4, SettlesOne
  <2> QED
    BY <1>1, <2>1, <2>2, <2>4, <2>5 DEF PaidIsExecuted
<1>6. ASSUME NEW i \in DOMAIN proposals, ExecuteProposal(i)
      PROVE  PaidIsExecuted' /\ (Joint!VaultNext \/ UNCHANGED Joint!vaultVars)
  <2> DEFINE q == [proposals[i] EXCEPT !.executed = TRUE, !.settled = TRUE]
  <2>1. /\ DOMAIN proposals' = DOMAIN proposals
        /\ \A k \in DOMAIN proposals : proposals'[k] = IF k = i THEN q ELSE proposals[k]
    BY <1>1, <1>6, ExecuteStoredTyped DEF ExecuteProposal, ProposalsOK
  <2>2. UNCHANGED tx /\ ~proposals[i].executed /\ ~proposals[i].settled /\ PaysFor(proposals[i])
    BY <1>1, <1>6 DEF ExecuteProposal, ExecuteStored, SafeUnchanged, PaysFor
  <2>3. q.executed /\ q.settled /\ q.asset = proposals[i].asset /\ q.amount = proposals[i].amount
    BY <1>2 DEF Proposal
  <2> HIDE DEF q
  <2>4. Joint!VaultNext \/ UNCHANGED Joint!vaultVars
    BY <2>1, <2>2, <2>3, SettlesOne
  <2> QED
    BY <1>1, <2>1, <2>3, <2>4 DEF PaidIsExecuted
<1>7. CASE CleanupExpiredProposals
  <2>1. /\ DOMAIN proposals' = DOMAIN proposals
        /\ \A k \in DOMAIN proposals :
              \/ proposals'[k] = proposals[k]
              \/ proposals'[k] = Closed(proposals[k])
    BY <1>1, <1>7, CleanupMoves
  <2>2. \A k \in DOMAIN proposals :
           /\ Closed(proposals[k]).asset = proposals[k].asset
           /\ Closed(proposals[k]).amount = proposals[k].amount
           /\ Closed(proposals[k]).settled = proposals[k].settled
           /\ Closed(proposals[k]).executed
    BY <1>2 DEF Closed, Proposal
  <2>3. UNCHANGED <<tx, balance>>
    BY <1>7 DEF CleanupExpiredProposals, SafeUnchanged
  <2>4. PFilings(proposals)' = PFilings(proposals) /\ PSettled(proposals)' = PSettled(proposals)
    BY <2>1, <2>2 DEF PFilings, PSettled
  <2>5. Joint!VaultNext \/ UNCHANGED Joint!vaultVars
    BY <2>3, <2>4, GovernanceJoint
  <2> QED
    BY <1>1, <2>1, <2>2, <2>5 DEF PaidIsExecuted
<1> QED
  BY <1>3, <1>4, <1>5, <1>6, <1>7 DEF AllNext, Governance, allVars

(* Transactions and proposals draw on the same balances by two rules of     *)
(* approval; together they still pay each request once, its own amount.     *)
THEOREM OneVaultHolds == AllSpec => OneVault
<1> DEFINE Inv == TypeOK /\ NoneWaitsForExecution /\ PaidIsExecuted
<1>1. AllInit => Inv
  BY NoneWaitsInit DEF AllInit, PaidIsExecuted
<1>2. Inv /\ [AllNext]_allVars => Inv'
  BY NoneWaitsStep, JointStep
<1>3. AllInit => Joint!VaultInit
  <2> SUFFICES ASSUME AllInit PROVE Joint!VaultInit
    OBVIOUS
  <2>1. DOMAIN tx = {} /\ DOMAIN proposals = {}
    BY EmptySeq DEF AllInit, Init
  <2>2. Ids = {}
    BY <2>1 DEF Ids
  <2>3. AllFiled = <<>> /\ AllSettled = {}
    BY <2>2 DEF AllFiled, AllSettled
  <2>4. balance \in [Token -> Nat]
    BY DEF AllInit, Init
  <2> QED
    BY <2>3, <2>4 DEF Joint!VaultInit
<1>4. Inv /\ [AllNext]_allVars => [Joint!VaultNext]_(Joint!vaultVars)
  BY JointStep
<1> QED
  BY <1>1, <1>2, <1>3, <1>4, PTL DEF AllSpec, OneVault, Joint!VaultSpec
=============================================================================
