----------------------------- MODULE SafeUpgrade -----------------------------
(***************************************************************************)
(* upgrade() of contracts/soroban/src/lib.rs beside the rest of the wallet,*)
(* and a record of who asked in vain to unfreeze.  Freeze, unfreeze and    *)
(* upgrade all collect signatures under the sequence of the current        *)
(* ledger; a call that finds too few returns Err, which takes its own      *)
(* signature back.                                                         *)
(***************************************************************************)
EXTENDS MultisigSafe

CONSTANTS
    Wasm, InitWasm,     \* code hashes; InitWasm is the code modelled here
    CURRENT_VERSION

ASSUME UpgradeAssumption == InitWasm \in Wasm /\ CURRENT_VERSION \in Nat

VARIABLES
    wasm, version,
    upgradeSigs,        \* (UPGRADE_EVENT, this sequence, a) is stored
    asked               \* history: who asked to unfreeze in this ledger

upgradeVars == <<wasm, version, upgradeSigs, asked>>
safeVars == <<vars, upgradeVars>>

(* migrate_data *)
Migratable == threshold \in 1..Entries(owners, Address)

(* UPGRADE_STATE is set and removed within the invocation: no other         *)
(* invocation ever sees it.                                                 *)
Upgrade(a, hash) ==
    /\ a \in Signers
    /\ a \notin upgradeSigs
    /\ AllOwners(upgradeSigs \cup {a})
    /\ hash # wasm
    /\ Migratable
    /\ wasm' = hash
    /\ version' = CURRENT_VERSION + 1
    /\ upgradeSigs' = SigsCleared(upgradeSigs \cup {a})
    /\ UNCHANGED <<vars, asked>>

(* unfreeze_wallet with Err(InsufficientSignatures): nothing is stored.     *)
(* Only the history notes that the signer called.                           *)
Refused(a) ==
    /\ a \in Signers
    /\ FrozenNow
    /\ ~AllOwners(unfreezeSigs \cup {a})
    /\ asked' = asked \cup {a}
    /\ UNCHANGED <<vars, wasm, version, upgradeSigs>>

UpgradeInit ==
    /\ Init
    /\ wasm = InitWasm
    /\ version = CURRENT_VERSION
    /\ upgradeSigs = {}
    /\ asked = {}

(* What the wallet does after an upgrade is up to the new code.             *)
UpgradeNext ==
    /\ wasm = InitWasm
    /\ \/ /\ Next
          /\ UNCHANGED <<wasm, version>>
          /\ upgradeSigs' = IF now' = now THEN upgradeSigs ELSE {}
          /\ asked' = IF now' = now /\ owners' = owners /\ frozen' = frozen
                      THEN asked ELSE {}
       \/ \E a \in Address : Refused(a) \/ \E hash \in Wasm : Upgrade(a, hash)

UpgradeSpec == UpgradeInit /\ [][UpgradeNext]_safeVars

(***************************************************************************)
(* Properties                                                              *)
(***************************************************************************)
(* freeze_wallet, unfreeze_wallet and upgrade keep no signature beyond the  *)
(* call that made it: a failed call takes its own back, a successful one    *)
(* clears the owners'.  Hence no two callers ever act together.  (An empty  *)
(* list of owners, which time_lock_recovery accepts, breaks this:           *)
(* unfreeze_wallet then succeeds and leaves its caller's signature behind.) *)
ListsNameSomeone == \A list \in OwnerLists : Entries(list, Address) > 0
NoConsentSurvives ==
    ListsNameSomeone => freezeSigs = {} /\ unfreezeSigs = {} /\ upgradeSigs = {}

(* "Unfreeze: All owners required" (docs/contracts.md:150): when every      *)
(* owner asked in one ledger, the wallet is no longer frozen.               *)
UnanimousUnfreeze == ~(FrozenNow /\ OwnerSet \subseteq asked)
=============================================================================
