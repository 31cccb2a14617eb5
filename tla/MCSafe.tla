-------------------------------- MODULE MCSafe --------------------------------
(***************************************************************************)
(* Small wallets for TLC.  A run looks at the signers and transactions     *)
(* alone, at the proposals beside them, or at freezes and upgrades; what   *)
(* it does not look at rests.  Times are scaled: one unit is one ledger    *)
(* and one second alike.                                                   *)
(***************************************************************************)
EXTENDS SafeProposals, SafeUpgrade

CONSTANTS alice, bob, carol, rescue, usdc, account, v1, v2

Pair == {alice, bob}
OneTwoTwo == [low |-> 1, medium |-> 2, high |-> 2]
AllTwo == [low |-> 2, medium |-> 2, high |-> 2]

(* Owner lists a recovery may install: an owner twice, and beside it the    *)
(* rescuer alone or everyone; or one owner, once.                           *)
AliceTwice == [a \in Address |-> IF a = alice THEN 2 ELSE 0]
RescueOrTwice == {[a \in Address |-> IF a = rescue THEN 1 ELSE 0], AliceTwice}
AllOrTwice == {[a \in Address |-> 1], AliceTwice}
AliceOnce == {[a \in Address |-> IF a = alice THEN 1 ELSE 0]}

AllParts == <<vars, proposals, upgradeVars>>
PartsInit == AllInit /\ UpgradeInit

SigningSpec == PartsInit /\ [][Next /\ UNCHANGED <<proposals, upgradeVars>>]_AllParts
ProposingSpec == PartsInit /\ [][AllNext /\ UNCHANGED upgradeVars]_AllParts
FreezingSpec == PartsInit /\ [][UpgradeNext /\ UNCHANGED proposals]_AllParts
=============================================================================
