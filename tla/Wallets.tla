------------------------------ MODULE Wallets ------------------------------
(***************************************************************************)
(* WalletController.ts and WalletService.ts: the wallets of the database   *)
(* and the contracts they stand for.  A handler checks that the user has   *)
(* the wallet, tells the contract (StellarService.ts only logs it), then   *)
(* writes the row; requests overlap between the three.  Updates and bulk   *)
(* calls write rows and tell no contract.  The handlers are modelled on    *)
(* the ids the database gives, which the validators of routes/wallet.ts    *)
(* refuse.  Import and export are left out, as they only  *)
(* fail (the route hands over an object where the service parses a string; *)
(* JSON.stringify meets a BigInt), and so are the pages and the balance,   *)
(* which change nothing.                                                   *)
(***************************************************************************)
EXTENDS Integers, Sequences, FiniteSets

CONSTANTS
    User, Address,      \* users; addresses of owners, the users' among them
    Wallet, Contract,   \* ids of rows, addresses of contracts
    Request,
    Thresholds,         \* the route allows 1..10
    Recoveries,         \* recovery address and delay
    Names, DefaultName,
    NoRow, Idle,
    MaxTold             \* bound on the calls of one contract

VARIABLES
    wallets,            \* rows: by, contract, name, active, and the settings
    told,               \* history: the settings each contract was told, in order
    past,               \* history: the settings of a row that were written past its contract
    requests

walletVars == <<wallets, told, past, requests>>

AllSettings == {"threshold", "owners", "recovery"}

Settings(t, o, v) == [threshold |-> t, owners |-> o, recovery |-> v]
Rows == {w \in Wallet : wallets[w] # NoRow}
Undeployed == {c \in Contract : told[c] = <<>>}
Last(c) == told[c][Len(told[c])]

WalletsInit ==
    /\ wallets = [w \in Wallet |-> NoRow]
    /\ told = [c \in Contract |-> <<>>]
    /\ past = [w \in Wallet |-> {}]
    /\ requests = [r \in Request |-> Idle]

(* getWalletById with a user.                                               *)
GetWalletById(w, u) == w \in Rows /\ wallets[w].active /\ wallets[w].by = u

Named(c) == \E w \in Rows : wallets[w].contract = c

(* prisma.wallet.create: contractAddress is unique.                         *)
Insert(u, c, name, s, untold) ==
    /\ ~Named(c)
    /\ \E w \in Wallet \ Rows :
          /\ wallets' = [wallets EXCEPT ![w] =
                 [by |-> u, contract |-> c, name |-> name, active |-> TRUE, set |-> s]]
          /\ past' = [past EXCEPT ![w] = untold]

-----------------------------------------------------------------------------
(* createWallet: the contract is deployed, then the row inserted.  The      *)
(* answer is 500 either way, as the row holds a BigInt.                     *)
DeployMultisigContract(r, u, s) ==
    /\ requests[r] = Idle
    /\ \E c \in Undeployed :
          /\ ~Named(c)
          /\ told' = [told EXCEPT ![c] = <<s>>]
          /\ requests' = [requests EXCEPT ![r] =
                             [step |-> "deployed", user |-> u, contract |-> c, arg |-> s]]
    /\ UNCHANGED <<wallets, past>>

CreateWallet(r) ==
    /\ requests[r] # Idle /\ requests[r].step = "deployed"
    /\ Insert(requests[r].user, requests[r].contract, DefaultName, requests[r].arg, {})
    /\ requests' = [requests EXCEPT ![r] = Idle]
    /\ UNCHANGED told

(* bulkCreateWallets: an address is made up, and no contract stands there.  *)
BulkCreateWallet(u, s) ==
    /\ \E c \in Undeployed : Insert(u, c, DefaultName, s, AllSettings)
    /\ UNCHANGED <<told, requests>>

(* updateWallet, of one request and of a bulk call: one conditional update  *)
(* with whatever columns the caller sends; the owners are another table.    *)
UpdateWallet(u, w, data) ==
    LET old == wallets[w]
        set == Settings(data.threshold, old.set.owners, data.recovery)
    IN  /\ GetWalletById(w, u)
        /\ data.contract = old.contract \/ ~Named(data.contract)
        /\ wallets' = [wallets EXCEPT ![w] =
               [by |-> data.by, contract |-> data.contract, name |-> data.name,
                active |-> data.active, set |-> set]]
        /\ past' = [past EXCEPT ![w] = @ \cup
               {s \in AllSettings : data.contract # old.contract \/ set[s] # old.set[s]}]
        /\ UNCHANGED <<told, requests>>

(* bulkDeleteWallets.                                                       *)
SoftDelete(u, w) ==
    /\ GetWalletById(w, u)
    /\ wallets' = [wallets EXCEPT ![w].active = FALSE]
    /\ UNCHANGED <<told, past, requests>>

-----------------------------------------------------------------------------
(* The four handlers of the settings: what they do to the settings, of the  *)
(* contract and then of the row.                                            *)
Applied(op, s) ==
    CASE "addOwner" \in DOMAIN op -> [s EXCEPT !.owners = @ \cup {op.addOwner}]
      [] "removeOwner" \in DOMAIN op -> [s EXCEPT !.owners = @ \ {op.removeOwner}]
      [] "updateThreshold" \in DOMAIN op -> [s EXCEPT !.threshold = op.updateThreshold]
      [] "updateRecoverySettings" \in DOMAIN op -> [s EXCEPT !.recovery = op.updateRecoverySettings]

Change(r, u, w, op) ==
    /\ requests[r] = Idle
    /\ GetWalletById(w, u)
    /\ requests' = [requests EXCEPT ![r] =
           [op |-> op, step |-> "checked", wallet |-> w, contract |-> wallets[w].contract]]
    /\ UNCHANGED <<wallets, told, past>>

AddOwner(r, u, w, a) == Change(r, u, w, [addOwner |-> a])
RemoveOwner(r, u, w, a) == Change(r, u, w, [removeOwner |-> a])
UpdateThreshold(r, u, w, t) == Change(r, u, w, [updateThreshold |-> t])
UpdateRecoverySettings(r, u, w, v) == Change(r, u, w, [updateRecoverySettings |-> v])

(* The contract the wallet had when it was checked; nobody answers at a     *)
(* made-up address, and nobody notices.                                     *)
TellContract(r) ==
    /\ requests[r] # Idle /\ requests[r].step = "checked"
    /\ LET contract == requests[r].contract
       IN  IF contract \in Undeployed THEN UNCHANGED told
           ELSE /\ Len(told[contract]) < MaxTold
                /\ told' = [told EXCEPT ![contract] =
                       Append(@, Applied(requests[r].op, Last(contract)))]
    /\ requests' = [requests EXCEPT ![r].step = "told"]
    /\ UNCHANGED <<wallets, past>>

MutRowFirst(r) ==
    /\ requests[r] # Idle /\ requests[r].step \in {"checked", "told"}
    /\ wallets' = [wallets EXCEPT ![requests[r].wallet].set = Applied(requests[r].op, @)]
    /\ requests' = [requests EXCEPT ![r] = Idle]
    /\ UNCHANGED <<told, past>>
(* The row is written by its id: nothing is checked again.                  *)
WriteSettings(r) ==
    /\ requests[r] # Idle /\ requests[r].step = "told"
    /\ wallets' = [wallets EXCEPT ![requests[r].wallet].set = Applied(requests[r].op, @)]
    /\ requests' = [requests EXCEPT ![r] = Idle]
    /\ UNCHANGED <<told, past>>

(* A call of the database fails, or the process ends: so does the request.  *)
RequestFails(r) ==
    /\ requests[r] # Idle
    /\ requests' = [requests EXCEPT ![r] = Idle]
    /\ UNCHANGED <<wallets, told, past>>

Columns == [by : User, contract : Contract, name : Names, active : BOOLEAN,
            threshold : Thresholds, recovery : Recoveries]
WalletsNext ==
    \E r \in Request :
        \/ \E u \in User :
              \/ \E t \in Thresholds, o \in (SUBSET Address) \ {{}}, v \in Recoveries :
                    \/ DeployMultisigContract(r, u, Settings(t, o, v))
                    \/ BulkCreateWallet(u, Settings(t, o, v))
              \/ \E w \in Wallet :
                    \/ \E a \in Address : AddOwner(r, u, w, a) \/ RemoveOwner(r, u, w, a)
                    \/ \E t \in Thresholds : UpdateThreshold(r, u, w, t)
                    \/ \E v \in Recoveries : UpdateRecoverySettings(r, u, w, v)
                    \/ \E data \in Columns : UpdateWallet(u, w, data)
                    \/ SoftDelete(u, w)
        \/ CreateWallet(r) \/ TellContract(r) \/ WriteSettings(r) \/ RequestFails(r)

-----------------------------------------------------------------------------
(* The database runs ahead of the chain only by a bulk creation and by an   *)
(* update that sends the setting or another contract: every other setting   *)
(* of a row was told to the contract of the row before, however these and   *)
(* the handlers of the settings overlap and fail.                           *)
RowsLagContracts ==
    \A w \in Rows :
        LET row == wallets[w].set
            history == {told[wallets[w].contract][i] : i \in DOMAIN told[wallets[w].contract]}
        IN  /\ "threshold" \in past[w] \/ \E s \in history : s.threshold = row.threshold
            /\ "recovery" \in past[w] \/ \E s \in history : s.recovery = row.recovery
            /\ "owners" \in past[w] \/ \A a \in row.owners : \E s \in history : a \in s.owners
=============================================================================
