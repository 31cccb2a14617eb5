------------------------------- MODULE Vault -------------------------------
(***************************************************************************)
(* What every custody component of the repository promises, whatever its   *)
(* approval rule: requests to pay are filed once and never rewritten, each *)
(* is settled at most once, a settled request moved exactly its amount out *)
(* of the account it names, and money leaves in no other way.              *)
(***************************************************************************)
EXTENDS Integers

CONSTANTS
    Account,    \* the accounts (token contracts) money is held in
    Request     \* records with the fields asset and amount

VARIABLES
    filed,      \* a function from the ids of the requests filed to Request
    settled,    \* the ids of the requests that were settled
    funds       \* [Account -> Nat], what is still held

vaultVars == <<filed, settled, funds>>

VaultInit ==
    /\ filed = <<>>
    /\ settled = {}
    /\ funds \in [Account -> Nat]

(* A request for nothing is settled without moving money.                  *)
Moves(r) == r.amount > 0

Pay(r) ==
    \/ ~Moves(r) /\ UNCHANGED funds
    \/ /\ Moves(r)
       /\ r.asset \in Account
       /\ funds[r.asset] >= r.amount
       /\ funds' = [funds EXCEPT ![r.asset] = @ - r.amount]

Filed(id, r) ==
    /\ id \notin DOMAIN filed
    /\ r \in Request
    /\ filed' = [k \in DOMAIN filed \cup {id} |-> IF k = id THEN r ELSE filed[k]]

File(id) == Filed(id, filed'[id]) /\ UNCHANGED <<settled, funds>>

FileAndSettle(id) ==
    /\ Filed(id, filed'[id])
    /\ settled' = settled \cup {id}
    /\ Pay(filed'[id])

Settle(id) ==
    /\ id \in DOMAIN filed
    /\ id \notin settled
    /\ settled' = settled \cup {id}
    /\ Pay(filed[id])
    /\ UNCHANGED filed

Receive ==
    /\ funds' \in [Account -> Nat]
    /\ \A a \in Account : funds'[a] >= funds[a]
    /\ UNCHANGED <<filed, settled>>

VaultNext ==
    \/ \E id \in DOMAIN filed' : File(id) \/ FileAndSettle(id) \/ Settle(id)
    \/ Receive

VaultSpec == VaultInit /\ [][VaultNext]_vaultVars
=============================================================================
