--------------------------- MODULE Transactions ----------------------------
(***************************************************************************)
(* TransactionController.ts, TransactionService.ts and RelayService.ts:    *)
(* one transaction of a wallet, the intents to sign it, and its relay when *)
(* the threshold is met, with the wallets of Wallets.tla changing under    *)
(* it.  Between two calls of the database other requests run.              *)
(***************************************************************************)
EXTENDS Wallets

CONSTANTS
    Call,               \* requests about the transaction
    Faults,             \* whether the database and the process may fail
    Fragments, Blank,   \* what is sent as a signature: text, or none or an empty one
    NoTx, NoSignature,
    MaxRelays           \* bound on the submissions

VARIABLES
    tx,                 \* its row: wallet, signatures, executed, deleted, edited, comments
    signed,             \* rows of signatures: the fragment of each user
    calls,
    relays              \* history: each submission, and what its row and its rows of signatures were

txVars == <<tx, signed, calls, relays>>

Signers == {u \in User : signed[u] # NoSignature}

TransactionsInit ==
    /\ tx = NoTx
    /\ signed = [u \in User |-> NoSignature]
    /\ calls = [c \in Call |-> Idle]
    /\ relays = <<>>

Goes(c, rec) == calls' = [calls EXCEPT ![c] = rec]
Ends(c) == Goes(c, Idle)
At(c, step) == calls[c] # Idle /\ calls[c].step = step

(* submitTransaction: isUserSigner is asked, of the wallet's id and in      *)
(* vain; the row is created whoever the user is.                            *)
SubmitTransaction(w) ==
    /\ tx = NoTx
    /\ w \in Rows
    /\ tx' = [wallet |-> w, signatures |-> 0, executed |-> FALSE, deleted |-> FALSE,
              edited |-> FALSE, comments |-> FALSE]
    /\ UNCHANGED <<signed, calls, relays, walletVars>>

(* isUserSigner: by the owners' addresses, whether or not the transaction   *)
(* or the wallet is deleted.                                                *)
IsUserSigner(u) == tx # NoTx /\ u \in wallets[tx.wallet].set.owners

-----------------------------------------------------------------------------
(* updateMetadata, addComment, deleteTransaction: check, then write.        *)
Begin(c, u, op) ==
    /\ calls[c] = Idle
    /\ IsUserSigner(u)
    /\ Goes(c, [step |-> op])
    /\ UNCHANGED <<tx, signed, relays, walletVars>>

UpdateMetadata(c, u) == Begin(c, u, "update")
Comment(c, u) == Begin(c, u, "comment")
DeleteTransaction(c, u) == Begin(c, u, "delete")

UpdateTransactionMetadata(c) ==
    /\ At(c, "update")
    /\ tx' = IF tx.deleted THEN tx ELSE [tx EXCEPT !.edited = TRUE]
    /\ Ends(c)
    /\ UNCHANGED <<signed, relays, walletVars>>

AddComment(c) ==
    /\ At(c, "comment")
    /\ tx' = [tx EXCEPT !.comments = TRUE]
    /\ Ends(c)
    /\ UNCHANGED <<signed, relays, walletVars>>

SoftDeleteTransaction(c) ==
    /\ At(c, "delete")
    /\ tx' = [tx EXCEPT !.deleted = TRUE]
    /\ Ends(c)
    /\ UNCHANGED <<signed, relays, walletVars>>

-----------------------------------------------------------------------------
(* intentToSign, recordIntentToSign: any user's signature is upserted (none *)
(* sent leaves what is there), owner or not; all are counted, and the count *)
(* is written.                                                              *)
RecordIntentToSign(c, u, fragment) ==
    /\ calls[c] = Idle
    /\ tx # NoTx
    /\ signed' = [signed EXCEPT ![u] = fragment]
    /\ Goes(c, [step |-> "upserted"])
    /\ UNCHANGED <<tx, relays, walletVars>>

MutTally(c) ==
    /\ At(c, "upserted")
    /\ Goes(c, [step |-> "counted", count |-> tx.signatures + 1])
    /\ UNCHANGED <<tx, signed, relays, walletVars>>
CountSignatures(c) ==
    /\ At(c, "upserted")
    /\ Goes(c, [step |-> "counted", count |-> Cardinality(Signers)])
    /\ UNCHANGED <<tx, signed, relays, walletVars>>

WriteCount(c) ==
    /\ At(c, "counted")
    /\ tx' = [tx EXCEPT !.signatures = calls[c].count]
    /\ Goes(c, [step |-> "written"])
    /\ UNCHANGED <<signed, relays, walletVars>>

(* checkAndRelayTransaction: the row decides, by the count it has; the      *)
(* submission carries the fragments that are not blank.                     *)
Sent == {u \in Signers : signed[u] # Blank}
Ready == ~tx.executed /\ ~tx.deleted /\ tx.signatures >= wallets[tx.wallet].set.threshold
CheckAndRelayTransaction(c) ==
    /\ At(c, "written")
    /\ IF Ready
         THEN Goes(c, [step |-> "relaying", users |-> Signers, sent |-> Sent,
                       threshold |-> wallets[tx.wallet].set.threshold])
         ELSE Ends(c)
    /\ UNCHANGED <<tx, signed, relays, walletVars>>

SubmitMultisigTransaction(c, success) ==
    /\ At(c, "relaying")
    /\ Len(relays) < MaxRelays
    /\ relays' = Append(relays, [users |-> calls[c].users, sent |-> calls[c].sent,
                                 threshold |-> calls[c].threshold])
    /\ IF success THEN Goes(c, [step |-> "submitted"]) ELSE Ends(c)
    /\ UNCHANGED <<tx, signed, walletVars>>

MarkExecuted(c) ==
    /\ At(c, "submitted")
    /\ tx' = [tx EXCEPT !.executed = TRUE]
    /\ Ends(c)
    /\ UNCHANGED <<signed, relays, walletVars>>

(* A call of the database fails, or the process ends.                       *)
CallFails(c) ==
    /\ Faults
    /\ calls[c] # Idle
    /\ Ends(c)
    /\ UNCHANGED <<tx, signed, relays, walletVars>>

TransactionsNext ==
    \/ \E w \in Wallet : SubmitTransaction(w)
    \/ \E c \in Call :
          \/ \E u \in User : UpdateMetadata(c, u) \/ Comment(c, u) \/ DeleteTransaction(c, u)
          \/ UpdateTransactionMetadata(c) \/ AddComment(c) \/ SoftDeleteTransaction(c)
          \/ \E u \in User : \E f \in Fragments \cup {Blank} \cup ({signed[u]} \ {NoSignature}) :
                RecordIntentToSign(c, u, f)
          \/ CountSignatures(c) \/ WriteCount(c) \/ CheckAndRelayTransaction(c)
          \/ \E success \in BOOLEAN : SubmitMultisigTransaction(c, success)
          \/ MarkExecuted(c) \/ CallFails(c)

Init == WalletsInit /\ TransactionsInit
Next == (WalletsNext /\ UNCHANGED txVars) \/ TransactionsNext
Spec == Init /\ [][Next]_<<walletVars, txVars>>

-----------------------------------------------------------------------------
(* However many counts are written late or twice, a transaction is relayed  *)
(* only after as many different users put in an intent to sign it as the    *)
(* wallet's threshold demanded when its row was read.  Nobody asks whether  *)
(* they own the wallet, nor whether they sent a signature: the submission   *)
(* may carry fewer than the threshold.                                      *)
RelayedOnIntents ==
    \A i \in DOMAIN relays : Cardinality(relays[i].users) >= relays[i].threshold

(* TransactionController.ts:182 "Relaying if threshold is met": once nobody *)
(* is signing any more, a transaction with signatures of enough users was   *)
(* submitted.                                                               *)
RelayedWhenMet ==
    ( /\ tx # NoTx /\ ~tx.deleted
      /\ \A c \in Call : calls[c] = Idle
      /\ Cardinality(Sent) >= wallets[tx.wallet].set.threshold ) => relays # <<>>
=============================================================================
