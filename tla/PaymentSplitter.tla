-------------------------- MODULE PaymentSplitter --------------------------
(***************************************************************************)
(* contracts/soroban/src/payment_splitter.rs: deposits shared out among    *)
(* recipients in proportion to their shares, rounded down, on withdrawal.  *)
(***************************************************************************)
EXTENDS Integers, Sequences, SequencesExt, FiniteSetsExt

CONSTANTS
    Splits,         \* sequences of records address, shares; an address may repeat
    ShareWord,      \* 2^32: the total of the shares is a u32 and wraps
    Minima,         \* min_withdrawal
    Payments, MaxDeposited

VARIABLES
    split, minimum, \* RECIPIENTS and CONFIG.min_withdrawal
    locked,
    deposited,      \* BALANCE: all that was ever deposited
    withdrawn,
    pot             \* the contract's balance of the token

vars == <<split, minimum, locked, deposited, withdrawn, pot>>

(* What initialize checks.                                                  *)
Valid(s) == s # <<>> /\ \A i \in DOMAIN s : s[i].shares > 0

Recipients == {split[i].address : i \in DOMAIN split}

(* withdraw takes the first entry of an address, total_shares counts all;   *)
(* a division by a total of 0 panics.                                       *)
Shares(r) == SelectInSeq(split, LAMBDA e : e.address = r)
SumOfShares == MapThenSumSet(LAMBDA i : split[i].shares, DOMAIN split)
TotalShares == SumOfShares % ShareWord

Entitled(r) == (deposited * split[Shares(r)].shares) \div TotalShares

Init ==
    /\ split \in {s \in Splits : Valid(s)}
    /\ minimum \in Minima
    /\ locked = FALSE
    /\ deposited = 0
    /\ withdrawn = [r \in Recipients |-> 0]
    /\ pot = 0

(* transfer panics on a negative amount.                                    *)
Deposit(n) ==
    /\ n >= 0
    /\ deposited + n <= MaxDeposited
    /\ deposited' = deposited + n
    /\ pot' = pot + n
    /\ UNCHANGED <<split, minimum, locked, withdrawn>>

Withdraw(r) ==
    LET available == Entitled(r) - withdrawn[r] IN
    /\ ~locked
    /\ TotalShares # 0
    /\ available > 0
    /\ available >= minimum
    /\ pot >= available
    /\ withdrawn' = [withdrawn EXCEPT ![r] = @ + available]
    /\ pot' = pot - available
    /\ UNCHANGED <<split, minimum, locked, deposited>>

SetLocked(b) ==
    /\ locked' = b
    /\ UNCHANGED <<split, minimum, deposited, withdrawn, pot>>

Next ==
    \/ \E n \in Payments : Deposit(n)
    \/ \E r \in Recipients : Withdraw(r)
    \/ \E b \in BOOLEAN : SetLocked(b)

Spec == Init /\ [][Next]_vars

(* Withdrawals at any time and in any order never use up what another       *)
(* recipient may still withdraw: the balance covers all that is pending,    *)
(* and nobody has withdrawn more than the share of the deposits.  (Shares   *)
(* whose total wraps, which initialize accepts, break this.)                *)
PendingIsCovered ==
    SumOfShares < ShareWord =>
        /\ \A r \in Recipients : withdrawn[r] <= Entitled(r)
        /\ MapThenSumSet(LAMBDA r : Entitled(r) - withdrawn[r], Recipients) <= pot
=============================================================================
