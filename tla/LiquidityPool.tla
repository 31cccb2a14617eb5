--------------------------- MODULE LiquidityPool ---------------------------
(***************************************************************************)
(* contracts/soroban/src/liquidity_pool.rs: a constant-product pool of two *)
(* tokens.  The fee counters and the price each provider entered at, which *)
(* decide nothing, are left out.  swap takes any token that is not token_a *)
(* for token_b; only these two are tried.                                  *)
(***************************************************************************)
EXTENDS Integers

CONSTANTS
    Lp,             \* providers of liquidity
    FeeBps,
    Sums, Floors,   \* amounts, and the least a caller accepts in return
    MaxReserve      \* bound

VARIABLES
    poolFee,        \* CONFIG.fee_bps
    reserve,        \* STATE.reserve_a and reserve_b
    totalShares,
    shares

vars == <<poolFee, reserve, totalShares, shares>>

Side == {"a", "b"}
Other(k) == IF k = "a" THEN "b" ELSE "a"

(* sqrt: Newton's iteration ends at the integer square root.                *)
Sqrt(n) == CHOOSE r \in 0..n : r * r <= n /\ n < (r + 1) * (r + 1)

Init ==
    /\ poolFee \in FeeBps
    /\ reserve = [k \in Side |-> 0]
    /\ totalShares = 0
    /\ shares = [p \in Lp |-> 0]

MutMintLarger(n) ==
    IF totalShares = 0 THEN Sqrt(n["a"] * n["b"])
    ELSE LET part(k) == (n[k] * totalShares) \div reserve[k]
         IN IF part("a") > part("b") THEN part("a") ELSE part("b")
Minted(n) ==
    IF totalShares = 0 THEN Sqrt(n["a"] * n["b"])
    ELSE LET part(k) == (n[k] * totalShares) \div reserve[k]
         IN IF part("a") < part("b") THEN part("a") ELSE part("b")

AddLiquidity(p, n, least) ==
    /\ \A k \in Side : n[k] > 0 /\ reserve[k] + n[k] <= MaxReserve
    /\ Minted(n) >= least
    /\ reserve' = [k \in Side |-> reserve[k] + n[k]]
    /\ totalShares' = totalShares + Minted(n)
    /\ shares' = [shares EXCEPT ![p] = @ + Minted(n)]
    /\ UNCHANGED poolFee

RemoveLiquidity(p, s, least) ==
    LET back == [k \in Side |-> (s * reserve[k]) \div totalShares] IN
    /\ s \in 1..shares[p]
    /\ \A k \in Side : back[k] >= least
    /\ reserve' = [k \in Side |-> reserve[k] - back[k]]
    /\ totalShares' = totalShares - s
    /\ shares' = [shares EXCEPT ![p] = @ - s]
    /\ UNCHANGED poolFee

(* The fee stays in the reserve of the token that came in.                  *)
Swap(k, n, least) ==
    LET into == n - (n * poolFee) \div 10000
        out == (reserve[Other(k)] * into) \div (reserve[k] + into)
    IN /\ n > 0
       /\ reserve["a"] # 0 /\ reserve["b"] # 0
       /\ out >= least
       /\ reserve[k] + n <= MaxReserve
       /\ reserve' = [reserve EXCEPT ![k] = @ + n, ![Other(k)] = @ - out]
       /\ UNCHANGED <<poolFee, totalShares, shares>>

Next ==
    \/ \E p \in Lp, least \in Floors :
         \/ \E n \in [Side -> Sums] : AddLiquidity(p, n, least)
         \/ \E s \in 1..totalShares : RemoveLiquidity(p, s, least)
    \/ \E k \in Side, n \in Sums, least \in Floors : Swap(k, n, least)

Spec == Init /\ [][Next]_vars

(* No sequence of deposits, withdrawals and swaps, with all their rounding, *)
(* makes a share worth less: the product of the reserves per squared share  *)
(* never falls, and shares and reserves come and go together.  (A fee above *)
(* the whole, which initialize accepts, breaks this: what is left of a swap *)
(* is then negative, and a large one takes all the pool has of one token.)  *)
Product == reserve["a"] * reserve["b"]
ShareKeepsItsValue ==
    /\ totalShares > 0 /\ totalShares' > 0 =>
          Product' * totalShares * totalShares >= Product * totalShares' * totalShares'
    /\ totalShares' > 0 <=> Product' > 0
=============================================================================
