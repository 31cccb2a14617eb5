------------------------------- MODULE Oracle -------------------------------
(***************************************************************************)
(* contracts/soroban/src/oracle.rs: trusted providers submit prices of an  *)
(* asset; once enough have, every submission sets the feed to the median   *)
(* of all stored submissions, unless they deviate too much.  One asset;    *)
(* the timestamps and decimals, which the aggregation ignores, are left    *)
(* out.                                                                    *)
(***************************************************************************)
EXTENDS Integers, FiniteSets, FiniteSetsExt

CONSTANTS
    Provider,
    Prices,             \* prices submitted
    min_providers, max_deviation_bps,
    NoPrice

VARIABLES
    providers,
    submissions,        \* SUBMITS: the last price of each submitter, or NoPrice
    feed, fallback

vars == <<providers, submissions, feed, fallback>>

Submitted(sub) == {p \in Provider : sub[p] # NoPrice}

Init ==
    /\ providers = {}
    /\ submissions = [p \in Provider |-> NoPrice]
    /\ feed = NoPrice
    /\ fallback = NoPrice

AddProvider(p) ==
    /\ p \notin providers
    /\ providers' = providers \cup {p}
    /\ UNCHANGED <<submissions, feed, fallback>>

(* What a removed provider submitted stays stored.                          *)
RemoveProvider(p) ==
    /\ p \in providers
    /\ providers' = providers \ {p}
    /\ UNCHANGED <<submissions, feed, fallback>>

(* The element n / 2 of the n sorted prices.                                *)
IsMedian(m, sub) ==
    LET S == Submitted(sub)
        below == Cardinality({p \in S : sub[p] < m})
        upTo == Cardinality({p \in S : sub[p] <= m})
    IN Cardinality(S) \div 2 \in below..(upTo - 1)

Agree(m, sub) ==
    LET prices == {sub[p] : p \in Submitted(sub)}
    IN ((Max(prices) - Min(prices)) * 10000) \div m <= max_deviation_bps

(* A submission that makes the prices deviate is an Err: it is not stored.  *)
SubmitPrice(p, price) ==
    LET sub == [submissions EXCEPT ![p] = price] IN
    /\ p \in providers
    /\ price > 0
    /\ submissions' = sub
    /\ \/ /\ Cardinality(Submitted(sub)) >= min_providers
          /\ \E m \in Prices : IsMedian(m, sub) /\ Agree(m, sub) /\ feed' = m
       \/ /\ Cardinality(Submitted(sub)) < min_providers
          /\ UNCHANGED feed
    /\ UNCHANGED <<providers, fallback>>

SetFallback(price) ==
    /\ price > 0
    /\ fallback' = price
    /\ UNCHANGED <<providers, submissions, feed>>

Next ==
    \/ \E p \in Provider : AddProvider(p) \/ RemoveProvider(p)
    \/ \E p \in Provider, price \in Prices : SubmitPrice(p, price)
    \/ \E price \in Prices : SetFallback(price)

Spec == Init /\ [][Next]_vars

(* The stored submissions agree at all times once there are enough of them, *)
(* and the feed is their median: no refused or partial update leaves the    *)
(* two apart, though submitters come and go.                                *)
FeedIsAgreed ==
    IF Cardinality(Submitted(submissions)) >= Max({1, min_providers})
    THEN feed # NoPrice /\ IsMedian(feed, submissions) /\ Agree(feed, submissions)
    ELSE feed = NoPrice

(* No submission moves the feed by more than the deviation allowed before   *)
(* and after it: all submissions but one stay, and both medians are within  *)
(* the deviation of those.                                                  *)
FeedMovesSlowly ==
    feed # NoPrice /\ Cardinality(Submitted(submissions)) > 1 =>
        LET step == IF feed' > feed THEN feed' - feed ELSE feed - feed'
        IN step * 10000 < (max_deviation_bps + 1) * (feed + feed')
=============================================================================
