------------------------------- MODULE Escrow -------------------------------
(***************************************************************************)
(* The escrow of contracts/soroban/src/escrow.rs: a depositor's money for  *)
(* a beneficiary, with arbitrators for disputes.  A step is an invocation  *)
(* that returned Ok; initialize has run, with any of the Terms.            *)
(***************************************************************************)
EXTENDS Integers, FiniteSets

CONSTANTS
    Arbitrators,
    Terms,          \* records amount, feeBps, releaseAfter, required
    MaxTime         \* bound on the ledgers closed

VARIABLES
    now,
    terms,          \* what initialize stored for good
    state,          \* ESCROW.state
    votes,          \* ESCROW.release_votes and refund_votes
    ballot,         \* VOTED; what each arbitrator voted is a history field
    held,           \* the contract's balance of the token
    paid            \* history: what it paid to whom

vars == <<now, terms, state, votes, ballot, held, paid>>

Award == {"release", "refund"}
Party == {"depositor", "beneficiary", "collector"}

Fee == (terms.amount * terms.feeBps) \div 10000

Init ==
    /\ now = 0
    /\ terms \in Terms
    /\ state = "Pending"
    /\ votes = [w \in Award |-> 0]
    /\ ballot = [a \in Arbitrators |-> "none"]
    /\ held = 0
    /\ paid = [p \in Party |-> 0]

(* pay_out: a transfer of a negative net amount panics.                     *)
PayOut(to) ==
    /\ Fee <= terms.amount
    /\ held >= terms.amount
    /\ held' = held - terms.amount
    /\ paid' = [paid EXCEPT !["collector"] = @ + Fee, ![to] = @ + (terms.amount - Fee)]

Fund ==
    /\ state = "Pending"
    /\ state' = "Funded"
    /\ held' = held + terms.amount
    /\ UNCHANGED <<now, terms, votes, ballot, paid>>

Release(caller) ==
    /\ state = "Funded"
    /\ caller = "depositor" \/ now >= terms.releaseAfter
    /\ PayOut("beneficiary")
    /\ state' = "Released"
    /\ UNCHANGED <<now, terms, votes, ballot>>

Dispute ==
    /\ state = "Funded"
    /\ now < terms.releaseAfter
    /\ state' = "Disputed"
    /\ UNCHANGED <<now, terms, votes, ballot, held, paid>>

(* The count for a release is looked at first, whatever the vote was for.   *)
Tally(v) ==
    \/ v["release"] >= terms.required /\ PayOut("beneficiary") /\ state' = "Released"
    \/ /\ v["release"] < terms.required
       /\ v["refund"] >= terms.required
       /\ PayOut("depositor")
       /\ state' = "Refunded"
    \/ \A w \in Award : v[w] < terms.required /\ UNCHANGED <<state, held, paid>>

Arbitrate(a, w) ==
    /\ state = "Disputed"
    /\ ballot[a] = "none"
    /\ ballot' = [ballot EXCEPT ![a] = w]
    /\ votes' = [votes EXCEPT ![w] = @ + 1]
    /\ Tally(votes')
    /\ UNCHANGED <<now, terms>>

MutRefundUnrecorded ==
    /\ state = "Funded"
    /\ now >= terms.releaseAfter
    /\ PayOut("depositor")
    /\ UNCHANGED <<now, terms, state, votes, ballot>>
RefundExpired ==
    /\ state = "Funded"
    /\ now >= terms.releaseAfter
    /\ PayOut("depositor")
    /\ state' = "Refunded"
    /\ UNCHANGED <<now, terms, votes, ballot>>

Tick ==
    /\ now < MaxTime
    /\ now' = now + 1
    /\ UNCHANGED <<terms, state, votes, ballot, held, paid>>

Next ==
    \/ Fund \/ Dispute \/ RefundExpired \/ Tick
    \/ \E caller \in {"depositor", "anyone"} : Release(caller)
    \/ \E a \in Arbitrators, w \in Award : Arbitrate(a, w)

Spec == Init /\ [][Next]_vars

(* Through deadlines, disputes and votes the escrow holds the whole amount  *)
(* or has paid it out, once, to one of the two sides: the state it reports  *)
(* is where the money is.                                                   *)
SettledOnce ==
    LET net(s) == IF state = s THEN terms.amount - Fee ELSE 0 IN
    /\ held = IF state \in {"Funded", "Disputed"} THEN terms.amount ELSE 0
    /\ paid = [depositor |-> net("Refunded"), beneficiary |-> net("Released"),
               collector |-> IF state \in {"Released", "Refunded"} THEN Fee ELSE 0]

(* arbitrate: a dispute ends with an award that as many different           *)
(* arbitrators voted for as the terms ask, and the other side was short of  *)
(* it.  (With required_votes = 0 the first vote releases, even one against.)*)
VotedFor(w) == Cardinality({a \in Arbitrators : ballot[a] = w})
AwardHasItsVotes ==
    state = "Disputed" /\ state' # state /\ terms.required > 0 =>
        LET won == IF state' = "Released" THEN "release" ELSE "refund" IN
        \A w \in Award : VotedFor(w)' >= terms.required <=> w = won
=============================================================================
