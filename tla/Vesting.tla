------------------------------ MODULE Vesting ------------------------------
(***************************************************************************)
(* contracts/soroban/src/vesting.rs: an amount that vests linearly after a *)
(* cliff, paid out on release, in tranches if milestones are set, and      *)
(* revocable by its admin.                                                 *)
(***************************************************************************)
EXTENDS Integers

CONSTANTS
    Schedules,      \* records total, start, cliff, duration, revocable, milestone
    MaxTime

VARIABLES
    now,
    schedule,       \* the part of SCHEDULE that never changes
    released, revoked, milestoneMet,
    returned,       \* history: what revoke gave back to the admin
    confirmed,      \* history: milestones that were newly marked as met
    vault           \* the contract's balance of the token

vars == <<now, schedule, released, revoked, milestoneMet, returned, confirmed, vault>>

(* What initialize checks.                                                  *)
Valid(s) == s.duration > 0 /\ s.total > 0 /\ s.cliff <= s.duration

Init ==
    /\ now = 0
    /\ schedule \in {s \in Schedules : Valid(s)}
    /\ released = 0
    /\ revoked = FALSE
    /\ milestoneMet = FALSE
    /\ returned = 0
    /\ confirmed = 0
    /\ vault = schedule.total

Tranched == schedule.milestone > 0

Vested ==
    LET elapsed == now - schedule.start IN
    IF elapsed < schedule.cliff THEN 0
    ELSE IF elapsed >= schedule.duration THEN schedule.total
    ELSE (schedule.total * elapsed) \div schedule.duration

Least(m, n) == IF m < n THEN m ELSE n

Release ==
    LET due == Vested - released
        payout == IF Tranched THEN Least(due, schedule.milestone) ELSE due
    IN /\ ~revoked
       /\ now >= schedule.start + schedule.cliff
       /\ due > 0
       /\ Tranched => milestoneMet
       /\ vault >= payout
       /\ released' = released + payout
       /\ milestoneMet' = (milestoneMet /\ ~Tranched)
       /\ vault' = vault - payout
       /\ UNCHANGED <<now, schedule, revoked, returned, confirmed>>

SetMilestoneMet ==
    /\ milestoneMet' = TRUE
    /\ confirmed' = IF milestoneMet THEN confirmed ELSE confirmed + 1
    /\ UNCHANGED <<now, schedule, released, revoked, returned, vault>>

(* Pays what has vested, milestones or not, and returns the rest.           *)
Revoke ==
    /\ schedule.revocable
    /\ ~revoked
    /\ released' = IF Vested > released THEN Vested ELSE released
    /\ returned' = schedule.total - released'
    /\ vault >= (released' - released) + returned'
    /\ vault' = vault - (released' - released) - returned'
    /\ revoked' = TRUE
    /\ UNCHANGED <<now, schedule, milestoneMet, confirmed>>

Tick ==
    /\ now < MaxTime
    /\ now' = now + 1
    /\ UNCHANGED <<schedule, released, revoked, milestoneMet, returned, confirmed, vault>>

Next == Release \/ SetMilestoneMet \/ Revoke \/ Tick

Spec == Init /\ [][Next]_vars

(* Whatever is released and revoked in whatever order, the beneficiary has  *)
(* no more than what vested, a revocation leaves nothing behind, and the    *)
(* amount is always split between beneficiary, admin and contract.          *)
PaidAsVested ==
    /\ released \in 0..Vested
    /\ vault = IF revoked THEN 0 ELSE schedule.total - released
    /\ released + returned + vault = schedule.total

(* "each release requires admin to set milestone_met" (vesting.rs:31): one  *)
(* confirmation pays for one tranche, until a revocation pays the rest.     *)
TranchePerMilestone ==
    Tranched /\ ~revoked =>
        released + (IF milestoneMet THEN schedule.milestone ELSE 0)
            <= schedule.milestone * confirmed
=============================================================================
