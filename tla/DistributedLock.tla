--------------------------- MODULE DistributedLock ---------------------------
(***************************************************************************)
(* backend/src/services/DistributedLockService.ts: one key of Redis, and   *)
(* processes that run a function under it (withLock).  A process learns    *)
(* of a grant later than Redis makes it, renews from a timer that may be   *)
(* late, and may crash; the key expires by itself.  Time is relative: the  *)
(* lease and the timers count down.                                        *)
(***************************************************************************)
EXTENDS Integers, TLAPS

CONSTANTS
    Process,
    TTL,            \* ttlMs, in instants
    RENEWAL,        \* renewalMs, in instants
    NoOne,          \* the key is absent
    Nobody          \* the key holds a token no running process knows

ASSUME LockAssumption ==
    /\ TTL \in Nat \ {0}
    /\ RENEWAL \in Nat \ {0}
    /\ NoOne \notin Process /\ Nobody \notin Process /\ NoOne # Nobody

VARIABLES
    holder,         \* whose token the key holds
    lease,          \* instants until the key expires
    pc,             \* what each process does
    timer,          \* instants until its next renewal is due
    lapsed          \* history: the key expired while it held it

vars == <<holder, lease, pc, timer, lapsed>>

Phases == {"idle", "granted", "working", "releasing"}

TypeOK ==
    /\ holder \in Process \cup {NoOne, Nobody}
    /\ lease \in 0..TTL
    /\ pc \in [Process -> Phases]
    /\ timer \in [Process -> 0..RENEWAL]
    /\ lapsed \in [Process -> BOOLEAN]

Init ==
    /\ holder = NoOne
    /\ lease = 0
    /\ pc = [p \in Process |-> "idle"]
    /\ timer = [p \in Process |-> 0]
    /\ lapsed = [p \in Process |-> FALSE]

(* SET key token NX PX ttl, with a token of its own for every call.         *)
SetIfAbsent(p) ==
    /\ holder = NoOne
    /\ holder' = p
    /\ lease' = TTL

Acquire(p) ==
    /\ pc[p] = "idle"
    /\ SetIfAbsent(p)
    /\ pc' = [pc EXCEPT ![p] = "granted"]
    /\ lapsed' = [lapsed EXCEPT ![p] = FALSE]
    /\ UNCHANGED timer

(* The answer arrives: the renewal timer starts and the work begins.        *)
Begin(p) ==
    /\ pc[p] = "granted"
    /\ pc' = [pc EXCEPT ![p] = "working"]
    /\ timer' = [timer EXCEPT ![p] = RENEWAL]
    /\ UNCHANGED <<holder, lease, lapsed>>

(* The renewal script: PEXPIRE where the token still matches.               *)
PExpire(p) == lease' = IF holder = p THEN TTL ELSE lease

(* The timer fires, at its time or later.  Whether the renewal took effect, *)
(* found another token or threw, the work goes on and the timer stays.      *)
Renew(p) ==
    /\ pc[p] = "working"
    /\ timer[p] = 0
    /\ timer' = [timer EXCEPT ![p] = RENEWAL]
    /\ PExpire(p) \/ UNCHANGED lease
    /\ UNCHANGED <<holder, pc, lapsed>>

(* The function returns or throws; release stops the timer first.           *)
Finish(p) ==
    /\ pc[p] = "working"
    /\ pc' = [pc EXCEPT ![p] = "releasing"]
    /\ UNCHANGED <<holder, lease, timer, lapsed>>

MutDelete(p) == holder' = NoOne /\ lease' = 0
(* The release script: DEL where the token still matches.                   *)
DeleteOwn(p) ==
    IF holder = p
      THEN holder' = NoOne /\ lease' = 0
      ELSE UNCHANGED <<holder, lease>>

Release(p) ==
    /\ pc[p] = "releasing"
    /\ DeleteOwn(p)
    /\ pc' = [pc EXCEPT ![p] = "idle"]
    /\ UNCHANGED <<timer, lapsed>>

(* The process dies and another one starts in its place; release can also   *)
(* fail in the network, which leaves the key behind the same way.           *)
Crash(p) ==
    /\ pc[p] # "idle"
    /\ pc' = [pc EXCEPT ![p] = "idle"]
    /\ holder' = IF holder = p THEN Nobody ELSE holder
    /\ UNCHANGED <<lease, timer, lapsed>>

(* An instant passes; Redis drops a key whose time has come.                *)
Tick ==
    /\ lease' = IF lease = 0 THEN 0 ELSE lease - 1
    /\ timer' = [p \in Process |-> IF timer[p] = 0 THEN 0 ELSE timer[p] - 1]
    /\ IF lease = 1
         THEN /\ holder' = NoOne
              /\ lapsed' = [p \in Process |-> lapsed[p] \/ holder = p]
         ELSE UNCHANGED <<holder, lapsed>>
    /\ UNCHANGED pc

Next ==
    \/ \E p \in Process : \/ Acquire(p) \/ Begin(p) \/ Renew(p)
                          \/ Finish(p) \/ Release(p) \/ Crash(p)
    \/ Tick

(* Time passes; nothing else is promised: the work may never return.        *)
Spec == Init /\ [][Next]_vars /\ WF_vars(Tick)

-----------------------------------------------------------------------------
Inside(p) == pc[p] \in {"granted", "working", "releasing"}

(* withLock: a process whose key has not expired under it is alone, however *)
(* late the releases and renewals of the others come.                       *)
AloneUntilExpiry ==
    \A p, q \in Process :
        Inside(p) /\ Inside(q) /\ p # q => lapsed[p] \/ lapsed[q]

(***************************************************************************)
(* Proofs, for any number of processes and any lease and renewal times     *)
(***************************************************************************)
(* What makes the lock exclusive: a process that is inside and whose key    *)
(* did not expire under it still has its token in Redis, and one key holds  *)
(* one token.                                                               *)
Held == \A p \in Process : Inside(p) /\ ~lapsed[p] => holder = p

LockInv == TypeOK /\ Held

(* withLock keeps the types of the key, the lease and the timers.           *)
LEMMA LockInit == Init => LockInv
  BY LockAssumption DEF Init, LockInv, TypeOK, Held, Inside, Phases

LEMMA LockStep == LockInv /\ [Next]_vars => LockInv'
<1> SUFFICES ASSUME LockInv, [Next]_vars PROVE LockInv'
  OBVIOUS
<1> USE LockAssumption DEF LockInv, TypeOK, Held, Inside, Phases
<1>1. ASSUME NEW p \in Process, Acquire(p) PROVE LockInv'
  BY <1>1 DEF Acquire, SetIfAbsent
<1>2. ASSUME NEW p \in Process, Begin(p) PROVE LockInv'
  BY <1>2 DEF Begin
<1>3. ASSUME NEW p \in Process, Renew(p) PROVE LockInv'
  BY <1>3 DEF Renew, PExpire
<1>4. ASSUME NEW p \in Process, Finish(p) PROVE LockInv'
  BY <1>4 DEF Finish
<1>5. ASSUME NEW p \in Process, Release(p) PROVE LockInv'
  BY <1>5 DEF Release, DeleteOwn
<1>6. ASSUME NEW p \in Process, Crash(p) PROVE LockInv'
  BY <1>6 DEF Crash
<1>7. ASSUME Tick PROVE LockInv'
  <2>1. lease' \in 0..TTL
    BY <1>7 DEF Tick
  <2>2. timer' \in [Process -> 0..RENEWAL]
    BY <1>7 DEF Tick
  <2>3. /\ holder' \in Process \cup {NoOne, Nobody}
        /\ lapsed' \in [Process -> BOOLEAN]
        /\ pc' \in [Process -> Phases]
    BY <1>7 DEF Tick
  <2>4. Held'
    BY <1>7 DEF Tick
  <2> QED
    BY <2>1, <2>2, <2>3, <2>4
<1>8. CASE UNCHANGED vars
  BY <1>8 DEF vars
<1> QED
  BY <1>1, <1>2, <1>3, <1>4, <1>5, <1>6, <1>7, <1>8 DEF Next

(* Every call and every crash keeps the types of the key, its lease, the    *)
(* phases and the renewal timers.                                           *)
THEOREM LockTyping == Spec => []TypeOK
<1>1. LockInv => TypeOK
  BY DEF LockInv
<1> QED
  BY LockInit, LockStep, <1>1, PTL DEF Spec

(* withLock: two processes are inside together only if the key of one of    *)
(* them has expired under it, whatever is renewed, released late or crashes.*)
THEOREM LockExcludes == Spec => []AloneUntilExpiry
<1>1. LockInv => AloneUntilExpiry
  BY DEF LockInv, Held, AloneUntilExpiry
<1> QED
  BY LockInit, LockStep, <1>1, PTL DEF Spec
=============================================================================
