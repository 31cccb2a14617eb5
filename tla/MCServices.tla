----------------------------- MODULE MCServices -----------------------------
(***************************************************************************)
(* The services of the backend that guard others, for TLC: the lock, the   *)
(* circuits and what is built on them, the queues, the limits.  They share *)
(* no state, so a behavior runs one of them, and the state spaces add up   *)
(* instead of multiplying.                                                 *)
(***************************************************************************)
EXTENDS DistributedLock, Sequences, FiniteSets

CONSTANTS
    none,                                               \* what is absent
    BreakerConfig, Call, alertInterval, highFailures, maxAlertHistory, MaxOpens,
    failureThreshold, successThreshold, timeout, monitoringPeriod, \* of the other circuits
    Provider, Caller, InitProviders, unhealthyAfter, MaxProviders,
    Mail, queueLimit, keepFor,
    Message, Admin, maxRetention, MaxRetries,
    Request, Rule, windowMs, burstWindowMs, MaxGrants,
    Ask, Token, PriceTTL, Patience, MaxFound,
    LongTime, ShortTime                                 \* bounds on time

ASSUME ServicesAssumption ==
    /\ none \notin Mail
    /\ InitProviders \in Seq(Provider)
    /\ unhealthyAfter \in Nat \ {0}
    /\ {keepFor, maxRetention, windowMs, burstWindowMs, Patience, BreakerConfig.timeout} \subseteq Nat
    /\ queueLimit \in Nat \ {0}
    /\ PriceTTL \in Nat \ {0}
    /\ "FREE" \in DOMAIN Rule
    /\ \A t \in DOMAIN Rule : Rule[t] \in [requests : Nat, burstCapacity : Nat]

VARIABLES
    service,        \* the one that runs
    now, circuit,   \* whose meaning it gives
    calls, opens, alertHistory, outage,                             \* CircuitBreaker
    providers, nameOf, isHealthy, failures, currentProviderIndex,   \* RpcFailover
    circuits, phase, target, attempts, orphan, refusals,
    fresh, sending, fallbackEmailQueue, todo, current, sent, refused, dropped,  \* EmailQueue
    table, created, dlqRetries, admins, listed, retried, handled, gone, \* DeadLetterQueue
    bucket, logged, tier, limited, admin, grants,                   \* RateLimits
    priceCircuit, rpcCircuit, priceCache, asks, served              \* Tokens

lockVars == vars
breakerVars == <<calls, opens, alertHistory, outage>>
rpcVars == <<providers, nameOf, isHealthy, failures, currentProviderIndex,
             circuits, phase, target, attempts, orphan, refusals>>
mailVars == <<fresh, sending, fallbackEmailQueue, todo, current, sent, refused, dropped>>
dlqVars == <<table, created, dlqRetries, admins, listed, retried, handled, gone>>
limitVars == <<bucket, logged, tier, limited, admin, grants>>
tokenVars == <<priceCircuit, rpcCircuit, priceCache, asks, served>>
serviceVars == <<service, now, circuit, lockVars, breakerVars, rpcVars, mailVars, dlqVars,
                 limitVars, tokenVars>>

Brk == INSTANCE CircuitBreaker WITH
    NoCircuit <- none, MaxTime <- LongTime,
    failureThreshold <- BreakerConfig.failureThreshold,
    successThreshold <- BreakerConfig.successThreshold,
    timeout <- BreakerConfig.timeout, monitoringPeriod <- BreakerConfig.monitoringPeriod

Rpc == INSTANCE RpcFailover WITH NoProvider <- none, pc <- phase

Eml == INSTANCE EmailQueue WITH NoMail <- none, MaxTime <- LongTime

Dlq == INSTANCE DeadLetterQueue WITH
    NoMessage <- none, MaxTime <- ShortTime, pc <- admins, todo <- listed, current <- retried

Lim == INSTANCE RateLimits WITH
    calls <- limited, NoBucket <- none, Idle <- none, MaxTime <- ShortTime

Tok == INSTANCE Tokens WITH
    TTL <- PriceTTL, Idle <- none, NoPrice <- none, MaxTime <- ShortTime

Services == {"lock", "breaker", "rpc", "mail", "dead letters", "limits", "tokens"}

ServicesInit ==
    /\ service \in Services
    /\ Init /\ Rpc!Init /\ Dlq!Init /\ Lim!Init /\ Tok!Init
    /\ calls = [c \in Call |-> "idle"] /\ opens = 0 /\ alertHistory = <<>>
    /\ outage = Brk!Quiet
    /\ fresh = Mail /\ sending = {} /\ fallbackEmailQueue = <<>> /\ todo = <<>>
    /\ current = none /\ sent = {} /\ refused = {} /\ dropped = {}
    /\ circuit = IF service = "breaker" THEN none ELSE Eml!NewCircuit

ServicesNext ==
    /\ UNCHANGED service
    /\ \/ /\ service = "lock" /\ Next
          /\ UNCHANGED <<now, circuit, breakerVars, rpcVars, mailVars, dlqVars, limitVars,
                        tokenVars>>
       \/ /\ service = "breaker" /\ Brk!Next
          /\ UNCHANGED <<lockVars, rpcVars, mailVars, dlqVars, limitVars, tokenVars>>
       \/ /\ service = "rpc" /\ Rpc!Next
          /\ UNCHANGED <<now, circuit, lockVars, breakerVars, mailVars, dlqVars, limitVars,
                        tokenVars>>
       \/ /\ service = "mail" /\ Eml!Next
          /\ UNCHANGED <<lockVars, breakerVars, rpcVars, dlqVars, limitVars, tokenVars>>
       \/ /\ service = "dead letters" /\ Dlq!Next
          /\ UNCHANGED <<circuit, lockVars, breakerVars, rpcVars, mailVars, limitVars, tokenVars>>
       \/ /\ service = "limits" /\ Lim!Next
          /\ UNCHANGED <<circuit, lockVars, breakerVars, rpcVars, mailVars, dlqVars, tokenVars>>
       \/ /\ service = "tokens" /\ Tok!Next
          /\ UNCHANGED <<circuit, lockVars, breakerVars, rpcVars, mailVars, dlqVars, limitVars>>

ServicesSpec == ServicesInit /\ [][ServicesNext]_serviceVars

(* What TLC runs.                                                           *)
CONSTANTS a, b, d
Twice == [failureThreshold |-> 2, successThreshold |-> 2, timeout |-> 2, monitoringPeriod |-> 2]
TwoProviders == <<a, b>>
TwoTiers == [FREE |-> [requests |-> 3, burstCapacity |-> 2],
             PRO  |-> [requests |-> 4, burstCapacity |-> 3]]

(* CircuitBreaker: an outage lasts its time and ends on its own successes.  *)
BreakerOutageRunsItsCourse == [][service = "breaker" => Brk!OutageRunsItsCourse]_serviceVars

(* RpcFailover: the providers set aside are the ones that fail.             *)
RpcSetAside == service = "rpc" => Rpc!SetAsideWhenFailing

(* EmailQueue: a refused mail is kept until sent, too old or pushed out.    *)
MailKeptUntilSent == service = "mail" => Eml!KeptUntilSent

(* DeadLetterQueue: a message leaves handled, deleted or expired.           *)
LettersLeaveForAReason == service = "dead letters" => Dlq!LeavesForAReason

(* RateLimits: who is refused has used what the tier grants.                *)
LimitRefusalEarned == service = "limits" => Lim!RefusalEarned

(* Tokens: what is given out as fresh is recent.                            *)
TokenPricesAreRecent == service = "tokens" => Tok!FreshPricesAreRecent
=============================================================================
