--------------------------- MODULE ServicesProofs ---------------------------
(***************************************************************************)
(* Proofs for every number of calls, providers, mails, messages and        *)
(* requests: what MCServices.cfg checks of the services on small sets.     *)
(***************************************************************************)
EXTENDS MCServices, SequenceTheorems, FiniteSetTheorems

(* A behavior runs one service from its beginning to its end.               *)
LEMMA OneService ==
    ASSUME [ServicesNext]_serviceVars
    PROVE  /\ service' = service
           /\ service = "breaker" => Brk!Next \/ UNCHANGED <<now, circuit, calls, outage>>
           /\ service = "rpc" => Rpc!Next \/ UNCHANGED <<providers, isHealthy, failures>>
           /\ service = "mail" => Eml!Next \/ UNCHANGED <<now, mailVars>>
           /\ service = "dead letters" => Dlq!Next \/ UNCHANGED <<now, dlqVars>>
           /\ service = "limits" => Lim!Next \/ UNCHANGED <<now, limitVars>>
           /\ service = "tokens" => Tok!Next \/ UNCHANGED <<now, tokenVars>>
  BY DEF ServicesNext, serviceVars, breakerVars, rpcVars, mailVars, dlqVars, limitVars,
         tokenVars

(***************************************************************************)
(* Circuit breaker                                                         *)
(***************************************************************************)
IsCircuit(c) ==
    /\ {"state", "nextAttemptTime", "successes"} \subseteq DOMAIN c
    /\ c.state \in {"CLOSED", "OPEN", "HALF_OPEN"}

(* What two circuits agree on when nothing happened but old failures being  *)
(* forgotten, or new ones counted.                                          *)
Alike(c, e) ==
    c.state = e.state /\ c.nextAttemptTime = e.nextAttemptTime /\ c.successes = e.successes

LEMMA CircuitSteps ==
    ASSUME NEW c, IsCircuit(c), NEW t
    PROVE  /\ IsCircuit(Brk!Cleaned(c, t)) /\ Alike(Brk!Cleaned(c, t), c)
           /\ IsCircuit(Brk!Admitted(c, t))
           /\ Brk!Admitted(c, t).state = IF c.state = "OPEN" THEN "HALF_OPEN" ELSE c.state
           /\ Brk!Admitted(c, t).nextAttemptTime = c.nextAttemptTime
           /\ Brk!Admitted(c, t).successes = c.successes
           /\ IsCircuit(Brk!Opened(c, t)) /\ Brk!Opened(c, t).state = "OPEN"
           /\ Brk!Opened(c, t).nextAttemptTime = t + BreakerConfig.timeout
           /\ Brk!Opened(c, t).successes = 0
           /\ IsCircuit(Brk!ResetCircuit(c)) /\ Brk!ResetCircuit(c).state = "CLOSED"
<1>1. IsCircuit(Brk!Cleaned(c, t)) /\ Alike(Brk!Cleaned(c, t), c)
  BY DEF IsCircuit, Alike, Brk!Cleaned
<1>2. /\ IsCircuit(Brk!Admitted(c, t))
      /\ Brk!Admitted(c, t).state = IF c.state = "OPEN" THEN "HALF_OPEN" ELSE c.state
      /\ Brk!Admitted(c, t).nextAttemptTime = c.nextAttemptTime
      /\ Brk!Admitted(c, t).successes = c.successes
  BY <1>1 DEF IsCircuit, Alike, Brk!Admitted
<1>3. /\ IsCircuit(Brk!Opened(c, t)) /\ Brk!Opened(c, t).state = "OPEN"
      /\ Brk!Opened(c, t).nextAttemptTime = t + BreakerConfig.timeout
      /\ Brk!Opened(c, t).successes = 0
  BY DEF IsCircuit, Brk!Opened
<1>4. IsCircuit(Brk!ResetCircuit(c)) /\ Brk!ResetCircuit(c).state = "CLOSED"
  BY DEF IsCircuit, Brk!ResetCircuit
<1> QED
  BY <1>1, <1>2, <1>3, <1>4

(* A good answer closes the circuit or is counted; a bad one opens it, or   *)
(* leaves it alike, as it always does when it is open.                      *)
LEMMA CircuitAnswers ==
    ASSUME NEW c, IsCircuit(c), NEW t
    PROVE  /\ IsCircuit(Brk!Succeeded(c)) /\ IsCircuit(Brk!Failed(c, t))
           /\ \/ /\ Brk!Succeeded(c).state = "CLOSED"
                 /\ \/ c.state = "CLOSED"
                    \/ c.state = "HALF_OPEN" /\ c.successes + 1 >= BreakerConfig.successThreshold
              \/ /\ Brk!Succeeded(c).state = c.state
                 /\ Brk!Succeeded(c).nextAttemptTime = c.nextAttemptTime
                 /\ Brk!Succeeded(c).successes = c.successes + 1
           /\ \/ /\ c.state # "OPEN" /\ Brk!Failed(c, t).state = "OPEN"
                 /\ Brk!Failed(c, t).nextAttemptTime = t + BreakerConfig.timeout
                 /\ Brk!Failed(c, t).successes = 0
              \/ c.state # "HALF_OPEN" /\ Alike(Brk!Failed(c, t), c)
<1>1. /\ IsCircuit(Brk!Succeeded(c))
      /\ \/ /\ Brk!Succeeded(c).state = "CLOSED"
            /\ \/ c.state = "CLOSED"
               \/ c.state = "HALF_OPEN" /\ c.successes + 1 >= BreakerConfig.successThreshold
         \/ /\ Brk!Succeeded(c).state = c.state
            /\ Brk!Succeeded(c).nextAttemptTime = c.nextAttemptTime
            /\ Brk!Succeeded(c).successes = c.successes + 1
  BY DEF IsCircuit, Brk!Succeeded
<1> DEFINE e == [c EXCEPT !.failureTimestamps = Append(@, t), !.failures = @ + 1]
<1>2. IsCircuit(e) /\ Alike(e, c)
  BY DEF IsCircuit, Alike
<1>3. \/ c.state # "OPEN" /\ Brk!Failed(c, t) = Brk!Opened(e, t)
      \/ c.state # "HALF_OPEN" /\ Brk!Failed(c, t) = e
  BY <1>2 DEF Alike, Brk!Failed
<1> HIDE DEF e
<1>4. CASE c.state # "OPEN" /\ Brk!Failed(c, t) = Brk!Opened(e, t)
  <2>1. /\ IsCircuit(Brk!Opened(e, t)) /\ Brk!Opened(e, t).state = "OPEN"
        /\ Brk!Opened(e, t).nextAttemptTime = t + BreakerConfig.timeout
        /\ Brk!Opened(e, t).successes = 0
    BY <1>2, CircuitSteps
  <2> QED
    BY <1>1, <1>4, <2>1
<1>5. CASE c.state # "HALF_OPEN" /\ Brk!Failed(c, t) = e
  BY <1>1, <1>2, <1>5
<1> QED
  BY <1>3, <1>4, <1>5

(* The history of an outage is what the circuit goes by.                    *)
InCourse(c, o, t) ==
    c.state # "CLOSED" =>
        /\ c.nextAttemptTime = o.since + BreakerConfig.timeout
        /\ c.successes = o.good
        /\ c.state = "HALF_OPEN" => o.since + BreakerConfig.timeout <= t

OnCourse(c) == IsCircuit(c) /\ InCourse(c, outage, now)
CircuitTyped ==
    /\ now \in Nat
    /\ outage \in [since : Nat, good : Nat]
    /\ calls \in [Call -> {"idle", "flying", "orphan"}]
    /\ circuit # none => OnCourse(circuit)
    /\ \A c \in Call : calls[c] = "flying" => OnCourse(circuit)
CircuitKept == service = "breaker" => CircuitTyped

LEMMA AnswerNoted ==
    ASSUME CircuitTyped, OnCourse(circuit), NEW ok \in BOOLEAN,
           circuit' = IF ok THEN Brk!Succeeded(circuit) ELSE Brk!Failed(circuit, now),
           outage' = Brk!Noted(ok)
    PROVE  /\ IsCircuit(circuit') /\ InCourse(circuit', outage', now)
           /\ outage' \in [since : Nat, good : Nat]
           /\ circuit.state # "CLOSED" /\ circuit'.state = "CLOSED" =>
                 circuit.state = "HALF_OPEN" /\ outage.good + 1 >= BreakerConfig.successThreshold
<1>1. IsCircuit(circuit) /\ InCourse(circuit, outage, now) /\ now \in Nat
      /\ outage \in [since : Nat, good : Nat]
  BY DEF CircuitTyped, OnCourse
<1>2. outage' \in [since : Nat, good : Nat]
  BY <1>1 DEF Brk!Noted, Brk!Quiet
<1>3. CASE ok
  <2>1. circuit' = Brk!Succeeded(circuit)
    BY <1>3
  <2>2. CASE circuit'.state = "CLOSED"
    BY <1>1, <1>2, <2>1, <2>2, CircuitAnswers DEF InCourse
  <2>3. CASE circuit'.state # "CLOSED"
    <3>1. /\ circuit'.state = circuit.state /\ IsCircuit(circuit')
          /\ circuit'.nextAttemptTime = circuit.nextAttemptTime
          /\ circuit'.successes = circuit.successes + 1
      BY <1>1, <2>1, <2>3, CircuitAnswers
    <3>2. outage' = [outage EXCEPT !.good = @ + 1]
      BY <1>3, <2>3, <3>1 DEF Brk!Noted
    <3>3. outage'.since = outage.since /\ outage'.good = outage.good + 1
      BY <1>1, <3>2
    <3> QED
      BY <1>1, <1>2, <2>3, <3>1, <3>3 DEF InCourse
  <2> QED
    BY <2>2, <2>3
<1>4. CASE ~ok
  <2>1. circuit' = Brk!Failed(circuit, now)
    BY <1>4
  <2>2. CASE /\ circuit.state # "OPEN" /\ circuit'.state = "OPEN"
             /\ circuit'.nextAttemptTime = now + BreakerConfig.timeout /\ circuit'.successes = 0
    <3>1. outage' = [since |-> now, good |-> 0]
      BY <2>2 DEF Brk!Noted
    <3> QED
      BY <1>1, <1>2, <2>1, <2>2, <3>1, CircuitAnswers DEF InCourse
  <2>3. CASE circuit.state # "HALF_OPEN" /\ Alike(circuit', circuit)
    <3>1. circuit'.state = "CLOSED" \/ outage' = outage
      BY <1>4, <2>3 DEF Alike, Brk!Noted
    <3> QED
      BY <1>1, <1>2, <2>1, <2>3, <3>1, CircuitAnswers DEF InCourse, Alike
  <2> QED
    BY <1>1, <2>1, <2>2, <2>3, CircuitAnswers
<1> QED
  BY <1>3, <1>4

LEMMA CircuitStays ==
    ASSUME CircuitTyped, Brk!Next
    PROVE  CircuitTyped'
<1>0. BreakerConfig.timeout \in Nat /\ now \in Nat /\ outage \in [since : Nat, good : Nat]
  BY ServicesAssumption DEF CircuitTyped
<1>1. OnCourse(Brk!GetOrCreate)
  <2>1. OnCourse(Brk!NewCircuit)
    BY DEF IsCircuit, InCourse, OnCourse, Brk!NewCircuit
  <2> QED
    BY <2>1 DEF Brk!GetOrCreate, Brk!Exists, CircuitTyped
<1>2. ASSUME NEW c \in Call, Brk!Execute(c)
      PROVE  CircuitTyped'
  <2>1. UNCHANGED <<now, outage>>
    BY <1>2 DEF Brk!Execute
  <2>2. CASE Brk!Refuses(Brk!GetOrCreate, now)
    <3>1. OnCourse(circuit)
      BY <2>2 DEF Brk!GetOrCreate, Brk!Exists, Brk!Refuses, Brk!NewCircuit, CircuitTyped
    <3>2. circuit' = Brk!Cleaned(circuit, now) /\ UNCHANGED calls
      BY <1>2, <2>2 DEF Brk!Execute
    <3>3. IsCircuit(circuit') /\ Alike(circuit', circuit)
      BY <3>1, <3>2, CircuitSteps DEF OnCourse
    <3>4. OnCourse(circuit)'
      BY <2>1, <3>1, <3>3 DEF OnCourse, InCourse, Alike
    <3> QED
      BY <2>1, <3>2, <3>4 DEF CircuitTyped
  <2>3. CASE ~Brk!Refuses(Brk!GetOrCreate, now)
    <3> DEFINE old == Brk!GetOrCreate
    <3>1. /\ circuit' = Brk!Admitted(old, now)
          /\ calls' = [calls EXCEPT ![c] = "flying"]
      BY <1>2, <2>3 DEF Brk!Execute
    <3>2. old.state = "OPEN" => ~(now < old.nextAttemptTime)
      BY <2>3 DEF Brk!Refuses
    <3>3. IsCircuit(old) /\ InCourse(old, outage, now)
      BY <1>1 DEF OnCourse
    <3> HIDE DEF old
    <3>4. InCourse(Brk!Admitted(old, now), outage, now)
      <4>1. CASE old.state = "OPEN"
        <5>1. old.nextAttemptTime = outage.since + BreakerConfig.timeout
          BY <3>3, <4>1 DEF InCourse
        <5>2. outage.since + BreakerConfig.timeout <= now
          BY <1>0, <3>2, <4>1, <5>1
        <5> QED
          BY <3>3, <4>1, <5>1, <5>2, CircuitSteps DEF InCourse
      <4>2. CASE old.state # "OPEN"
        BY <3>3, <4>2, CircuitSteps DEF InCourse
      <4> QED
        BY <4>1, <4>2
    <3>5. OnCourse(circuit)'
      BY <2>1, <3>1, <3>3, <3>4, CircuitSteps DEF OnCourse
    <3> QED
      BY <2>1, <3>1, <3>5 DEF CircuitTyped
  <2> QED
    BY <2>2, <2>3
<1>3. ASSUME NEW c \in Call, NEW ok \in BOOLEAN, Brk!Answer(c, ok)
      PROVE  CircuitTyped'
  <2>1. calls' = [calls EXCEPT ![c] = "idle"] /\ UNCHANGED now
    BY <1>3 DEF Brk!Answer
  <2>2. CASE calls[c] = "orphan"
    BY <1>3, <2>1, <2>2 DEF Brk!Answer, CircuitTyped, OnCourse
  <2>3. CASE calls[c] # "orphan"
    <3>1. OnCourse(circuit)
      BY <1>3, <2>3 DEF Brk!Answer, CircuitTyped
    <3>2. /\ circuit' = IF ok THEN Brk!Succeeded(circuit) ELSE Brk!Failed(circuit, now)
          /\ outage' = Brk!Noted(ok)
      BY <1>3, <2>3 DEF Brk!Answer
    <3>3. IsCircuit(circuit') /\ InCourse(circuit', outage', now) /\ outage' \in [since : Nat, good : Nat]
      BY <3>1, <3>2, AnswerNoted
    <3> QED
      BY <2>1, <3>3 DEF CircuitTyped, OnCourse
  <2> QED
    BY <2>2, <2>3
<1>4. CASE Brk!Reset
  <2>1. OnCourse(circuit)'
    BY <1>4, CircuitSteps DEF Brk!Reset, Brk!Exists, CircuitTyped, OnCourse, InCourse
  <2>2. outage' \in [since : Nat, good : Nat]
    BY <1>4 DEF Brk!Reset, Brk!Quiet
  <2> QED
    BY <1>4, <2>1, <2>2 DEF Brk!Reset, CircuitTyped
<1>5. CASE Brk!Open
  <2>1. outage' = [since |-> now, good |-> 0] /\ circuit' = Brk!Opened(circuit, now)
    BY <1>5 DEF Brk!Open
  <2>2. OnCourse(circuit)'
    BY <1>5, <2>1, CircuitSteps DEF Brk!Open, Brk!Exists, CircuitTyped, OnCourse, InCourse
  <2>3. outage' \in [since : Nat, good : Nat]
    BY <1>0, <2>1
  <2> QED
    BY <1>5, <2>2, <2>3 DEF Brk!Open, CircuitTyped
<1>6. CASE Brk!Remove
  <2>1. outage' \in [since : Nat, good : Nat]
    BY <1>6 DEF Brk!Remove, Brk!Quiet
  <2>2. /\ circuit' = none /\ UNCHANGED now
        /\ calls' = [c \in Call |-> IF calls[c] = "flying" THEN "orphan" ELSE calls[c]]
    BY <1>6 DEF Brk!Remove
  <2> QED
    BY <2>1, <2>2 DEF CircuitTyped
<1>7. CASE Brk!IsOpen
  <2>1. OnCourse(circuit) /\ circuit' = Brk!Cleaned(circuit, now) /\ UNCHANGED <<now, outage>>
    BY <1>7 DEF Brk!IsOpen, Brk!Exists, CircuitTyped
  <2>2. IsCircuit(circuit') /\ Alike(circuit', circuit)
    BY <2>1, CircuitSteps DEF OnCourse
  <2>3. OnCourse(circuit)'
    BY <2>1, <2>2 DEF OnCourse, InCourse, Alike
  <2> QED
    BY <1>7, <2>3 DEF Brk!IsOpen, CircuitTyped
<1>8. CASE Brk!Tick
  <2>1. now' = now + 1 /\ UNCHANGED <<circuit, calls, outage>>
    BY <1>8 DEF Brk!Tick
  <2>2. OnCourse(circuit) => OnCourse(circuit)'
    BY <1>0, <2>1 DEF OnCourse, InCourse
  <2> QED
    BY <1>0, <2>1, <2>2 DEF CircuitTyped
<1>9. CASE Brk!CheckAllCircuits \/ Brk!ClearAlertHistory
  BY <1>9 DEF Brk!CheckAllCircuits, Brk!ClearAlertHistory, CircuitTyped, OnCourse
<1> QED
  BY <1>2, <1>3, <1>4, <1>5, <1>6, <1>7, <1>8, <1>9 DEF Brk!Next

(* While a circuit is open nobody is let in before its time is over, and     *)
(* everybody afterwards, whatever comes late; answers close it in HALF_OPEN  *)
(* only, after as many good ones as it takes since it opened last.           *)
THEOREM OutageRunsOut == ServicesSpec => BreakerOutageRunsItsCourse
<1>1. ServicesInit => CircuitKept
  BY DEF ServicesInit, Dlq!Init, CircuitKept, CircuitTyped, Brk!Quiet
<1>2. CircuitKept /\ [ServicesNext]_serviceVars => CircuitKept'
  <2> SUFFICES ASSUME CircuitKept, [ServicesNext]_serviceVars, service' = "breaker"
               PROVE  CircuitTyped'
    BY DEF CircuitKept
  <2>1. service = "breaker" /\ (Brk!Next \/ UNCHANGED <<now, circuit, calls, outage>>)
    BY OneService
  <2>2. CASE UNCHANGED <<now, circuit, calls, outage>>
    BY <2>1, <2>2 DEF CircuitKept, CircuitTyped, OnCourse
  <2> QED
    BY <2>1, <2>2, CircuitStays DEF CircuitKept
<1>3. CircuitKept /\ [ServicesNext]_serviceVars
        => [service = "breaker" => Brk!OutageRunsItsCourse]_serviceVars
  <2> SUFFICES ASSUME CircuitKept, ServicesNext, service = "breaker",
                      Brk!Exists, circuit.state # "CLOSED"
               PROVE  /\ Brk!Refuses(circuit, now) <=> now < outage.since + BreakerConfig.timeout
                      /\ Brk!Answered /\ circuit'.state = "CLOSED" =>
                            /\ circuit.state = "HALF_OPEN"
                            /\ outage.good + 1 >= BreakerConfig.successThreshold
    BY DEF Brk!OutageRunsItsCourse
  <2>1. CircuitTyped /\ IsCircuit(circuit) /\ InCourse(circuit, outage, now)
    BY DEF CircuitKept, CircuitTyped, OnCourse, Brk!Exists
  <2>2. Brk!Refuses(circuit, now) <=> now < outage.since + BreakerConfig.timeout
    <3>1. CASE circuit.state = "OPEN"
      BY <2>1, <3>1 DEF InCourse, Brk!Refuses
    <3>2. CASE circuit.state = "HALF_OPEN"
      <4>1. /\ now \in Nat /\ outage.since + BreakerConfig.timeout \in Nat
            /\ outage.since + BreakerConfig.timeout <= now
        BY <2>1, <3>2, ServicesAssumption DEF InCourse, CircuitTyped
      <4> QED
        BY <3>2, <4>1 DEF Brk!Refuses
    <3> QED
      BY <2>1, <3>1, <3>2 DEF IsCircuit
  <2>3. ASSUME NEW c \in Call, calls[c] = "flying", calls'[c] = "idle", circuit'.state = "CLOSED"
        PROVE  circuit.state = "HALF_OPEN" /\ outage.good + 1 >= BreakerConfig.successThreshold
    <3>1. Brk!Next
      BY <2>3, OneService
    <3>2. \E ok \in BOOLEAN : Brk!Answer(c, ok)
      BY <2>1, <2>3, <3>1 DEF Brk!Next, Brk!Reset, Brk!Open, Brk!IsOpen, Brk!Remove, Brk!Execute,
         Brk!Answer, Brk!CheckAllCircuits, Brk!ClearAlertHistory, Brk!Tick, CircuitTyped
    <3>3. PICK ok \in BOOLEAN : Brk!Answer(c, ok)
      BY <3>2
    <3>4. /\ circuit' = IF ok THEN Brk!Succeeded(circuit) ELSE Brk!Failed(circuit, now)
          /\ outage' = Brk!Noted(ok)
      BY <2>3, <3>3 DEF Brk!Answer
    <3> QED
      BY <2>1, <2>3, <3>4, AnswerNoted DEF OnCourse
  <2> QED
    BY <2>2, <2>3 DEF Brk!Answered
<1> QED
  BY <1>1, <1>2, <1>3, PTL DEF ServicesSpec, BreakerOutageRunsItsCourse

(***************************************************************************)
(* RPC failover                                                            *)
(***************************************************************************)
(* The flags and the counts agree about every provider, in the list or not. *)
Agree(h, f) ==
    /\ h \in [Provider -> BOOLEAN]
    /\ f \in [Provider -> Nat]
    /\ \A p \in Provider : h[p] <=> f[p] < unhealthyAfter

RpcTyped == providers \in Seq(Provider) /\ Agree(isHealthy, failures)
RpcKept == service = "rpc" => RpcTyped

LEMMA MarkingAgrees ==
    ASSUME NEW h, NEW f, Agree(h, f), NEW p, Rpc!MarkUnhealthy(h, f, p)
    PROVE  Agree(isHealthy, failures)'
<1> DEFINE n == IF f[p] < unhealthyAfter THEN f[p] + 1 ELSE f[p]
<1>1. failures' = [f EXCEPT ![p] = n] /\ isHealthy' = [h EXCEPT ![p] = @ /\ n < unhealthyAfter]
  BY DEF Rpc!MarkUnhealthy
<1>2. CASE p \in Provider
  <2>1. n \in Nat /\ (f[p] < unhealthyAfter \/ ~(n < unhealthyAfter))
    BY <1>2, ServicesAssumption DEF Agree
  <2> HIDE DEF n
  <2>2. failures' \in [Provider -> Nat] /\ isHealthy' \in [Provider -> BOOLEAN]
    BY <1>1, <2>1 DEF Agree
  <2>3. /\ failures'[p] = n
        /\ isHealthy'[p] <=> h[p] /\ n < unhealthyAfter
        /\ \A q \in Provider : q # p => failures'[q] = f[q] /\ isHealthy'[q] = h[q]
    BY <1>1, <1>2 DEF Agree
  <2>4. n < unhealthyAfter => f[p] < unhealthyAfter
    BY <1>2, <2>1, ServicesAssumption DEF Agree
  <2> QED
    BY <2>1, <2>2, <2>3, <2>4 DEF Agree
<1>3. CASE p \notin Provider
  <2>1. failures' = f /\ isHealthy' = h
    BY <1>1, <1>3 DEF Agree
  <2> QED
    BY <2>1 DEF Agree
<1> QED
  BY <1>2, <1>3

LEMMA HealingAgrees ==
    ASSUME NEW h, NEW f, Agree(h, f), NEW p,
           isHealthy' = [h EXCEPT ![p] = TRUE], failures' = [f EXCEPT ![p] = 0]
    PROVE  Agree(isHealthy, failures)'
<1>1. 0 < unhealthyAfter
  BY ServicesAssumption
<1>2. isHealthy' \in [Provider -> BOOLEAN] /\ failures' \in [Provider -> Nat]
  BY DEF Agree
<1>3. ASSUME NEW q \in Provider
      PROVE  isHealthy'[q] <=> failures'[q] < unhealthyAfter
  <2>1. CASE q = p
    <3>1. isHealthy'[q] = TRUE /\ failures'[q] = 0
      BY <2>1 DEF Agree
    <3> QED
      BY <1>1, <3>1
  <2>2. CASE q # p
    <3>1. isHealthy'[q] = h[q] /\ failures'[q] = f[q]
      BY <2>2 DEF Agree
    <3> QED
      BY <3>1 DEF Agree
  <2> QED
    BY <2>1, <2>2
<1> QED
  BY <1>2, <1>3 DEF Agree

HealthyIn(h, s) == [q \in Provider |-> h[q] \/ q \in s]
CountedIn(f, s) == [q \in Provider |-> IF q \in s THEN 0 ELSE f[q]]

LEMMA ResetAgrees ==
    ASSUME NEW h, NEW f, Agree(h, f), NEW s
    PROVE  Agree(HealthyIn(h, s), CountedIn(f, s))
<1> DEFINE g == HealthyIn(h, s)
           e == CountedIn(f, s)
<1> USE DEF HealthyIn, CountedIn
<1>1. g \in [Provider -> BOOLEAN] /\ e \in [Provider -> Nat]
  BY DEF Agree
<1>2. ASSUME NEW q \in Provider PROVE g[q] <=> e[q] < unhealthyAfter
  <2>1. CASE q \in s
    <3>1. g[q]
      BY <2>1
    <3>2. e[q] = 0
      BY <2>1
    <3>3. 0 < unhealthyAfter
      BY ServicesAssumption
    <3> HIDE DEF g, e
    <3> QED
      BY <3>1, <3>2, <3>3
  <2>2. CASE q \notin s
    <3>1. g[q] = (h[q] \/ q \in s)
      OBVIOUS
    <3>2. e[q] = f[q]
      BY <2>2
    <3>3. h[q] <=> f[q] < unhealthyAfter
      BY DEF Agree
    <3>4. g[q] <=> h[q]
      BY <2>2, <3>1
    <3> HIDE DEF g, e
    <3> QED
      BY <3>2, <3>3, <3>4
  <2> QED
    BY <2>1, <2>2
<1> QED
  BY <1>1, <1>2 DEF Agree

LEMMA PickAgrees ==
    ASSUME Agree(isHealthy, failures)
    PROVE  Agree(Rpc!Pick.healthy, Rpc!Pick.failed)
<1>1. CASE Rpc!Healthy = <<>>
  <2>1. /\ Rpc!Pick.healthy = HealthyIn(isHealthy, Rpc!Listed)
        /\ Rpc!Pick.failed = CountedIn(failures, Rpc!Listed)
    BY <1>1 DEF Rpc!Pick, HealthyIn, CountedIn
  <2> QED
    BY <2>1, ResetAgrees
<1>2. CASE Rpc!Healthy # <<>>
  BY <1>2 DEF Rpc!Pick
<1> QED
  BY <1>1, <1>2

LEMMA ShorterList ==
    ASSUME NEW S, NEW s \in Seq(S), NEW i \in DOMAIN s
    PROVE  SubSeq(s, 1, i - 1) \o SubSeq(s, i + 1, Len(s)) \in Seq(S)
<1>1. i \in 1..Len(s) /\ Len(s) \in Nat
  BY LenProperties
<1>2. \A j \in 1..(i - 1) : s[j] \in S
  BY <1>1, ElementOfSeq
<1>3. \A j \in (i + 1)..Len(s) : s[j] \in S
  BY <1>1, ElementOfSeq
<1>4. SubSeq(s, 1, i - 1) \in Seq(S)
  BY <1>1, <1>2, SubSeqProperties
<1>5. SubSeq(s, i + 1, Len(s)) \in Seq(S)
  BY <1>1, <1>3, SubSeqProperties
<1> QED
  BY <1>4, <1>5, ConcatProperties

LEMMA RpcStays ==
    ASSUME RpcTyped, Rpc!Next
    PROVE  RpcTyped'
<1>1. ASSUME NEW c \in Caller, Rpc!MakeRPCCall(c) \/ Rpc!GiveUp(c)
      PROVE  RpcTyped'
  BY <1>1 DEF Rpc!MakeRPCCall, Rpc!GiveUp, Rpc!providerVars, RpcTyped
<1>2. ASSUME NEW c \in Caller, Rpc!Choose(c)
      PROVE  RpcTyped'
  <2>1. Agree(Rpc!Pick.healthy, Rpc!Pick.failed)
    BY PickAgrees DEF RpcTyped
  <2>2. \/ Rpc!MarkUnhealthy(Rpc!Pick.healthy, Rpc!Pick.failed, Rpc!Pick.provider)
        \/ isHealthy' = Rpc!Pick.healthy /\ failures' = Rpc!Pick.failed
    BY <1>2 DEF Rpc!Choose
  <2>3. Agree(isHealthy, failures)'
    BY <2>1, <2>2, MarkingAgrees
  <2> QED
    BY <1>2, <2>3 DEF Rpc!Choose, RpcTyped
<1>3. ASSUME NEW c \in Caller, NEW ok \in BOOLEAN, Rpc!Answer(c, ok)
      PROVE  RpcTyped'
  <2>1. \/ Rpc!MarkHealthy(target[c])
        \/ Rpc!MarkUnhealthy(isHealthy, failures, target[c])
    BY <1>3 DEF Rpc!Answer
  <2>2. Agree(isHealthy, failures)'
    <3>1. CASE Rpc!MarkHealthy(target[c])
      BY <3>1, HealingAgrees DEF RpcTyped, Rpc!MarkHealthy
    <3>2. CASE Rpc!MarkUnhealthy(isHealthy, failures, target[c])
      BY <3>2, MarkingAgrees DEF RpcTyped
    <3> QED
      BY <2>1, <3>1, <3>2
  <2> QED
    BY <1>3, <2>2 DEF Rpc!Answer, RpcTyped
<1>4. CASE Rpc!ResetProviders
  <2>1. /\ isHealthy' = HealthyIn(isHealthy, Rpc!Listed)
        /\ failures' = CountedIn(failures, Rpc!Listed)
    BY <1>4 DEF Rpc!ResetProviders, HealthyIn, CountedIn
  <2>2. Agree(isHealthy', failures')
    BY <2>1, ResetAgrees DEF RpcTyped
  <2>3. Agree(isHealthy, failures)'
    BY <2>2 DEF Agree
  <2> QED
    BY <1>4, <2>3 DEF Rpc!ResetProviders, RpcTyped
<1>5. ASSUME NEW p \in Provider, Rpc!AddProvider(p)
      PROVE  RpcTyped'
  <2>1. Agree(isHealthy, failures)'
    BY <1>5, HealingAgrees DEF Rpc!AddProvider, RpcTyped
  <2>2. providers' \in Seq(Provider)
    BY <1>5, AppendProperties DEF Rpc!AddProvider, RpcTyped
  <2> QED
    BY <2>1, <2>2 DEF RpcTyped
<1>6. ASSUME NEW p \in Provider, Rpc!RemoveProvider(p)
      PROVE  RpcTyped'
  BY <1>6, ShorterList DEF Rpc!RemoveProvider, RpcTyped
<1> QED
  BY <1>1, <1>2, <1>3, <1>4, <1>5, <1>6 DEF Rpc!Next

(* A provider is out of use exactly when it failed unhealthyAfter times      *)
(* since its last good answer, however the calls interleave.                 *)
THEOREM SetAside == ServicesSpec => []RpcSetAside
<1>1. ServicesInit => RpcKept
  BY ServicesAssumption DEF ServicesInit, Rpc!Init, RpcKept, RpcTyped, Agree
<1>2. RpcKept /\ [ServicesNext]_serviceVars => RpcKept'
  <2> SUFFICES ASSUME RpcKept, [ServicesNext]_serviceVars, service' = "rpc"
               PROVE  RpcTyped'
    BY DEF RpcKept
  <2>1. service = "rpc" /\ (Rpc!Next \/ UNCHANGED <<providers, isHealthy, failures>>)
    BY OneService
  <2>2. CASE UNCHANGED <<providers, isHealthy, failures>>
    BY <2>1, <2>2 DEF RpcKept, RpcTyped
  <2> QED
    BY <2>1, <2>2, RpcStays DEF RpcKept
<1>3. RpcKept => RpcSetAside
  <2> SUFFICES ASSUME RpcTyped, NEW p \in Rpc!Listed
               PROVE  isHealthy[p] <=> failures[p] < unhealthyAfter
    BY DEF RpcKept, RpcSetAside, Rpc!SetAsideWhenFailing
  <2>1. PICK i \in DOMAIN providers : p = providers[i]
    BY DEF Rpc!Listed
  <2>2. p \in Provider
    BY <2>1, LenProperties, ElementOfSeq DEF RpcTyped
  <2> QED
    BY <2>2 DEF RpcTyped, Agree
<1> QED
  BY <1>1, <1>2, <1>3, PTL DEF ServicesSpec

(***************************************************************************)
(* Mail                                                                    *)
(***************************************************************************)
Letter == [mail : Mail, timestamp : Nat]

LEMMA MailsOf ==
    ASSUME NEW s \in Seq(Letter)
    PROVE  /\ Eml!Mails(<<>>) = {}
           /\ Eml!Mails(s) \subseteq Mail
           /\ \A e \in Letter : /\ Append(s, e) \in Seq(Letter)
                                /\ Eml!Mails(Append(s, e)) = Eml!Mails(s) \cup {e.mail}
           /\ s # <<>> => /\ Head(s) \in Letter
                          /\ Tail(s) \in Seq(Letter)
                          /\ Eml!Mails(s) = Eml!Mails(Tail(s)) \cup {Head(s).mail}
<1>1. Eml!Mails(<<>>) = {}
  BY DEF Eml!Mails
<1>2. DOMAIN s = 1..Len(s) /\ Len(s) \in Nat /\ \A i \in 1..Len(s) : s[i] \in Letter
  BY LenProperties, ElementOfSeq
<1>3. Eml!Mails(s) \subseteq Mail
  BY <1>2 DEF Eml!Mails, Letter
<1>4. ASSUME NEW e \in Letter
      PROVE  /\ Append(s, e) \in Seq(Letter)
             /\ Eml!Mails(Append(s, e)) = Eml!Mails(s) \cup {e.mail}
  <2>1. /\ Append(s, e) \in Seq(Letter)
        /\ DOMAIN Append(s, e) = DOMAIN s \cup {Len(s) + 1}
        /\ \A i \in DOMAIN s : Append(s, e)[i] = s[i]
        /\ Append(s, e)[Len(s) + 1] = e
    <3>1. /\ Append(s, e) \in Seq(Letter)
          /\ Len(Append(s, e)) = Len(s) + 1
          /\ \A i \in 1..Len(s) : Append(s, e)[i] = s[i]
          /\ Append(s, e)[Len(s) + 1] = e
      BY AppendProperties
    <3>2. DOMAIN Append(s, e) = 1..(Len(s) + 1)
      BY <3>1, LenProperties
    <3> QED
      BY <1>2, <3>1, <3>2
  <2> QED
    BY <2>1 DEF Eml!Mails
<1>5. ASSUME s # <<>>
      PROVE  /\ Head(s) \in Letter
             /\ Tail(s) \in Seq(Letter)
             /\ Eml!Mails(s) = Eml!Mails(Tail(s)) \cup {Head(s).mail}
  <2>1. /\ Head(s) \in Letter
        /\ Tail(s) \in Seq(Letter)
        /\ Len(Tail(s)) = Len(s) - 1
        /\ \A i \in 1..Len(Tail(s)) : Tail(s)[i] = s[i + 1]
    BY <1>5, HeadTailProperties
  <2>2. Len(s) > 0 /\ Head(s) = s[1]
    BY <1>5, EmptySeq
  <2>3. DOMAIN Tail(s) = 1..(Len(s) - 1)
    BY <2>1, LenProperties
  <2>4. ASSUME NEW i \in DOMAIN s
        PROVE  s[i].mail \in Eml!Mails(Tail(s)) \cup {Head(s).mail}
    <3>1. CASE i = 1
      BY <2>2, <3>1
    <3>2. CASE i # 1
      <4>1. i - 1 \in DOMAIN Tail(s) /\ Tail(s)[i - 1] = s[i]
        BY <1>2, <2>1, <2>3, <3>2
      <4> QED
        BY <4>1 DEF Eml!Mails
    <3> QED
      BY <3>1, <3>2
  <2>5. ASSUME NEW i \in DOMAIN Tail(s)
        PROVE  Tail(s)[i].mail \in Eml!Mails(s)
    <3>1. i + 1 \in DOMAIN s /\ Tail(s)[i] = s[i + 1]
      BY <1>2, <2>1, <2>3
    <3> QED
      BY <3>1 DEF Eml!Mails
  <2>6. Head(s).mail \in Eml!Mails(s)
    BY <1>2, <2>2 DEF Eml!Mails
  <2> QED
    BY <2>1, <2>4, <2>5, <2>6 DEF Eml!Mails
<1> QED
  BY <1>1, <1>3, <1>4, <1>5

(* A full queue gives up its oldest mail for the new one, and no other.     *)
LEMMA QueuedKeeps ==
    ASSUME NEW q \in Seq(Letter), NEW e \in Letter
    PROVE  /\ Eml!Queued(q, e) \in Seq(Letter)
           /\ Eml!Mails(Eml!Queued(q, e)) \cup Eml!PushedOut(q) = Eml!Mails(q) \cup {e.mail}
<1>1. CASE Len(q) >= queueLimit
  <2>1. q # <<>>
    BY <1>1, ServicesAssumption, EmptySeq
  <2>2. Eml!Queued(q, e) = Append(Tail(q), e)
    BY <1>1, <2>1, HeadTailAppend DEF Eml!Queued
  <2>3. Eml!PushedOut(q) = {Head(q).mail}
    BY <1>1 DEF Eml!PushedOut
  <2>4. Tail(q) \in Seq(Letter) /\ Eml!Mails(q) = Eml!Mails(Tail(q)) \cup {Head(q).mail}
    BY <2>1, MailsOf
  <2>5. /\ Append(Tail(q), e) \in Seq(Letter)
        /\ Eml!Mails(Append(Tail(q), e)) = Eml!Mails(Tail(q)) \cup {e.mail}
    BY <2>4, MailsOf
  <2> QED
    BY <2>2, <2>3, <2>4, <2>5
<1>2. CASE ~(Len(q) >= queueLimit)
  <2>1. Eml!Queued(q, e) = Append(q, e) /\ Eml!PushedOut(q) = {}
    BY <1>2 DEF Eml!Queued, Eml!PushedOut
  <2> QED
    BY <2>1, MailsOf
<1> QED
  BY <1>1, <1>2

(* The mail under way from the queue is still the first of what is left.    *)
MailTyped ==
    /\ now \in Nat
    /\ fallbackEmailQueue \in Seq(Letter)
    /\ todo \in Seq(Letter)
    /\ current # none => todo # <<>> /\ current = Head(todo).mail
    /\ Eml!KeptUntilSent
MailKept == service = "mail" => MailTyped

LEMMA MailStays ==
    ASSUME MailTyped, Eml!Next
    PROVE  MailTyped'
<1> DEFINE waiting == Eml!Mails(fallbackEmailQueue)
           left == Eml!Mails(todo)
<1>1. refused \subseteq waiting \cup left \cup sent \cup dropped
  BY DEF MailTyped, Eml!KeptUntilSent
<1>2. Eml!KeptUntilSent' <=>
        refused' \subseteq waiting' \cup left' \cup sent' \cup dropped'
  BY DEF Eml!KeptUntilSent
<1>3. ASSUME NEW m \in Mail, Eml!Send(m)
      PROVE  MailTyped'
  <2> DEFINE e == [mail |-> m, timestamp |-> now]
  <2>1. e \in Letter /\ e.mail = m
    BY DEF Letter, MailTyped
  <2> HIDE DEF e
  <2>2. /\ m \in fresh /\ fresh' = fresh \ {m}
        /\ UNCHANGED <<now, todo, current, sent>>
        /\ \/ /\ Eml!QueueForLater(e)
              /\ refused' = refused \cup {m}
           \/ UNCHANGED <<fallbackEmailQueue, refused, dropped>>
    BY <1>3 DEF Eml!Send, e
  <2>3. CASE Eml!QueueForLater(e) /\ refused' = refused \cup {m}
    <3>1. /\ fallbackEmailQueue' = Eml!Queued(fallbackEmailQueue, e)
          /\ dropped' = dropped \cup Eml!PushedOut(fallbackEmailQueue)
      BY <2>3 DEF Eml!QueueForLater
    <3>2. fallbackEmailQueue' \in Seq(Letter)
      BY <2>1, <3>1, QueuedKeeps DEF MailTyped
    <3>3. waiting' \cup Eml!PushedOut(fallbackEmailQueue) = waiting \cup {m}
      BY <2>1, <3>1, QueuedKeeps DEF MailTyped
    <3>4. left' = left
      BY <2>2
    <3> HIDE DEF waiting, left
    <3>5. Eml!KeptUntilSent'
      BY <1>1, <1>2, <2>2, <2>3, <3>1, <3>3, <3>4
    <3> QED
      BY <2>2, <3>2, <3>5 DEF MailTyped
  <2>4. CASE UNCHANGED <<fallbackEmailQueue, refused, dropped>>
    <3>1. left' = left /\ waiting' = waiting
      BY <2>2, <2>4
    <3> HIDE DEF waiting, left
    <3>2. Eml!KeptUntilSent'
      BY <1>1, <1>2, <2>2, <2>4, <3>1
    <3> QED
      BY <2>2, <2>4, <3>2 DEF MailTyped
  <2> QED
    BY <2>2, <2>3, <2>4
<1>4. ASSUME NEW m \in Mail, NEW ok \in BOOLEAN, Eml!Answer(m, ok)
      PROVE  MailTyped'
  <2>1. left' = left /\ waiting' = waiting
    BY <1>4 DEF Eml!Answer
  <2> HIDE DEF waiting, left
  <2>2. Eml!KeptUntilSent'
    BY <1>1, <1>2, <1>4, <2>1 DEF Eml!Answer
  <2> QED
    BY <1>4, <2>2 DEF Eml!Answer, MailTyped
<1>5. CASE Eml!ProcessQueue
  <2>1. \/ UNCHANGED <<todo, fallbackEmailQueue>>
        \/ todo' = fallbackEmailQueue /\ fallbackEmailQueue' = <<>>
    BY <1>5 DEF Eml!ProcessQueue
  <2>2. left' \cup waiting' = left \cup waiting
    BY <1>5, <2>1, MailsOf DEF Eml!ProcessQueue, Eml!Mails
  <2>3. fallbackEmailQueue' \in Seq(Letter) /\ todo' \in Seq(Letter)
    BY <2>1, EmptySeq DEF MailTyped
  <2> HIDE DEF waiting, left
  <2>4. Eml!KeptUntilSent'
    BY <1>1, <1>2, <1>5, <2>2 DEF Eml!ProcessQueue
  <2> QED
    BY <1>5, <2>3, <2>4 DEF Eml!ProcessQueue, MailTyped
<1>6. CASE Eml!SkipOld
  <2>1. /\ Tail(todo) \in Seq(Letter)
        /\ left = Eml!Mails(Tail(todo)) \cup {Head(todo).mail}
    BY <1>6, MailsOf DEF Eml!SkipOld, MailTyped, Letter
  <2>2. left' = Eml!Mails(Tail(todo)) /\ waiting' = waiting
    BY <1>6 DEF Eml!SkipOld
  <2> HIDE DEF waiting, left
  <2>3. Eml!KeptUntilSent'
    BY <1>1, <1>2, <1>6, <2>1, <2>2 DEF Eml!SkipOld
  <2> QED
    BY <1>6, <2>1, <2>3 DEF Eml!SkipOld, MailTyped
<1>7. CASE Eml!SendQueued
  <2> DEFINE e == Head(todo)
             late == [e EXCEPT !.timestamp = now]
  <2>1. /\ Tail(todo) \in Seq(Letter) /\ e \in Letter
        /\ left = Eml!Mails(Tail(todo)) \cup {e.mail}
    BY <1>7, MailsOf DEF Eml!SendQueued, MailTyped, Letter
  <2>2. late \in Letter /\ late.mail = e.mail
    BY <2>1 DEF Letter, MailTyped
  <2>3. /\ UNCHANGED <<now, fresh, sending, sent, refused>>
        /\ todo # <<>>
        /\ \/ todo' = Tail(todo) /\ Eml!Requeue(e) /\ UNCHANGED current
           \/ current' = e.mail /\ UNCHANGED <<todo, fallbackEmailQueue, dropped>>
    BY <1>7 DEF Eml!SendQueued
  <2>4. CASE todo' = Tail(todo) /\ Eml!Requeue(e) /\ UNCHANGED current
    <3> DEFINE q == Eml!Queued(fallbackEmailQueue, late)
    <3>1. /\ fallbackEmailQueue' = Append(q, e)
          /\ dropped' = dropped \cup Eml!PushedOut(fallbackEmailQueue)
      BY <2>4 DEF Eml!Requeue
    <3>2. /\ q \in Seq(Letter)
          /\ Eml!Mails(q) \cup Eml!PushedOut(fallbackEmailQueue) = waiting \cup {e.mail}
      BY <2>2, QueuedKeeps DEF MailTyped
    <3> HIDE DEF q, e
    <3>3. fallbackEmailQueue' \in Seq(Letter) /\ waiting' = Eml!Mails(q) \cup {e.mail}
      BY <2>1, <3>1, <3>2, MailsOf
    <3>4. left' = Eml!Mails(Tail(todo)) /\ current = none
      BY <1>7, <2>4 DEF Eml!SendQueued
    <3> HIDE DEF waiting, left
    <3>5. Eml!KeptUntilSent'
      BY <1>1, <1>2, <2>1, <2>3, <3>1, <3>2, <3>3, <3>4
    <3> QED
      BY <2>1, <2>3, <2>4, <3>3, <3>4, <3>5 DEF MailTyped
  <2>5. CASE current' = e.mail /\ UNCHANGED <<todo, fallbackEmailQueue, dropped>>
    <3>1. left' = left /\ waiting' = waiting
      BY <2>5
    <3> HIDE DEF waiting, left
    <3>2. Eml!KeptUntilSent'
      BY <1>1, <1>2, <2>3, <2>5, <3>1
    <3> QED
      BY <2>3, <2>5, <3>2 DEF MailTyped
  <2> QED
    BY <2>3, <2>4, <2>5
<1>8. ASSUME NEW ok \in BOOLEAN, Eml!AnswerQueued(ok)
      PROVE  MailTyped'
  <2> DEFINE e == Head(todo)
  <2>1. /\ Tail(todo) \in Seq(Letter) /\ e \in Letter /\ current = e.mail
        /\ left = Eml!Mails(Tail(todo)) \cup {e.mail}
    BY <1>8, MailsOf DEF Eml!AnswerQueued, MailTyped, Letter
  <2>2. /\ UNCHANGED <<now, fresh, sending, refused, dropped>>
        /\ current' = none /\ todo' = Tail(todo)
        /\ sent' = IF ok THEN sent \cup {current} ELSE sent
        /\ fallbackEmailQueue' = IF ok THEN fallbackEmailQueue
                                 ELSE Append(fallbackEmailQueue, e)
    BY <1>8 DEF Eml!AnswerQueued, Eml!KeepFailed
  <2> HIDE DEF e
  <2>3. /\ fallbackEmailQueue' \in Seq(Letter)
        /\ waiting' = IF ok THEN waiting ELSE waiting \cup {e.mail}
    BY <2>1, <2>2, MailsOf DEF MailTyped
  <2>4. left' = Eml!Mails(Tail(todo))
    BY <2>2
  <2> HIDE DEF waiting, left
  <2>5. Eml!KeptUntilSent'
    BY <1>1, <1>2, <2>1, <2>2, <2>3, <2>4
  <2> QED
    BY <2>1, <2>2, <2>3, <2>5 DEF MailTyped
<1>9. CASE Eml!Tick
  BY <1>9 DEF Eml!Tick, MailTyped, Eml!KeptUntilSent
<1> QED
  BY <1>3, <1>4, <1>5, <1>6, <1>7, <1>8, <1>9 DEF Eml!Next

(* A mail the circuit refused waits, was sent, or was given up for its age   *)
(* or a full queue, whatever the circuit does in between.                    *)
THEOREM MailIsKept == ServicesSpec => []MailKeptUntilSent
<1>1. ServicesInit => MailKept
  BY EmptySeq DEF ServicesInit, Dlq!Init, MailKept, MailTyped, Eml!KeptUntilSent, Eml!Mails
<1>2. MailKept /\ [ServicesNext]_serviceVars => MailKept'
  <2> SUFFICES ASSUME MailKept, [ServicesNext]_serviceVars, service' = "mail"
               PROVE  MailTyped'
    BY DEF MailKept
  <2>1. service = "mail" /\ (Eml!Next \/ UNCHANGED <<now, mailVars>>)
    BY OneService
  <2>2. CASE UNCHANGED <<now, mailVars>>
    BY <2>1, <2>2 DEF MailKept, MailTyped, Eml!KeptUntilSent, mailVars
  <2> QED
    BY <2>1, <2>2, MailStays DEF MailKept
<1>3. MailKept => MailKeptUntilSent
  BY DEF MailKept, MailTyped, MailKeptUntilSent
<1> QED
  BY <1>1, <1>2, <1>3, PTL DEF ServicesSpec

(***************************************************************************)
(* Dead letters                                                            *)
(***************************************************************************)
(* What an administrator is about to remove was handled, a message that is   *)
(* in the table has not left, and one that has left never returns.           *)
LettersTyped ==
    /\ now \in Nat
    /\ table \subseteq Message
    /\ created \in [Message -> Nat]
    /\ gone \in [Message -> {"no", "handled", "deleted", "expired"}]
    /\ admins \in [Admin -> {"idle", "listed", "handling", "removing", "counting"}]
    /\ retried \in [Admin -> Message \cup {none}]
    /\ \A m \in table : gone[m] = "no"
    /\ \A x \in Admin : admins[x] = "removing" => retried[x] \in handled
    /\ Dlq!LeavesForAReason
LettersKept == service = "dead letters" => LettersTyped

LEMMA LeavingIsTyped ==
    ASSUME LettersTyped, UNCHANGED <<now, created, handled>>,
           NEW ms, NEW why \in {"handled", "deleted", "expired"}, Dlq!Leave(ms, why),
           why = "handled" => ms \subseteq handled,
           why = "expired" => \A m \in ms : now - created[m] > maxRetention
    PROVE  /\ table' \subseteq Message
           /\ gone' \in [Message -> {"no", "handled", "deleted", "expired"}]
           /\ \A m \in table' : gone'[m] = "no"
           /\ Dlq!LeavesForAReason'
<1>1. table' = table \ ms
  BY DEF Dlq!Leave
<1>2. gone' = [m \in Message |-> IF m \in ms \cap table THEN why ELSE gone[m]]
  BY DEF Dlq!Leave
<1>3. \A m \in Message : gone'[m] = IF m \in ms \cap table THEN why ELSE gone[m]
  BY <1>2
<1>4. gone' \in [Message -> {"no", "handled", "deleted", "expired"}]
  BY <1>2 DEF LettersTyped
<1>5. table' \subseteq Message /\ \A m \in table' : gone'[m] = "no"
  BY <1>1, <1>3 DEF LettersTyped
<1>6. ASSUME NEW m \in Message
      PROVE  /\ gone'[m] = "handled" => m \in handled
             /\ gone'[m] = "expired" => now - created[m] > maxRetention
  BY <1>3 DEF LettersTyped, Dlq!LeavesForAReason
<1> QED
  BY <1>4, <1>5, <1>6 DEF Dlq!LeavesForAReason

LEMMA LettersStay ==
    ASSUME LettersTyped, Dlq!Next
    PROVE  LettersTyped'
<1> USE DEF Dlq!tableVars, Dlq!adminVars
<1>1. ASSUME NEW m \in Message, Dlq!AddMessage(m)
      PROVE  LettersTyped'
  <2>1. /\ gone[m] = "no" /\ table' = table \cup {m}
        /\ created' = [created EXCEPT ![m] = now]
        /\ UNCHANGED <<now, admins, retried, handled, gone>>
    BY <1>1 DEF Dlq!AddMessage
  <2>2. Dlq!LeavesForAReason'
    BY <2>1 DEF LettersTyped, Dlq!LeavesForAReason
  <2> QED
    BY <2>1, <2>2 DEF LettersTyped
<1>2. ASSUME NEW m \in Message, Dlq!RemoveMessage(m)
      PROVE  LettersTyped'
  <2>1. Dlq!Leave({m}, "deleted") /\ UNCHANGED <<now, created, admins, retried, handled>>
    BY <1>2 DEF Dlq!RemoveMessage
  <2> QED
    BY <2>1, LeavingIsTyped DEF LettersTyped
<1>3. ASSUME NEW x \in Admin, Dlq!RetryQueue(x)
      PROVE  LettersTyped'
  BY <1>3 DEF Dlq!RetryQueue, LettersTyped, Dlq!LeavesForAReason
<1>4. ASSUME NEW x \in Admin, NEW m \in Message, Dlq!RetryMessage(x, m)
      PROVE  LettersTyped'
  <2>1. /\ UNCHANGED <<now, table, created, handled, gone>>
        /\ \/ /\ admins' = [admins EXCEPT ![x] = "handling"]
              /\ retried' = [retried EXCEPT ![x] = m]
           \/ /\ \E p \in {"idle", "listed"} : admins' = [admins EXCEPT ![x] = p]
              /\ UNCHANGED retried
    BY <1>4 DEF Dlq!RetryMessage
  <2> QED
    BY <2>1 DEF LettersTyped, Dlq!LeavesForAReason
<1>5. ASSUME NEW x \in Admin, NEW ok \in BOOLEAN, NEW effect \in BOOLEAN,
             Dlq!HandlerEnds(x, ok, effect)
      PROVE  LettersTyped'
  <2>1. /\ UNCHANGED <<now, table, created, retried, gone>>
        /\ handled \subseteq handled'
        /\ \/ admins' = [admins EXCEPT ![x] = "counting"]
           \/ admins' = [admins EXCEPT ![x] = "removing"] /\ retried[x] \in handled'
    BY <1>5 DEF Dlq!HandlerEnds
  <2>2. Dlq!LeavesForAReason'
    BY <2>1 DEF LettersTyped, Dlq!LeavesForAReason
  <2>3. \A z \in Admin : admins'[z] = "removing" => retried'[z] \in handled'
    BY <2>1 DEF LettersTyped
  <2> QED
    BY <2>1, <2>2, <2>3 DEF LettersTyped
<1>6. ASSUME NEW x \in Admin,
             \E p \in {"idle", "listed"} : admins' = [admins EXCEPT ![x] = p],
             retried' = [retried EXCEPT ![x] = none]
      PROVE  /\ admins' \in [Admin -> {"idle", "listed", "handling", "removing", "counting"}]
             /\ retried' \in [Admin -> Message \cup {none}]
             /\ \A z \in Admin : admins'[z] = "removing" => retried'[z] \in handled
  BY <1>6 DEF LettersTyped
<1>7. ASSUME NEW x \in Admin, NEW ok \in BOOLEAN, Dlq!RemoveHandled(x, ok)
      PROVE  LettersTyped'
  <2>1. UNCHANGED <<now, created, handled>> /\ admins[x] = "removing"
    BY <1>7 DEF Dlq!RemoveHandled
  <2>2. CASE ok
    <3>1. Dlq!Leave({retried[x]}, "handled") /\ Dlq!Done(x)
      BY <1>7, <2>2 DEF Dlq!RemoveHandled
    <3>2. {retried[x]} \subseteq handled
      BY <2>1 DEF LettersTyped
    <3>3. /\ table' \subseteq Message
          /\ gone' \in [Message -> {"no", "handled", "deleted", "expired"}]
          /\ \A m \in table' : gone'[m] = "no"
          /\ Dlq!LeavesForAReason'
      BY <2>1, <3>1, <3>2, LeavingIsTyped
    <3>4. /\ \E p \in {"idle", "listed"} : admins' = [admins EXCEPT ![x] = p]
          /\ retried' = [retried EXCEPT ![x] = none]
      BY <3>1 DEF Dlq!Done
    <3> QED
      BY <1>6, <2>1, <3>3, <3>4 DEF LettersTyped
  <2>3. CASE ~ok
    BY <1>7, <2>3 DEF Dlq!RemoveHandled, LettersTyped, Dlq!LeavesForAReason
  <2> QED
    BY <2>2, <2>3
<1>8. ASSUME NEW x \in Admin, NEW ok \in BOOLEAN, Dlq!UpdateRetryCount(x, ok)
      PROVE  LettersTyped'
  <2>1. /\ UNCHANGED <<now, table, created, handled, gone>>
        /\ \E p \in {"idle", "listed"} : admins' = [admins EXCEPT ![x] = p]
        /\ retried' = [retried EXCEPT ![x] = none]
    BY <1>8 DEF Dlq!UpdateRetryCount, Dlq!Done
  <2> QED
    BY <1>6, <2>1 DEF LettersTyped, Dlq!LeavesForAReason
<1>9. CASE Dlq!ClearQueue
  <2>1. Dlq!Leave(table, "deleted") /\ UNCHANGED <<now, created, admins, retried, handled>>
    BY <1>9 DEF Dlq!ClearQueue
  <2> QED
    BY <2>1, LeavingIsTyped DEF LettersTyped
<1>10. CASE Dlq!Cleanup
  <2>1. Dlq!Leave(Dlq!Expired, "expired") /\ UNCHANGED <<now, created, admins, retried, handled>>
    BY <1>10 DEF Dlq!Cleanup
  <2>2. \A m \in Dlq!Expired : now - created[m] > maxRetention
    BY DEF Dlq!Expired
  <2>3. /\ table' \subseteq Message
        /\ gone' \in [Message -> {"no", "handled", "deleted", "expired"}]
        /\ \A m \in table' : gone'[m] = "no"
        /\ Dlq!LeavesForAReason'
    BY <2>1, <2>2, LeavingIsTyped
  <2> QED
    BY <2>1, <2>3 DEF LettersTyped
<1>11. CASE Dlq!Tick
  <2>1. now' = now + 1 /\ UNCHANGED <<table, created, admins, retried, handled, gone>>
    BY <1>11 DEF Dlq!Tick
  <2>2. \A m \in Message : now - created[m] > maxRetention => now' - created[m] > maxRetention
    BY <2>1, ServicesAssumption DEF LettersTyped
  <2>3. Dlq!LeavesForAReason'
    BY <2>1, <2>2 DEF LettersTyped, Dlq!LeavesForAReason
  <2> QED
    BY <2>1, <2>3 DEF LettersTyped
<1> QED
  BY <1>1, <1>2, <1>3, <1>4, <1>5, <1>7, <1>8, <1>9, <1>10, <1>11 DEF Dlq!Next

(* A message leaves the dead letters after it was handled, was deleted by    *)
(* hand, or after its days were over, whoever else retries it.               *)
THEOREM LettersLeave == ServicesSpec => []LettersLeaveForAReason
<1>1. ServicesInit => LettersKept
  <2> SUFFICES ASSUME ServicesInit
               PROVE  LettersTyped
    BY DEF LettersKept
  <2>1. /\ now = 0 /\ table = {} /\ created = [m \in Message |-> 0]
        /\ gone = [m \in Message |-> "no"] /\ handled = {}
        /\ admins = [x \in Admin |-> "idle"] /\ retried = [x \in Admin |-> none]
    BY DEF ServicesInit, Dlq!Init
  <2>2. Dlq!LeavesForAReason
    BY <2>1 DEF Dlq!LeavesForAReason
  <2> QED
    BY <2>1, <2>2 DEF LettersTyped
<1>2. LettersKept /\ [ServicesNext]_serviceVars => LettersKept'
  <2> SUFFICES ASSUME LettersKept, [ServicesNext]_serviceVars, service' = "dead letters"
               PROVE  LettersTyped'
    BY DEF LettersKept
  <2>1. service = "dead letters" /\ (Dlq!Next \/ UNCHANGED <<now, dlqVars>>)
    BY OneService
  <2>2. CASE UNCHANGED <<now, dlqVars>>
    BY <2>1, <2>2 DEF LettersKept, LettersTyped, Dlq!LeavesForAReason, dlqVars
  <2> QED
    BY <2>1, <2>2, LettersStay DEF LettersKept
<1>3. LettersKept => LettersLeaveForAReason
  BY DEF LettersKept, LettersTyped, LettersLeaveForAReason
<1> QED
  BY <1>1, <1>2, <1>3, PTL DEF ServicesSpec

(***************************************************************************)
(* Rate limits                                                             *)
(***************************************************************************)
PassedIn(g, from, to) == {i \in DOMAIN g : g[i] \in from..to}

(* More time counts more requests, and one that passes is counted.          *)
LEMMA PassedGrows ==
    ASSUME NEW g \in Seq(Nat), NEW n \in Nat, NEW from \in Nat, NEW to \in Nat,
           NEW later \in Nat, to <= later
    PROVE  /\ Cardinality(PassedIn(g, from, to)) \in Nat
           /\ Cardinality(PassedIn(g, from, later)) \in Nat
           /\ Cardinality(PassedIn(Append(g, n), from, later)) \in Nat
           /\ Cardinality(PassedIn(g, from, to)) <= Cardinality(PassedIn(g, from, later))
           /\ Cardinality(PassedIn(g, from, to))
                <= Cardinality(PassedIn(Append(g, n), from, later))
           /\ n \in from..later =>
                Cardinality(PassedIn(g, from, to)) + 1
                    <= Cardinality(PassedIn(Append(g, n), from, later))
<1> DEFINE A == PassedIn(g, from, to)
           B == PassedIn(g, from, later)
           C == PassedIn(Append(g, n), from, later)
           last == Len(g) + 1
<1>1. Append(g, n) \in Seq(Nat) /\ DOMAIN g = 1..Len(g) /\ DOMAIN Append(g, n) = 1..last
      /\ Len(g) \in Nat
  OBVIOUS
<1>2. \A i \in DOMAIN g : i \in DOMAIN Append(g, n) /\ Append(g, n)[i] = g[i] /\ g[i] \in Nat
  BY <1>1
<1>3. last \in DOMAIN Append(g, n) /\ Append(g, n)[last] = n /\ last \notin DOMAIN g
  BY <1>1
<1>4. IsFiniteSet(B) /\ IsFiniteSet(C)
  <2>1. IsFiniteSet(1..Len(g)) /\ IsFiniteSet(1..last)
    BY <1>1, FS_Interval
  <2>2. B \subseteq 1..Len(g) /\ C \subseteq 1..last
    BY <1>1 DEF PassedIn
  <2> QED
    BY <2>1, <2>2, FS_Subset
<1>5. A \subseteq B
  BY <1>2 DEF PassedIn
<1>6. B \subseteq C
  BY <1>2 DEF PassedIn
<1>7. /\ IsFiniteSet(A) /\ Cardinality(A) \in Nat /\ Cardinality(A) <= Cardinality(B)
      /\ Cardinality(B) \in Nat /\ Cardinality(C) \in Nat /\ Cardinality(B) <= Cardinality(C)
  BY <1>4, <1>5, <1>6, FS_Subset, FS_CardinalityType
<1>8. ASSUME n \in from..later
      PROVE  Cardinality(A) + 1 <= Cardinality(C)
  <2>1. last \notin A /\ A \cup {last} \subseteq C
    BY <1>3, <1>5, <1>6, <1>8 DEF PassedIn
  <2>2. IsFiniteSet(A \cup {last}) /\ Cardinality(A \cup {last}) = Cardinality(A) + 1
    BY <1>7, <2>1, FS_AddElement
  <2> HIDE DEF A, C, last
  <2> QED
    BY <1>4, <2>1, <2>2, FS_Subset
<1> QED
  BY <1>7, <1>8

(* A bucket holds no more tokens than requests passed since it began, and    *)
(* one about to be written back has counted the request it is written for.   *)
Past(g, from, to) == Cardinality(PassedIn(g, from, to))
Usage == [tokens : Nat, start : Nat, burstUsed : Nat, last : Nat]
Counted(u, g, t) ==
    /\ u \in Usage /\ u.start <= t
    /\ u.tokens <= Past(g, u.start, t)
    /\ u.burstUsed <= Past(g, u.start, t)
Least(r) == IF r.burstCapacity < r.requests THEN r.burstCapacity ELSE r.requests
Limits == [requests : Nat, burstCapacity : Nat]

Counting(call, g, t) ==
    /\ call.step \in {"asked", "consuming", "refused"} /\ call.rule \in Limits
    /\ call.step = "asked" => call.from \in Nat /\ call.from <= t
    /\ call.step \in {"consuming", "refused"} =>
           call.usage \in Usage /\ call.at \in Nat /\ call.usage.start <= call.at /\ call.at <= t
    /\ call.step = "consuming" =>
           /\ call.usage.tokens + 1 <= Past(g, call.usage.start, call.at)
           /\ call.usage.burstUsed + 1 <= Past(g, call.usage.start, call.at)
    /\ call.step = "refused" => Past(g, call.usage.start, call.at) >= Least(call.rule)

LimitsTyped ==
    /\ now \in Nat /\ grants \in Seq(Nat)
    /\ tier \in DOMAIN Rule
    /\ limited = [c \in Request |-> limited[c]]
    /\ bucket # none => Counted(bucket, grants, now)
    /\ \A c \in Request : limited[c] # none => Counting(limited[c], grants, now)
LimitsKept == service = "limits" => LimitsTyped

StillCounts(g, t, h, later) ==
    /\ \A u : Counted(u, g, t) => Counted(u, h, later)
    /\ \A call : Counting(call, g, t) => Counting(call, h, later)

(* What was counted stays counted while time and requests pass.             *)
LEMMA CountsStay ==
    ASSUME NEW g \in Seq(Nat), NEW t \in Nat, NEW h \in {g, Append(g, t)},
           NEW later \in Nat, t <= later
    PROVE  h \in Seq(Nat) /\ StillCounts(g, t, h, later)
<1>1. h \in Seq(Nat)
  OBVIOUS
<1>2. ASSUME NEW from \in Nat, NEW to \in Nat, NEW last \in Nat, to <= last
      PROVE  /\ Past(g, from, to) \in Nat /\ Past(h, from, last) \in Nat
             /\ Past(g, from, to) <= Past(h, from, last)
  <2>1. CASE h = g
    BY <1>2, <2>1, PassedGrows, Zenon DEF Past
  <2>2. CASE h = Append(g, t)
    BY <1>2, <2>2, PassedGrows, Zenon DEF Past
  <2> QED
    BY <2>1, <2>2
<1>3. ASSUME NEW u, Counted(u, g, t)
      PROVE  Counted(u, h, later)
  <2>1. u.start \in Nat /\ u.tokens \in Nat /\ u.burstUsed \in Nat /\ u.start <= t
    BY <1>3 DEF Counted, Usage
  <2>2. /\ Past(g, u.start, t) \in Nat /\ Past(h, u.start, later) \in Nat
        /\ Past(g, u.start, t) <= Past(h, u.start, later)
    BY <1>2, <2>1
  <2> QED
    BY <1>3, <2>1, <2>2 DEF Counted
<1>4. ASSUME NEW call, Counting(call, g, t)
      PROVE  Counting(call, h, later)
  <2>1. CASE call.step = "asked"
    BY <1>4, <2>1 DEF Counting
  <2>2. CASE call.step # "asked"
    <3>1. /\ call.usage.start \in Nat /\ call.usage.tokens \in Nat /\ call.usage.burstUsed \in Nat
          /\ call.at \in Nat /\ call.rule \in Limits /\ call.at <= call.at
      BY <1>4, <2>2 DEF Counting, Usage
    <3>2. /\ Past(g, call.usage.start, call.at) \in Nat
          /\ Past(h, call.usage.start, call.at) \in Nat
          /\ Past(g, call.usage.start, call.at) <= Past(h, call.usage.start, call.at)
      BY <1>2, <3>1, Zenon
    <3>3. Least(call.rule) \in Nat
      BY <3>1 DEF Least, Limits
    <3> DEFINE before == Past(g, call.usage.start, call.at)
               after == Past(h, call.usage.start, call.at)
               most == Least(call.rule)
    <3> HIDE DEF before, after, most
    <3>4. before \in Nat /\ after \in Nat /\ most \in Nat /\ before <= after
      BY <3>2, <3>3 DEF before, after, most
    <3>5. ASSUME call.step = "consuming"
          PROVE  call.usage.tokens + 1 <= after /\ call.usage.burstUsed + 1 <= after
      <4>1. call.usage.tokens + 1 <= before /\ call.usage.burstUsed + 1 <= before
        BY <1>4, <3>5 DEF Counting, before
      <4> QED
        BY <3>1, <3>4, <4>1
    <3>6. ASSUME call.step = "refused"
          PROVE  after >= most
      <4>1. before >= most
        BY <1>4, <3>6 DEF Counting, before, most
      <4> QED
        BY <3>4, <4>1
    <3>7. /\ call.step \in {"consuming", "refused"} /\ call.rule \in Limits
          /\ call.usage \in Usage /\ call.usage.start <= call.at /\ call.at <= later
      BY <1>4, <2>2, <3>1 DEF Counting
    <3> QED
      BY <3>1, <3>5, <3>6, <3>7 DEF Counting, after, most
  <2> QED
    BY <2>1, <2>2
<1> QED
  BY <1>1, <1>3, <1>4 DEF StillCounts

(* What is read from the bucket is counted, whenever it was asked for.      *)
LEMMA UsageIsCounted ==
    ASSUME LimitsTyped, NEW t \in Nat, t <= now
    PROVE  Counted(Lim!GetCurrentUsage(t), grants, now)
<1>1. /\ now \in Nat /\ grants \in Seq(Nat) /\ windowMs \in Nat /\ now <= now
      /\ bucket # none => Counted(bucket, grants, now)
  BY ServicesAssumption DEF LimitsTyped
<1>2. ASSUME NEW from \in Nat
      PROVE  Past(grants, from, now) \in Nat
  BY <1>1, PassedGrows, Zenon DEF Past
<1>3. Counted(Lim!Fresh(t), grants, now)
  <2>1. Lim!Fresh(t).start = t /\ Lim!Fresh(t).tokens = 0 /\ Lim!Fresh(t).burstUsed = 0
        /\ Lim!Fresh(t) \in Usage
    BY DEF Lim!Fresh, Usage
  <2>2. Past(grants, t, now) \in Nat
    BY <1>2
  <2> QED
    BY <2>1, <2>2 DEF Counted
<1>4. ASSUME bucket # none, NEW u, u = [bucket EXCEPT !.burstUsed =
                                IF t - bucket.last >= burstWindowMs THEN 0 ELSE @]
      PROVE  Counted(u, grants, now)
  <2>1. bucket \in Usage /\ bucket.start <= now
        /\ bucket.tokens <= Past(grants, bucket.start, now)
        /\ bucket.burstUsed <= Past(grants, bucket.start, now)
    BY <1>1, <1>4 DEF Counted
  <2>2. /\ u \in Usage /\ u.start = bucket.start /\ u.tokens = bucket.tokens
        /\ u.burstUsed \in {0, bucket.burstUsed}
    BY <1>4, <2>1 DEF Usage
  <2>3. bucket.start \in Nat
    BY <2>1 DEF Usage
  <2>4. Past(grants, bucket.start, now) \in Nat
    BY <1>2, <2>3
  <2> QED
    BY <2>1, <2>2, <2>4 DEF Counted
<1>5. Lim!GetCurrentUsage(t) =
          IF bucket = none \/ t >= bucket.start + windowMs THEN Lim!Fresh(t)
          ELSE [bucket EXCEPT !.burstUsed = IF t - bucket.last >= burstWindowMs THEN 0 ELSE @]
  BY DEF Lim!GetCurrentUsage
<1>6. CASE bucket = none \/ t >= bucket.start + windowMs
  BY <1>3, <1>5, <1>6, Zenon
<1>7. CASE ~(bucket = none \/ t >= bucket.start + windowMs)
  <2> DEFINE u == [bucket EXCEPT !.burstUsed = IF t - bucket.last >= burstWindowMs THEN 0 ELSE @]
  <2>1. Lim!GetCurrentUsage(t) = u
    BY <1>5, <1>7, Zenon
  <2>2. Counted(u, grants, now)
    BY <1>4, <1>7
  <2> QED
    BY <2>1, <2>2, Zenon
<1> QED
  BY <1>6, <1>7, Zenon

LEMMA LimitsStay ==
    ASSUME LimitsTyped, Lim!Next
    PROVE  LimitsTyped'
<1>1. /\ now \in Nat /\ grants \in Seq(Nat) /\ tier \in DOMAIN Rule
      /\ limited = [c \in Request |-> limited[c]]
      /\ bucket # none => Counted(bucket, grants, now)
      /\ \A c \in Request : limited[c] # none => Counting(limited[c], grants, now)
  BY DEF LimitsTyped
<1>2. now <= now
  BY <1>1
<1>3. ASSUME UNCHANGED now, grants' = grants \/ grants' = Append(grants, now)
      PROVE  /\ grants' \in Seq(Nat)
             /\ \A u : Counted(u, grants, now) => Counted(u, grants', now')
             /\ \A call : Counting(call, grants, now) => Counting(call, grants', now')
  <2>1. grants' \in {grants, Append(grants, now)}
    BY <1>3
  <2>2. grants' \in Seq(Nat) /\ StillCounts(grants, now, grants', now)
    BY <1>1, <1>2, <2>1, CountsStay
  <2> QED
    BY <1>3, <2>2 DEF StillCounts
<1>4. ASSUME NEW c \in Request, NEW v, limited' = [limited EXCEPT ![c] = v],
             v # none => Counting(v, grants', now'),
             \A call : Counting(call, grants, now) => Counting(call, grants', now')
      PROVE  /\ limited' = [x \in Request |-> limited'[x]]
             /\ \A x \in Request : limited'[x] # none => Counting(limited'[x], grants', now')
  <2>1. limited' = [x \in Request |-> IF x = c THEN v ELSE limited[x]]
    BY <1>1, <1>4
  <2>2. \A x \in Request : limited'[x] = IF x = c THEN v ELSE limited[x]
    BY <2>1
  <2> QED
    BY <1>1, <1>4, <2>1, <2>2
<1>5. ASSUME NEW c \in Request, NEW ok \in BOOLEAN, Lim!CheckRateLimit(c, ok)
      PROVE  LimitsTyped'
  <2> DEFINE v == [step |-> "asked", from |-> now, rule |-> Rule[IF ok THEN tier ELSE "FREE"]]
  <2>1. limited' = [limited EXCEPT ![c] = v] /\ UNCHANGED <<now, bucket, tier, grants>>
    BY <1>5 DEF Lim!CheckRateLimit
  <2>2. v.rule \in Limits
    BY <1>1, ServicesAssumption DEF Limits
  <2>3. Counting(v, grants, now)
    BY <1>1, <1>2, <2>2 DEF Counting
  <2> HIDE DEF v
  <2>4. Counting(v, grants', now')
    BY <2>1, <2>3
  <2> QED
    BY <1>1, <1>3, <1>4, <2>1, <2>4 DEF LimitsTyped
<1>6. ASSUME NEW c \in Request, Lim!Decide(c)
      PROVE  LimitsTyped'
  <2> DEFINE call == limited[c]
             u == Lim!GetCurrentUsage(call.from)
             allowed == Lim!IsRequestAllowed(u, call.rule, now)
             v == [step |-> IF allowed THEN "consuming" ELSE "refused",
                   rule |-> call.rule, usage |-> u, at |-> now]
  <2>1. /\ call # none /\ call.step = "asked" /\ limited' = [limited EXCEPT ![c] = v]
        /\ UNCHANGED <<now, bucket, tier>>
        /\ grants' = IF allowed THEN Append(grants, now) ELSE grants
    BY <1>6 DEF Lim!Decide, Lim!Pass
  <2>2. call.from \in Nat /\ call.from <= now /\ call.rule \in Limits
    BY <1>1, <2>1 DEF Counting
  <2>3. Counted(u, grants, now)
    BY <2>2, UsageIsCounted
  <2>4. u \in Usage /\ u.start \in Nat /\ u.tokens \in Nat /\ u.burstUsed \in Nat
        /\ u.start <= now
    BY <2>3 DEF Counted, Usage
  <2> HIDE DEF u
  <2> DEFINE P == Past(grants, u.start, now)
             L == Past(grants', u.start, now)
  <2>5. P \in Nat /\ L \in Nat /\ (~allowed => P <= L) /\ (allowed => P + 1 <= L)
    <3>1. now \in u.start..now
      BY <1>1, <2>4
    <3>2. /\ P \in Nat /\ P <= P
          /\ Past(Append(grants, now), u.start, now) \in Nat
          /\ P + 1 <= Past(Append(grants, now), u.start, now)
      BY <1>1, <1>2, <2>4, <3>1, PassedGrows, Zenon DEF Past
    <3> HIDE DEF allowed
    <3>3. CASE allowed
      BY <2>1, <3>2, <3>3
    <3>4. CASE ~allowed
      BY <2>1, <3>2, <3>4
    <3> QED
      BY <3>3, <3>4
  <2>6. u.tokens <= P /\ u.burstUsed <= P
    BY <2>3 DEF Counted
  <2> HIDE DEF P, L
  <2>7. ~allowed => P >= Least(call.rule)
    <3>1. call.rule.requests \in Nat /\ call.rule.burstCapacity \in Nat
      BY <2>2 DEF Limits
    <3>2. ~allowed => u.tokens >= call.rule.requests \/ u.burstUsed >= call.rule.burstCapacity
      BY <2>4, <3>1 DEF Lim!IsRequestAllowed
    <3> HIDE DEF allowed
    <3> QED
      BY <2>4, <2>5, <2>6, <3>1, <3>2 DEF Least
  <2>8. Least(call.rule) \in Nat
    BY <2>2 DEF Least, Limits
  <2>9. Counting(v, grants', now)
    <3>1. /\ v.step = (IF allowed THEN "consuming" ELSE "refused")
          /\ v.rule = call.rule /\ v.usage = u /\ v.at = now
      OBVIOUS
    <3>2. /\ allowed => u.tokens + 1 <= L /\ u.burstUsed + 1 <= L
          /\ ~allowed => L >= Least(call.rule)
      <4> HIDE DEF allowed
      <4> QED
        BY <2>4, <2>5, <2>6, <2>7, <2>8
    <3>3. L = Past(grants', v.usage.start, v.at)
      BY <3>1 DEF L
    <3> HIDE DEF v, allowed
    <3> QED
      BY <1>1, <1>2, <2>2, <2>4, <3>1, <3>2, <3>3 DEF Counting
  <2> HIDE DEF v, allowed
  <2>10. /\ limited' = [x \in Request |-> limited'[x]]
         /\ \A x \in Request : limited'[x] # none => Counting(limited'[x], grants', now')
    BY <1>3, <1>4, <2>1, <2>9
  <2> QED
    BY <1>1, <1>3, <2>1, <2>10 DEF LimitsTyped
<1>7. ASSUME NEW c \in Request, NEW ok \in BOOLEAN, Lim!Consume(c, ok)
      PROVE  LimitsTyped'
  <2> DEFINE u == limited[c].usage
             w == Lim!ConsumeTokens(u, limited[c].at)
  <2>1. /\ limited[c] # none /\ limited[c].step = "consuming"
        /\ bucket' = (IF ok THEN w ELSE bucket)
        /\ limited' = [limited EXCEPT ![c] = none]
        /\ UNCHANGED <<now, tier, grants>>
    BY <1>7 DEF Lim!Consume
  <2>2. /\ u \in Usage /\ limited[c].at \in Nat /\ u.start <= limited[c].at /\ limited[c].at <= now
        /\ u.tokens + 1 <= Past(grants, u.start, limited[c].at)
        /\ u.burstUsed + 1 <= Past(grants, u.start, limited[c].at)
    BY <1>1, <2>1 DEF Counting
  <2>3. /\ u.start \in Nat /\ u.tokens \in Nat /\ u.burstUsed \in Nat /\ u.last \in Nat
    BY <2>2 DEF Usage
  <2>4. /\ w.start = u.start /\ w.tokens = u.tokens + 1 /\ w.burstUsed \in {1, u.burstUsed + 1}
        /\ w \in Usage
    <3> DEFINE used == IF limited[c].at - u.last >= burstWindowMs THEN 1 ELSE u.burstUsed + 1
    <3>1. w = [u EXCEPT !.tokens = u.tokens + 1, !.last = limited[c].at, !.burstUsed = used]
      BY DEF Lim!ConsumeTokens
    <3>2. used \in Nat /\ used \in {1, u.burstUsed + 1}
      BY <2>3
    <3>3. u \in Usage /\ limited[c].at \in Nat
      BY <2>2
    <3> HIDE DEF u, w, used
    <3>4. w = [tokens |-> u.tokens + 1, start |-> u.start, burstUsed |-> used,
               last |-> limited[c].at]
      BY <3>1, <3>3 DEF Usage
    <3>5. /\ w \in Usage /\ w.start = u.start /\ w.tokens = u.tokens + 1 /\ w.burstUsed = used
      BY <2>3, <3>2, <3>3, <3>4 DEF Usage
    <3> QED
      BY <3>2, <3>5
  <2> HIDE DEF u, w
  <2> DEFINE P == Past(grants, u.start, limited[c].at)
             L == Past(grants, u.start, now)
  <2>5. P \in Nat /\ L \in Nat /\ P <= L
    BY <1>1, <2>2, <2>3, PassedGrows, Zenon DEF Past
  <2>6. u.tokens + 1 <= P /\ u.burstUsed + 1 <= P
    BY <2>2
  <2>7. L = Past(grants, w.start, now)
    BY <2>4
  <2> HIDE DEF P, L
  <2>8. w.tokens <= L /\ w.burstUsed <= L /\ w.start <= now
    BY <1>1, <2>2, <2>3, <2>4, <2>5, <2>6
  <2>9. Counted(w, grants, now)
    BY <2>4, <2>7, <2>8 DEF Counted
  <2>10. bucket' # none => Counted(bucket', grants', now')
    BY <1>1, <2>1, <2>9
  <2>11. /\ limited' = [x \in Request |-> limited'[x]]
         /\ \A x \in Request : limited'[x] # none => Counting(limited'[x], grants', now')
    BY <1>3, <1>4, <2>1
  <2> QED
    BY <1>1, <1>3, <2>1, <2>10, <2>11 DEF LimitsTyped
<1>8. ASSUME NEW c \in Request, NEW ok \in BOOLEAN,
             Lim!FailOpen(c) \/ Lim!LogRateLimitExceeded(c, ok)
      PROVE  LimitsTyped'
  <2>1. /\ limited' = [limited EXCEPT ![c] = none] /\ UNCHANGED <<now, bucket, tier>>
        /\ grants' = grants \/ grants' = Append(grants, now)
    BY <1>8 DEF Lim!FailOpen, Lim!Pass, Lim!LogRateLimitExceeded
  <2> QED
    BY <1>1, <1>3, <1>4, <2>1 DEF LimitsTyped
<1>9. ASSUME bucket' \in {bucket, none}, tier' \in DOMAIN Rule, UNCHANGED <<limited, grants>>,
             now' \in Nat, now <= now'
      PROVE  LimitsTyped'
  <2>1. /\ \A u : Counted(u, grants, now) => Counted(u, grants, now')
        /\ \A call : Counting(call, grants, now) => Counting(call, grants, now')
    <3>1. StillCounts(grants, now, grants, now')
      BY <1>1, <1>9, CountsStay
    <3> QED
      BY <3>1 DEF StillCounts
  <2> QED
    BY <1>1, <1>9, <2>1 DEF LimitsTyped
<1>10. CASE Lim!ResetUserRateLimits \/ Lim!DeleteKeys \/ Lim!DeleteRows \/ Lim!ResetFails
  <2>1. bucket' \in {bucket, none} /\ UNCHANGED <<now, tier, limited, grants>>
    BY <1>10 DEF Lim!ResetUserRateLimits, Lim!DeleteKeys, Lim!DeleteRows, Lim!ResetFails
  <2> QED
    BY <1>1, <1>2, <1>9, <2>1
<1>11. ASSUME NEW newTier \in DOMAIN Rule, Lim!UpdateUserTier(newTier)
       PROVE  LimitsTyped'
  BY <1>1, <1>2, <1>9, <1>11 DEF Lim!UpdateUserTier
<1>12. CASE Lim!Tick
  <2>1. now' = now + 1 /\ UNCHANGED <<bucket, tier, limited, grants>>
    BY <1>12 DEF Lim!Tick
  <2>2. now' \in Nat /\ now <= now'
    BY <1>1, <2>1
  <2> QED
    BY <1>1, <1>9, <2>1, <2>2
<1> QED
  BY <1>5, <1>6, <1>7, <1>8, <1>10, <1>11, <1>12 DEF Lim!Next, Lim!Tier

(* Whatever writes of the bucket are lost or late, who is refused has used   *)
(* what the tier grants.                                                     *)
THEOREM RefusalIsEarned == ServicesSpec => []LimitRefusalEarned
<1>1. ServicesInit => LimitsKept
  <2> SUFFICES ASSUME ServicesInit
               PROVE  LimitsTyped
    BY DEF LimitsKept
  <2>1. /\ now = 0 /\ grants = <<>> /\ tier = "FREE" /\ bucket = none
        /\ limited = [c \in Request |-> none]
    BY DEF ServicesInit, Lim!Init
  <2> QED
    BY <2>1, ServicesAssumption DEF LimitsTyped
<1>2. LimitsKept /\ [ServicesNext]_serviceVars => LimitsKept'
  <2> SUFFICES ASSUME LimitsKept, [ServicesNext]_serviceVars, service' = "limits"
               PROVE  LimitsTyped'
    BY DEF LimitsKept
  <2>1. service = "limits" /\ (Lim!Next \/ UNCHANGED <<now, limitVars>>)
    BY OneService
  <2>2. CASE UNCHANGED <<now, limitVars>>
    BY <2>1, <2>2 DEF LimitsKept, LimitsTyped, limitVars
  <2> QED
    BY <2>1, <2>2, LimitsStay DEF LimitsKept
<1>3. LimitsKept => LimitRefusalEarned
  <2>1. ASSUME NEW from, NEW to
        PROVE  Lim!Passed(from, to) = Past(grants, from, to)
    BY DEF Lim!Passed, PassedIn, Past, Lim!Cardinality, Cardinality
  <2> SUFFICES ASSUME LimitsTyped
               PROVE  Lim!RefusalEarned
    BY DEF LimitsKept, LimitRefusalEarned
  <2>2. ASSUME NEW c \in Request, limited[c] # none, limited[c].step = "refused"
        PROVE  Lim!Passed(limited[c].usage.start, limited[c].at) >= Least(limited[c].rule)
    BY <2>1, <2>2 DEF LimitsTyped, Counting
  <2> QED
    BY <2>2 DEF Least, Lim!RefusalEarned
<1> QED
  BY <1>1, <1>2, <1>3, PTL DEF ServicesSpec

(***************************************************************************)
(* Token prices                                                            *)
(***************************************************************************)
(* A cached price was the market's within Patience of its time stamp, and   *)
(* no answer under way was asked for longer ago than that.                  *)
Prices == [data : Nat, timestamp : Nat]
Cached(price, t) ==
    /\ price \in Prices /\ price.data <= price.timestamp /\ price.timestamp <= t
    /\ price.timestamp - price.data <= Patience

BalanceAsks == [step : {"balances", "balance"}, left : SUBSET (Token \cup {Tok!Native}), held : SUBSET Token,
                valued : BOOLEAN]
InfoAsks == [step : {"infos", "info"}, left : Int]
PriceAsks == [step : {"price"}, key : Tok!Keys, from : Nat]
Asking(rec, t) ==
    \/ rec \in BalanceAsks /\ (rec.step = "balance" => rec.left # {})
    \/ rec \in InfoAsks
    \/ rec \in PriceAsks /\ rec.from <= t /\ t - rec.from <= Patience

TokensTyped ==
    /\ now \in Nat
    /\ priceCache = [k \in Tok!Keys |-> priceCache[k]]
    /\ \A k \in Tok!Keys : priceCache[k] # none => Cached(priceCache[k], now)
    /\ asks = [x \in Ask |-> asks[x]]
    /\ \A x \in Ask : asks[x] # none => Asking(asks[x], now)
    /\ Tok!FreshPricesAreRecent
TokensKept == service = "tokens" => TokensTyped

(* An ask that goes on as another ask leaves the asks well formed.          *)
LEMMA AskGoesOn ==
    ASSUME TokensTyped, UNCHANGED <<now, priceCache>>,
           NEW x \in Ask, NEW rec, asks' = [asks EXCEPT ![x] = rec],
           rec = none \/ Asking(rec, now), Tok!FreshPricesAreRecent'
    PROVE  TokensTyped'
<1>1. \A y \in Ask : asks'[y] = IF y = x THEN rec ELSE asks[y]
  BY DEF TokensTyped
<1>2. asks' = [y \in Ask |-> asks'[y]]
  BY <1>1 DEF TokensTyped
<1> QED
  BY <1>1, <1>2 DEF TokensTyped

LEMMA ServedIsRecent ==
    ASSUME TokensTyped, NEW price, NEW new \in BOOLEAN, NEW x, Tok!Serve(x, price, new),
           price # none /\ new => now - price.data < PriceTTL + Patience
    PROVE  Tok!FreshPricesAreRecent'
  BY DEF Tok!Serve, Tok!FreshPricesAreRecent

LEMMA PricesAreGot ==
    ASSUME TokensTyped, NEW x \in Ask, NEW k \in Tok!Keys, Tok!GetTokenPrices(x, k),
           UNCHANGED <<now, priceCache>>
    PROVE  TokensTyped'
<1>1. now \in Nat /\ Patience \in Nat /\ PriceTTL \in Nat /\ now <= now /\ now - now <= Patience
  BY ServicesAssumption DEF TokensTyped
<1>2. CASE Tok!Fresh(k)
  <2>1. Tok!Serve(x, priceCache[k], TRUE)
    BY <1>2 DEF Tok!GetTokenPrices
  <2>2. Cached(priceCache[k], now) /\ now - priceCache[k].timestamp < PriceTTL
    BY <1>2 DEF TokensTyped, Tok!Fresh
  <2>3. now - priceCache[k].data < PriceTTL + Patience
    BY <1>1, <2>2 DEF Cached, Prices
  <2>4. Tok!FreshPricesAreRecent'
    BY <2>1, <2>3, ServedIsRecent
  <2> QED
    BY <2>1, <2>4, AskGoesOn DEF Tok!Serve, Tok!Ends, Tok!Goes
<1>3. CASE ~Tok!Fresh(k) /\ Tok!Refuses(priceCircuit, now)
  <2>1. Tok!Serve(x, priceCache[k], FALSE)
    BY <1>3 DEF Tok!GetTokenPrices
  <2>2. Tok!FreshPricesAreRecent'
    BY <2>1, ServedIsRecent
  <2> QED
    BY <2>1, <2>2, AskGoesOn DEF Tok!Serve, Tok!Ends, Tok!Goes
<1>4. CASE ~Tok!Fresh(k) /\ ~Tok!Refuses(priceCircuit, now)
  <2> DEFINE rec == [step |-> "price", key |-> k, from |-> now]
  <2>1. asks' = [asks EXCEPT ![x] = rec] /\ UNCHANGED served
    BY <1>4 DEF Tok!GetTokenPrices, Tok!Goes
  <2>2. rec \in PriceAsks /\ rec.from = now
    BY <1>1 DEF PriceAsks
  <2> HIDE DEF rec
  <2>3. Asking(rec, now)
    BY <1>1, <2>2 DEF Asking
  <2>4. Tok!FreshPricesAreRecent'
    BY <2>1 DEF TokensTyped, Tok!FreshPricesAreRecent
  <2> QED
    BY <2>1, <2>3, <2>4, AskGoesOn
<1> QED
  BY <1>2, <1>3, <1>4

LEMMA TokensStay ==
    ASSUME TokensTyped, Tok!Next
    PROVE  TokensTyped'
<1>1. /\ now \in Nat /\ Patience \in Nat /\ PriceTTL \in Nat \ {0}
      /\ \A x \in Ask : asks[x] # none => Asking(asks[x], now)
  BY ServicesAssumption DEF TokensTyped
<1>2. ASSUME UNCHANGED served
      PROVE  Tok!FreshPricesAreRecent'
  BY <1>2 DEF TokensTyped, Tok!FreshPricesAreRecent
<1>3. ASSUME NEW x \in Ask, NEW s, Tok!At(x, s)
      PROVE  /\ asks[x].step = s /\ Asking(asks[x], now)
             /\ s = "price" => /\ asks[x] \in PriceAsks
                               /\ asks[x].from <= now /\ now - asks[x].from <= Patience
             /\ s \in {"balances", "balance"} => asks[x] \in BalanceAsks
             /\ s = "balance" => asks[x].left # {}
             /\ s \in {"infos", "info"} => asks[x] \in InfoAsks
  <2>1. asks[x].step = s /\ Asking(asks[x], now)
    BY <1>1, <1>3 DEF Tok!At
  <2> QED
    BY <2>1 DEF Asking, PriceAsks, BalanceAsks, InfoAsks
<1>4. ASSUME NEW x \in Ask, NEW rec \in InfoAsks
      PROVE  Tok!Less(rec) = none \/ Asking(Tok!Less(rec), now)
  BY <1>4 DEF Tok!Less, Asking, InfoAsks
<1>5. ASSUME NEW x \in Ask, NEW k \in Tok!Keys, Tok!AskPrices(x, k)
      PROVE  TokensTyped'
  BY <1>5, PricesAreGot DEF Tok!AskPrices
<1>6. ASSUME NEW x \in Ask, NEW t \in 0..now, Tok!PriceAnswer(x, t)
      PROVE  TokensTyped'
  <2> DEFINE k == asks[x].key
             price == [data |-> t, timestamp |-> now]
  <2>1. /\ Tok!At(x, "price") /\ t \in asks[x].from..now
        /\ priceCache' = [priceCache EXCEPT ![k] = price]
        /\ Tok!Serve(x, priceCache'[k], TRUE) /\ UNCHANGED now
    BY <1>6 DEF Tok!PriceAnswer
  <2>2. k \in Tok!Keys /\ asks[x].from \in Nat /\ now - asks[x].from <= Patience
    BY <1>3, <2>1 DEF PriceAsks
  <2>3. t \in Nat /\ t <= now /\ now - t <= Patience /\ now - t < PriceTTL + Patience
    BY <1>1, <2>1, <2>2
  <2>4. Cached(price, now)
    BY <1>1, <2>3 DEF Cached, Prices
  <2> HIDE DEF k
  <2>5. \A q \in Tok!Keys : priceCache'[q] = IF q = k THEN price ELSE priceCache[q]
    BY <2>1, <2>2 DEF TokensTyped
  <2>6. price.data = t
    OBVIOUS
  <2> HIDE DEF price
  <2>7. /\ priceCache' = [q \in Tok!Keys |-> priceCache'[q]]
        /\ \A q \in Tok!Keys : priceCache'[q] # none => Cached(priceCache'[q], now)
    BY <2>1, <2>4, <2>5 DEF TokensTyped
  <2>8. Tok!FreshPricesAreRecent'
    <3>1. priceCache'[k].data = t
      BY <2>2, <2>5, <2>6
    <3> QED
      BY <2>1, <2>3, <3>1 DEF Tok!Serve, Tok!FreshPricesAreRecent
  <2>9. /\ asks' = [y \in Ask |-> asks'[y]]
        /\ \A y \in Ask : asks'[y] # none => Asking(asks'[y], now)
    <3>1. asks' = [asks EXCEPT ![x] = none]
      BY <2>1 DEF Tok!Serve, Tok!Ends, Tok!Goes
    <3> QED
      BY <3>1 DEF TokensTyped
  <2> QED
    BY <1>1, <2>1, <2>7, <2>8, <2>9 DEF TokensTyped
<1>7. ASSUME NEW x \in Ask, Tok!PriceError(x)
      PROVE  TokensTyped'
  <2>1. Tok!Serve(x, priceCache[asks[x].key], FALSE) /\ UNCHANGED <<now, priceCache>>
    BY <1>7 DEF Tok!PriceError
  <2>2. Tok!FreshPricesAreRecent'
    BY <2>1, ServedIsRecent
  <2> QED
    BY <2>1, <2>2, AskGoesOn DEF Tok!Serve, Tok!Ends, Tok!Goes
<1>8. ASSUME NEW x \in Ask, NEW valued \in BOOLEAN, Tok!GetTokenBalances(x, valued)
      PROVE  TokensTyped'
  <2> DEFINE rec == [step |-> "balances", left |-> Token \cup {Tok!Native}, held |-> {}, valued |-> valued]
  <2>1. asks' = [asks EXCEPT ![x] = rec] /\ UNCHANGED <<now, priceCache, served>>
    BY <1>8 DEF Tok!GetTokenBalances, Tok!Goes
  <2>2. rec \in BalanceAsks /\ rec.step = "balances"
    BY DEF BalanceAsks
  <2> HIDE DEF rec
  <2>3. Asking(rec, now)
    BY <2>2 DEF Asking
  <2> QED
    BY <1>2, <2>1, <2>3, AskGoesOn
<1>9. ASSUME NEW x \in Ask, Tok!GetTokenBalanceForContract(x)
      PROVE  TokensTyped'
  <2>1. /\ asks[x] \in BalanceAsks /\ asks[x].left # {}
        /\ UNCHANGED <<now, priceCache, served>>
    BY <1>3, <1>9 DEF Tok!GetTokenBalanceForContract
  <2>2. CASE asks' = [asks EXCEPT ![x].left = @ \ {Tok!Next1(@)}]
    <3> DEFINE rec == [asks[x] EXCEPT !.left = @ \ {Tok!Next1(@)}]
    <3>1. asks' = [asks EXCEPT ![x] = rec]
      BY <2>2
    <3>2. rec \in BalanceAsks /\ rec.step = asks[x].step
      BY <2>1 DEF BalanceAsks
    <3>3. rec.step = "balances"
      BY <1>9, <3>2 DEF Tok!GetTokenBalanceForContract, Tok!At
    <3> HIDE DEF rec
    <3>4. Asking(rec, now)
      BY <3>2, <3>3 DEF Asking
    <3> QED
      BY <1>2, <2>1, <3>1, <3>4, AskGoesOn
  <2>3. CASE asks' = [asks EXCEPT ![x].step = "balance"]
    <3> DEFINE rec == [asks[x] EXCEPT !.step = "balance"]
    <3>1. asks' = [asks EXCEPT ![x] = rec]
      BY <2>3
    <3>2. rec \in BalanceAsks /\ rec.left = asks[x].left
      BY <2>1 DEF BalanceAsks
    <3> HIDE DEF rec
    <3>3. Asking(rec, now)
      BY <2>1, <3>2 DEF Asking
    <3> QED
      BY <1>2, <2>1, <3>1, <3>3, AskGoesOn
  <2> QED
    BY <1>9, <2>2, <2>3 DEF Tok!GetTokenBalanceForContract
<1>10. ASSUME NEW x \in Ask, NEW ok \in BOOLEAN, NEW some \in BOOLEAN,
              Tok!BalanceAnswer(x, ok, some)
       PROVE  TokensTyped'
  <2> DEFINE t == Tok!Next1(asks[x].left)
             held == IF ok /\ some /\ t # Tok!Native THEN asks[x].held \cup {t} ELSE asks[x].held
             rec == [asks[x] EXCEPT !.step = "balances", !.left = @ \ {t}, !.held = held]
  <2>1. /\ asks[x] \in BalanceAsks /\ asks[x].left # {}
        /\ UNCHANGED <<now, priceCache, served>>
    BY <1>3, <1>10 DEF Tok!BalanceAnswer
  <2>2. t \in Token \cup {Tok!Native} /\ held \in SUBSET Token
    BY <2>1 DEF Tok!Next1, BalanceAsks
  <2>3. asks' = [asks EXCEPT ![x] = rec]
    BY <1>10 DEF Tok!BalanceAnswer
  <2> HIDE DEF t, held
  <2>4. rec \in BalanceAsks /\ rec.step = "balances"
    BY <2>1, <2>2 DEF BalanceAsks
  <2> HIDE DEF rec
  <2>5. Asking(rec, now)
    BY <2>4 DEF Asking
  <2> QED
    BY <1>2, <2>1, <2>3, <2>5, AskGoesOn
<1>11. ASSUME NEW x \in Ask, Tok!CalculatePortfolioValue(x)
       PROVE  TokensTyped'
  <2>1. UNCHANGED <<now, priceCache>>
    BY <1>11 DEF Tok!CalculatePortfolioValue
  <2>2. CASE asks[x].held # {} /\ Tok!GetTokenPrices(x, asks[x].held)
    <3>1. asks[x] \in BalanceAsks
      BY <1>3, <1>11 DEF Tok!CalculatePortfolioValue
    <3>2. asks[x].held \in Tok!Keys
      <4>1. asks[x].held \in SUBSET Token
        BY <3>1 DEF BalanceAsks
      <4>2. asks[x].held # {}
        BY <2>2
      <4> QED
        BY <4>1, <4>2 DEF Tok!Keys
    <3> QED
      BY <2>1, <2>2, <3>2, PricesAreGot
  <2>3. CASE Tok!Ends(x) /\ UNCHANGED served
    BY <1>2, <2>1, <2>3, AskGoesOn DEF Tok!Ends, Tok!Goes
  <2> QED
    BY <1>11, <2>2, <2>3 DEF Tok!CalculatePortfolioValue
<1>12. ASSUME NEW x \in Ask, NEW n \in 0..MaxFound, Tok!DiscoverCustomTokens(x, n)
       PROVE  TokensTyped'
  <2> DEFINE rec == IF n = 0 THEN none ELSE [step |-> "infos", left |-> n]
  <2>1. asks' = [asks EXCEPT ![x] = rec] /\ UNCHANGED <<now, priceCache, served>>
    BY <1>12 DEF Tok!DiscoverCustomTokens, Tok!Goes
  <2>2. rec = none \/ Asking(rec, now)
    BY DEF Asking, InfoAsks
  <2> HIDE DEF rec
  <2> QED
    BY <1>2, <2>1, <2>2, AskGoesOn
<1>13. ASSUME NEW x \in Ask, Tok!FetchTokenInfo(x)
       PROVE  TokensTyped'
  <2>1. asks[x] \in InfoAsks /\ UNCHANGED <<now, priceCache, served>>
    BY <1>3, <1>13 DEF Tok!FetchTokenInfo
  <2>2. CASE Tok!Goes(x, Tok!Less(asks[x]))
    BY <1>2, <1>4, <2>1, <2>2, AskGoesOn DEF Tok!Goes
  <2>3. CASE Tok!Goes(x, [asks[x] EXCEPT !.step = "info"])
    <3> DEFINE rec == [asks[x] EXCEPT !.step = "info"]
    <3>1. rec \in InfoAsks
      BY <2>1 DEF InfoAsks
    <3> HIDE DEF rec
    <3>2. Asking(rec, now) /\ asks' = [asks EXCEPT ![x] = rec]
      BY <2>3, <3>1 DEF Asking, Tok!Goes, rec
    <3> QED
      BY <1>2, <2>1, <3>2, AskGoesOn
  <2> QED
    BY <1>13, <2>2, <2>3 DEF Tok!FetchTokenInfo
<1>14. ASSUME NEW x \in Ask, NEW ok \in BOOLEAN, Tok!TokenInfo(x, ok)
       PROVE  TokensTyped'
  <2>1. /\ asks[x] \in InfoAsks /\ UNCHANGED <<now, priceCache, served>>
        /\ asks' = [asks EXCEPT ![x] = Tok!Less(asks[x])]
    BY <1>3, <1>14 DEF Tok!TokenInfo, Tok!Goes
  <2> QED
    BY <1>2, <1>4, <2>1, AskGoesOn
<1>15. CASE Tok!Tick
  <2>1. /\ now' = now + 1 /\ UNCHANGED <<priceCache, asks, served>>
        /\ \A x \in Ask : Tok!At(x, "price") => now - asks[x].from < Patience
    BY <1>15 DEF Tok!Tick
  <2>2. \A price : Cached(price, now) => Cached(price, now')
    BY <1>1, <2>1 DEF Cached, Prices
  <2>3. ASSUME NEW x \in Ask, asks[x] # none
        PROVE  Asking(asks[x], now')
    <3>1. CASE asks[x] \in PriceAsks
      <4>1. asks[x].from \in Nat /\ asks[x].from <= now /\ asks[x].step = "price"
        BY <1>3, <2>3, <3>1 DEF PriceAsks, Tok!At
      <4>2. now - asks[x].from < Patience
        BY <2>1, <2>3, <4>1 DEF Tok!At
      <4> QED
        BY <1>1, <2>1, <3>1, <4>1, <4>2 DEF Asking
    <3>2. CASE asks[x] \notin PriceAsks
      BY <1>1, <2>3, <3>2 DEF Asking
    <3> QED
      BY <3>1, <3>2
  <2> QED
    BY <1>1, <1>2, <2>1, <2>2, <2>3 DEF TokensTyped
<1> QED
  BY <1>5, <1>6, <1>7, <1>8, <1>9, <1>10, <1>11, <1>12, <1>13, <1>14, <1>15 DEF Tok!Next

(* However late the answers come and in whatever order, a price given out    *)
(* as fresh was the market's within the life of a cache entry and the time   *)
(* one answer may take.                                                      *)
THEOREM FreshIsRecent == ServicesSpec => []TokenPricesAreRecent
<1>1. ServicesInit => TokensKept
  <2> SUFFICES ASSUME ServicesInit
               PROVE  TokensTyped
    BY DEF TokensKept
  <2>1. /\ now = 0 /\ priceCache = [k \in Tok!Keys |-> none]
        /\ asks = [x \in Ask |-> none] /\ served = none
    BY DEF ServicesInit, Tok!Init
  <2>2. Tok!FreshPricesAreRecent
    BY <2>1 DEF Tok!FreshPricesAreRecent
  <2> QED
    BY <2>1, <2>2 DEF TokensTyped
<1>2. TokensKept /\ [ServicesNext]_serviceVars => TokensKept'
  <2> SUFFICES ASSUME TokensKept, [ServicesNext]_serviceVars, service' = "tokens"
               PROVE  TokensTyped'
    BY DEF TokensKept
  <2>1. service = "tokens" /\ (Tok!Next \/ UNCHANGED <<now, tokenVars>>)
    BY OneService
  <2>2. CASE UNCHANGED <<now, tokenVars>>
    BY <2>1, <2>2 DEF TokensKept, TokensTyped, tokenVars, Tok!FreshPricesAreRecent
  <2> QED
    BY <2>1, <2>2, TokensStay DEF TokensKept
<1>3. TokensKept => TokenPricesAreRecent
  BY DEF TokensKept, TokensTyped, TokenPricesAreRecent
<1> QED
  BY <1>1, <1>2, <1>3, PTL DEF ServicesSpec
=============================================================================
