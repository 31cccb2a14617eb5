----------------------------- MODULE RpcFailover -----------------------------
(***************************************************************************)
(* backend/src/services/EnhancedRPCService.ts: concurrent calls that fail  *)
(* over between providers, each through a circuit named after the place    *)
(* the provider had when it was added.  All happens within one             *)
(* monitoringPeriod: the circuits read the time 0.  A provider is an       *)
(* object; the retries inside one attempt are one answer.                  *)
(***************************************************************************)
EXTENDS Circuit, FiniteSets

CONSTANTS
    Provider, Caller,
    InitProviders,      \* the list built from STELLAR_RPC_URLS
    NoProvider,
    unhealthyAfter,     \* 3
    MaxProviders        \* bound on the list, hence on the names

VARIABLES
    providers,          \* the list
    nameOf,             \* rpc-provider-<n>
    isHealthy, failures,
    currentProviderIndex,
    circuits,           \* of circuitBreakerService, by name
    pc, target, attempts, orphan,   \* of each call: its phase, provider, attempts left, lost circuit
    refusals            \* history: failed answers of a name's providers in a row

providerVars == <<providers, nameOf, isHealthy, failures, currentProviderIndex>>
callVars == <<pc, target, attempts, orphan>>
rpcVars == <<providerVars, circuits, callVars, refusals>>

Name == 0..(MaxProviders - 1)
Listed == {providers[i] : i \in DOMAIN providers}

Init ==
    /\ providers = InitProviders
    /\ nameOf = [p \in Provider |->
                    IF p \in Listed
                      THEN (CHOOSE i \in DOMAIN providers : providers[i] = p) - 1
                      ELSE 0]
    /\ isHealthy = [p \in Provider |-> TRUE]
    /\ failures = [p \in Provider |-> 0]
    /\ currentProviderIndex = 0
    /\ circuits = [n \in Name |-> NewCircuit]
    /\ pc = [c \in Caller |-> "idle"]
    /\ target = [c \in Caller |-> NoProvider]
    /\ attempts = [c \in Caller |-> 0]
    /\ orphan = [c \in Caller |-> FALSE]
    /\ refusals = [n \in Name |-> 0]

Healthy == LET ok(p) == isHealthy[p] IN SelectSeq(providers, ok)

(* getNextProvider: round robin among the healthy; if there is none, all    *)
(* are declared healthy and the first is taken.                             *)
Pick ==
    IF Healthy = <<>>
      THEN [provider |-> providers[1],
            index    |-> currentProviderIndex,
            healthy  |-> [q \in Provider |-> isHealthy[q] \/ q \in Listed],
            failed   |-> [q \in Provider |-> IF q \in Listed THEN 0 ELSE failures[q]]]
      ELSE [provider |-> Healthy[(currentProviderIndex % Len(Healthy)) + 1],
            index    |-> (currentProviderIndex + 1) % Len(Healthy),
            healthy  |-> isHealthy,
            failed   |-> failures]

(* markProviderUnhealthy, from the flags h and the counts f.  The count     *)
(* stops at unhealthyAfter, beyond which nothing tells counts apart.        *)
MarkUnhealthy(h, f, p) ==
    LET n == IF f[p] < unhealthyAfter THEN f[p] + 1 ELSE f[p]
    IN  /\ failures' = [f EXCEPT ![p] = n]
        /\ isHealthy' = [h EXCEPT ![p] = @ /\ n < unhealthyAfter]

MutMarkHealthy(p) ==
    /\ isHealthy' = [isHealthy EXCEPT ![p] = TRUE]
    /\ UNCHANGED failures
MarkHealthy(p) ==
    /\ isHealthy' = [isHealthy EXCEPT ![p] = TRUE]
    /\ failures' = [failures EXCEPT ![p] = 0]

(* makeRPCCall makes as many attempts as there are providers at its start.  *)
MakeRPCCall(c) ==
    /\ pc[c] = "idle"
    /\ providers # <<>>
    /\ pc' = [pc EXCEPT ![c] = "choosing"]
    /\ attempts' = [attempts EXCEPT ![c] = Len(providers)]
    /\ UNCHANGED <<providerVars, circuits, target, orphan, refusals>>

Over(c) ==
    /\ pc' = [pc EXCEPT ![c] = "idle"]
    /\ target' = [target EXCEPT ![c] = NoProvider]
    /\ attempts' = [attempts EXCEPT ![c] = 0]

(* The loop ends, or there is no provider left to ask.                      *)
GiveUp(c) ==
    /\ pc[c] = "choosing"
    /\ attempts[c] = 0 \/ providers = <<>>
    /\ Over(c)
    /\ UNCHANGED <<providerVars, circuits, orphan, refusals>>

(* One turn of the loop, up to the call.  A circuit that refuses counts as  *)
(* a failure of the provider.                                               *)
Choose(c) ==
    /\ pc[c] = "choosing"
    /\ attempts[c] > 0 /\ providers # <<>>
    /\ attempts' = [attempts EXCEPT ![c] = @ - 1]
    /\ currentProviderIndex' = Pick.index
    /\ LET p == Pick.provider  n == nameOf[p]
       IN  IF Refuses(circuits[n], 0)
             THEN /\ MarkUnhealthy(Pick.healthy, Pick.failed, p)
                  /\ UNCHANGED <<circuits, pc, target, orphan>>
             ELSE /\ pc' = [pc EXCEPT ![c] = "calling"]
                  /\ target' = [target EXCEPT ![c] = p]
                  /\ orphan' = [orphan EXCEPT ![c] = FALSE]
                  /\ circuits' = [circuits EXCEPT ![n] = Admitted(@, 0)]
                  /\ isHealthy' = Pick.healthy
                  /\ failures' = Pick.failed
    /\ UNCHANGED <<providers, nameOf, refusals>>

(* The answer.  executeWithRetry reports a failure as a value, so that the  *)
(* circuit counts a success whatever the answer was.                        *)
RecordResult(c, ok) ==
    circuits' = IF orphan[c] THEN circuits
                ELSE [circuits EXCEPT ![nameOf[target[c]]] = Succeeded(@)]

Answer(c, ok) ==
    /\ pc[c] = "calling"
    /\ RecordResult(c, ok)
    /\ LET p == target[c]
       IN  /\ IF ok THEN MarkHealthy(p) ELSE MarkUnhealthy(isHealthy, failures, p)
           /\ refusals' = IF orphan[c] THEN refusals
                          ELSE [refusals EXCEPT ![nameOf[p]] =
                                  IF ok THEN 0 ELSE IF @ < failureThreshold THEN @ + 1 ELSE @]
    /\ IF ok
         THEN Over(c)
         ELSE /\ pc' = [pc EXCEPT ![c] = "choosing"]
              /\ target' = [target EXCEPT ![c] = NoProvider]
              /\ UNCHANGED attempts
    /\ UNCHANGED <<providers, nameOf, currentProviderIndex, orphan>>

ResetProviders ==
    /\ isHealthy' = [q \in Provider |-> isHealthy[q] \/ q \in Listed]
    /\ failures' = [q \in Provider |-> IF q \in Listed THEN 0 ELSE failures[q]]
    /\ circuits' = [n \in Name |-> IF \E q \in Listed : nameOf[q] = n
                                     THEN ResetCircuit(circuits[n]) ELSE circuits[n]]
    /\ refusals' = [n \in Name |-> 0]
    /\ UNCHANGED <<providers, nameOf, currentProviderIndex, callVars>>

AddProvider(p) ==
    /\ p \notin Listed /\ \A c \in Caller : target[c] # p
    /\ Len(providers) < MaxProviders
    /\ providers' = Append(providers, p)
    /\ nameOf' = [nameOf EXCEPT ![p] = Len(providers)]
    /\ isHealthy' = [isHealthy EXCEPT ![p] = TRUE]
    /\ failures' = [failures EXCEPT ![p] = 0]
    /\ UNCHANGED <<currentProviderIndex, circuits, callVars, refusals>>

(* The circuit of the name goes too, even if another provider has the name; *)
(* calls under way keep the provider and the lost circuit.                  *)
RemoveProvider(p) ==
    /\ p \in Listed
    /\ \E i \in DOMAIN providers :
          /\ providers[i] = p /\ \A j \in 1..(i - 1) : providers[j] # p
          /\ providers' = SubSeq(providers, 1, i - 1) \o SubSeq(providers, i + 1, Len(providers))
    /\ circuits' = [circuits EXCEPT ![nameOf[p]] = NewCircuit]
    /\ refusals' = [refusals EXCEPT ![nameOf[p]] = 0]
    /\ orphan' = [c \in Caller |-> orphan[c] \/
                    (target[c] # NoProvider /\ nameOf[target[c]] = nameOf[p])]
    /\ UNCHANGED <<nameOf, isHealthy, failures, currentProviderIndex, pc, target, attempts>>

Next ==
    \/ \E c \in Caller : \/ MakeRPCCall(c) \/ Choose(c) \/ GiveUp(c)
                         \/ \E ok \in BOOLEAN : Answer(c, ok)
    \/ ResetProviders
    \/ \E p \in Provider : AddProvider(p) \/ RemoveProvider(p)

Spec == Init /\ [][Next]_rpcVars

-----------------------------------------------------------------------------
(* A provider is set aside when it failed unhealthyAfter times since its    *)
(* last good answer, and only then, whichever calls the answers were of.    *)
SetAsideWhenFailing ==
    \A p \in Listed : isHealthy[p] <=> failures[p] < unhealthyAfter

(* "Circuit breaker protection" (line 12): a name whose providers failed    *)
(* failureThreshold times in a row is not called as if nothing were wrong.  *)
OutageOpensCircuit ==
    \A n \in Name : refusals[n] >= failureThreshold => circuits[n].state # "CLOSED"
=============================================================================
