--------------------------- MODULE SafeExtensions ---------------------------
(***************************************************************************)
(* Two parts of contracts/soroban/src/lib.rs beside the wallet's core: the *)
(* second voting system (2551-2885), where owners vote with one voice each,*)
(* their weight, or a damped weight and whoever asks after the vote has the*)
(* verdict recorded; and the batched import (2890-3230), where a batch with*)
(* data is valid throughout and one without fails throughout.  Owners and  *)
(* freeze belong to the core, whose calls may change them between any two  *)
(* calls of these parts.                                                   *)
(***************************************************************************)
EXTENDS Integers, Sequences, FiniteSetsExt

CONSTANTS
    Owner,
    Weights,
    Periods, MIN_VOTING_PERIOD, MAX_VOTING_PERIOD,
    Damping,            \* the 1000 of the quadratic mechanism
    Word,               \* 2^128: the tallies are u128 and wrap
    Abstained,
    MaxProposals, MaxTime,
    Totals, MAX_IMPORT_ITEMS,
    Batches, IMPORT_BATCH_SIZE,
    MaxImports

VARIABLES
    now,
    owners, frozen,     \* OWNERS and IS_FROZEN of the wallet
    ownerWeights,       \* OWNER_WEIGHTS, with DEFAULT_OWNER_WEIGHT where none is set
    proposals,          \* PROPOSALS by PROP_COUNT
    votes,              \* VOTES by proposal and voter
    imports,            \* IMPORT_OPS by IMPORT_COUNT
    importData,         \* the imports whose data is stored
    rollbackData,       \* <<import, item>> with a ROLLBACK entry, in persistent storage
    importErrors        \* <<import, item>> with an IMPORT_ERRS entry

ownerVars == <<owners, frozen>>
votingVars == <<ownerWeights, proposals, votes>>
importVars == <<imports, importData, rollbackData, importErrors>>

(* enter_reentrancy_guard, require_auth, require_owner, check_frozen_status.*)
MayCall(u) == u \in owners /\ ~frozen

(* Calls of the wallet's core.                                              *)
OwnersChange(o) ==
    /\ o # owners
    /\ owners' = o
    /\ UNCHANGED <<now, frozen, votingVars, importVars>>

FreezeOrThaw ==
    /\ frozen' = ~frozen
    /\ UNCHANGED <<now, owners, votingVars, importVars>>

Core == FreezeOrThaw \/ \E o \in (SUBSET Owner) \ {{}} : OwnersChange(o)
CoreInit == owners = Owner /\ frozen = FALSE

(***************************************************************************)
(* Weighted voting                                                         *)
(***************************************************************************)
Mechanism == {"Simple", "Weighted", "Quadratic"}

VotingInit ==
    /\ CoreInit
    /\ now = 0
    /\ ownerWeights = [v \in Owner |-> 1]
    /\ proposals = <<>> /\ votes = <<>>

CreateProposal(u, mechanism, period, required) ==
    /\ MayCall(u)
    /\ Len(proposals) < MaxProposals
    /\ period \in MIN_VOTING_PERIOD..MAX_VOTING_PERIOD
    /\ required \in 1..Cardinality(owners)
    /\ proposals' = Append(proposals,
           [mechanism |-> mechanism, endsAt |-> now + period, required |-> required, executed |-> FALSE,
            votesFor |-> 0, weightFor |-> 0, weightAgainst |-> 0, votesAgainst |-> 0])
    /\ votes' = Append(votes, [v \in Owner |-> Abstained])
    /\ UNCHANGED <<now, ownerVars, ownerWeights, importVars>>

(* get_voter_weight                                                         *)
VoterWeight(v, mechanism) ==
    CASE mechanism = "Simple" -> 1
      [] mechanism = "Weighted" -> ownerWeights[v]
      [] mechanism = "Quadratic" -> Max({1, ownerWeights[v] \div Damping})

Counted(p, support, w) ==
    IF support
      THEN [p EXCEPT !.votesFor = @ + 1, !.weightFor = (@ + w) % Word]
      ELSE [p EXCEPT !.votesAgainst = @ + 1, !.weightAgainst = (@ + w) % Word]

(* vote: the last second of the period is still in it, as it is already in  *)
(* the time to execute.                                                     *)
Vote(u, id, support) ==
    LET weight == VoterWeight(u, proposals[id].mechanism) IN
    /\ MayCall(u)
    /\ now <= proposals[id].endsAt /\ ~proposals[id].executed
    /\ votes[id][u] = Abstained
    /\ votes' = [votes EXCEPT ![id][u] = [support |-> support, weight |-> weight]]
    /\ proposals' = [proposals EXCEPT ![id] = Counted(@, support, weight)]
    /\ UNCHANGED <<now, ownerVars, ownerWeights, importVars>>

HasSufficientSupport(p) ==
    /\ p.votesFor >= p.required
    /\ IF p.mechanism = "Simple" THEN p.votesFor > p.votesAgainst ELSE p.weightFor > p.weightAgainst

ExecuteProposal(u, id) ==
    /\ MayCall(u)
    /\ ~proposals[id].executed
    /\ now >= proposals[id].endsAt
    /\ HasSufficientSupport(proposals[id])
    /\ proposals' = [proposals EXCEPT ![id].executed = TRUE]
    /\ UNCHANGED <<now, ownerVars, ownerWeights, votes, importVars>>

UpdateOwnerWeight(u, v, w) ==
    /\ MayCall(u)
    /\ v \in owners
    /\ ownerWeights' = [ownerWeights EXCEPT ![v] = w]
    /\ UNCHANGED <<now, ownerVars, proposals, votes, importVars>>

Tick ==
    /\ now < MaxTime
    /\ now' = now + 1
    /\ UNCHANGED <<ownerVars, votingVars, importVars>>

VotingNext ==
    \/ \E u \in Owner, m \in Mechanism, d \in Periods, n \in 1..Cardinality(Owner) :
          CreateProposal(u, m, d, n)
    \/ \E u \in Owner, id \in DOMAIN proposals, s \in BOOLEAN : Vote(u, id, s)
    \/ \E u \in Owner, id \in DOMAIN proposals : ExecuteProposal(u, id)
    \/ \E u, v \in Owner, w \in Weights : UpdateOwnerWeight(u, v, w)
    \/ Core
    \/ Tick

(* A proposal is executed only if enough different owners voted for it, and *)
(* their voices, as they weighed when cast, outweigh those against: owners  *)
(* who leave, return or are reweighted in between neither vote twice nor    *)
(* change what was said (vote, execute_proposal).                           *)
Side(id, s) == {v \in Owner : votes[id][v] # Abstained /\ votes[id][v].support = s}
Voices(id, s) ==
    IF proposals[id].mechanism = "Simple"
      THEN Cardinality(Side(id, s))
      ELSE MapThenSumSet(LAMBDA v : votes[id][v].weight, Side(id, s)) % Word
ExecutedOnMajority ==
    \A id \in DOMAIN proposals : proposals[id].executed =>
        /\ Cardinality(Side(id, TRUE)) >= proposals[id].required
        /\ Voices(id, TRUE) > Voices(id, FALSE)

(***************************************************************************)
(* Batched import                                                          *)
(***************************************************************************)
ImportInit ==
    /\ CoreInit
    /\ imports = <<>>
    /\ importData = {} /\ rollbackData = {} /\ importErrors = {}

(* An import that was started and has no batch yet does not keep another    *)
(* from being started: only InProgress is looked for.                       *)
StartImport(u, total) ==
    /\ MayCall(u)
    /\ Len(imports) < MaxImports
    /\ total \in 1..MAX_IMPORT_ITEMS
    /\ \A i \in DOMAIN imports : imports[i].status # "InProgress"
    /\ imports' = Append(imports, [total |-> total, processed |-> 0, failed |-> 0, status |-> "Pending"])
    /\ importData' = importData \cup {Len(imports) + 1}
    /\ UNCHANGED <<now, ownerVars, votingVars, rollbackData, importErrors>>

(* The items of a batch are numbered from those processed so far; items     *)
(* that failed keep no number of their own.                                 *)
ItemsOf(id, size) == {<<id, imports[id].processed + i>> : i \in 0..(size - 1)}

Afterwards(op) ==
    IF op.processed + op.failed < op.total THEN "InProgress"
    ELSE IF op.failed = 0 THEN "Completed" ELSE "Failed"

ProcessBatch(u, id, size, valid) ==
    /\ MayCall(u)
    /\ size \in 1..IMPORT_BATCH_SIZE
    /\ imports[id].status \in {"Pending", "InProgress"}
    /\ LET op == IF valid THEN [imports[id] EXCEPT !.processed = @ + size]
                          ELSE [imports[id] EXCEPT !.failed = @ + size]
       IN  imports' = [imports EXCEPT ![id] = [op EXCEPT !.status = Afterwards(op)]]
    /\ rollbackData' = IF valid THEN rollbackData \cup ItemsOf(id, size) ELSE rollbackData
    /\ importErrors' = IF valid THEN importErrors ELSE importErrors \cup ItemsOf(id, size)
    /\ UNCHANGED <<now, ownerVars, votingVars, importData>>

(* The entries to roll back are looked up in instance storage, where there  *)
(* are none: the persistent ones stay.                                      *)
RollbackImport(u, id) ==
    /\ MayCall(u)
    /\ imports[id].status \in {"Failed", "Completed"}
    /\ imports' = [imports EXCEPT ![id].status = "RolledBack"]
    /\ importData' = importData \ {id}
    /\ UNCHANGED <<now, ownerVars, votingVars, rollbackData, importErrors>>

ImportNext ==
    \/ \E u \in Owner, n \in Totals : StartImport(u, n)
    \/ \E u \in Owner, id \in DOMAIN imports, n \in Batches, ok \in BOOLEAN : ProcessBatch(u, id, n, ok)
    \/ \E u \in Owner, id \in DOMAIN imports : RollbackImport(u, id)
    \/ Core

Recorded(id) == {e \in rollbackData : e[1] = id}
Erring(id) == {e \in importErrors : e[1] = id}

(* An import reports Completed only when all its items were processed, each *)
(* with the entry that can undo it, and none failed; one that reports Failed*)
(* can say where; and neither has lost its data (process_import_batch).     *)
OutcomeIsWhole ==
    \A id \in DOMAIN imports :
        /\ imports[id].status = "Completed" =>
               /\ imports[id].processed >= imports[id].total
               /\ Recorded(id) = {<<id, i>> : i \in 0..(imports[id].processed - 1)}
               /\ Erring(id) = {}
        /\ imports[id].status = "Failed" => Erring(id) # {}
        /\ imports[id].status # "RolledBack" => id \in importData

(* What "Perform rollback" (lib.rs:3078) promises; no run checks it: the    *)
(* entries are stored in persistent storage and looked up in the other one. *)
RollbackUndoes ==
    \A id \in DOMAIN imports : imports[id].status = "RolledBack" => Recorded(id) = {}

(* "Check if another import is in progress" (lib.rs:2913); no run checks it:*)
(* two imports started before the first batch of either go on side by side. *)
OneImportAtATime ==
    \A i, j \in DOMAIN imports : imports[i].status = "InProgress" /\ imports[j].status = "InProgress" => i = j
=============================================================================
