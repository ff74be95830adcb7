------------------------------ MODULE CodeCache ------------------------------
(***************************************************************************)
(* The runtime's cache of compiled code (jit/src/code_cache/mod.rs and     *)
(* evict.rs).  The runtime thread inserts, pins, invalidates and reclaims  *)
(* artifacts; every operation of CodeCache is one action.                  *)
(*                                                                         *)
(* An artifact is named by its key.  Two artifacts with the same key never *)
(* coexist: `insert` refuses to replace one that is pinned, and an         *)
(* unpinned one has no owner but the cache.  What an artifact contains is  *)
(* abstracted to the bytes it charges.  Measured benefit and recency come  *)
(* from wall-clock time; the order they induce among live artifacts is a   *)
(* nondeterministic choice, the rest of eviction_plan_order is kept.       *)
(***************************************************************************)
EXTENDS Integers, FiniteSets, FiniteSetsExt

CONSTANTS
  FunctionId,         \* VM-assigned function identities
  Generation,         \* generations a function identity can have
  Specialization,     \* fingerprints an optimizing artifact can carry
  ArtifactBytes,      \* sizes [code, metadata] a compiler can produce
  MaxCodeBytes,
  MaxMetadataBytes,
  MaxBytes,
  SeparateLimits,     \* CodeCache::new_with_separate_limits or ::new
  ReclaimBudget,      \* budgets reclamation is polled with
  MaxPins             \* bound: execution pins held on one artifact

ASSUME LimitsAssumption ==
  /\ MaxCodeBytes \in Nat /\ MaxMetadataBytes \in Nat /\ MaxBytes \in Nat
  /\ SeparateLimits \in BOOLEAN
  /\ SeparateLimits => MaxBytes = MaxCodeBytes + MaxMetadataBytes
  /\ ArtifactBytes \subseteq [code : Nat, metadata : Nat]
  /\ Specialization \subseteq Nat
  /\ Generation \subseteq Nat
  /\ ReclaimBudget \subseteq Nat
  /\ MaxPins \in Nat

FunctionKey == [id : FunctionId, generation : Generation]

BaselineKey(f) ==
  [function |-> f, tier |-> "Baseline", specialization |-> 0]

OptimizingKey(f, s) ==
  [function |-> f, tier |-> "Optimizing", specialization |-> s]

ArtifactKey ==
  {BaselineKey(f) : f \in FunctionKey}
    \cup {OptimizingKey(f, s) : f \in FunctionKey, s \in Specialization}

WithBaselineTier(k) == BaselineKey(k.function)

VARIABLES
  resident,          \* keys of the artifacts map
  size,              \* bytes each resident artifact charges
  charged,           \* charged_bytes, charged_code_bytes, charged_metadata_bytes
  execution_pins,    \* live ExecutionPins on each artifact
  deopt_references,  \* artifacts whose DeoptPin targets each artifact
  invalidated,       \* resident artifacts marked invalidated
  reclaim_needed     \* the flag shared by the cache and every pin

cacheVars == <<resident, size, charged, execution_pins, deopt_references,
               invalidated, reclaim_needed>>

Bytes == [bytes : Nat, code : Nat, metadata : Nat]

NoBytes == [bytes |-> 0, code |-> 0, metadata |-> 0]

CacheInit ==
  /\ resident = {}
  /\ size = [a \in ArtifactKey |-> NoBytes]
  /\ charged = NoBytes
  /\ execution_pins = [a \in ArtifactKey |-> 0]
  /\ deopt_references = [a \in ArtifactKey |-> {}]
  /\ invalidated = {}
  /\ reclaim_needed = FALSE

------------------------------------------------------------------------------
(* Byte accounting.  usize arithmetic is saturating or checked. *)

SaturatingSub(m, n) == IF n \in 0 .. m THEN m - n ELSE 0

(* Faulty SubBytes: the metadata of what leaves stays charged. *)
SubBytesKeepingMetadata(b, c) ==
  [bytes |-> SaturatingSub(b.bytes, c.bytes), code |-> SaturatingSub(b.code, c.code),
   metadata |-> b.metadata]

SubBytes(b, c) == [bytes |-> SaturatingSub(b.bytes, c.bytes),
                   code |-> SaturatingSub(b.code, c.code),
                   metadata |-> SaturatingSub(b.metadata, c.metadata)]

AddBytes(b, c) == [bytes |-> b.bytes + c.bytes,
                   code |-> b.code + c.code,
                   metadata |-> b.metadata + c.metadata]

(* charge_bytes, code_bytes and metadata_bytes of a compiled artifact. *)
Charge(art) == [bytes |-> art.code + art.metadata,
                code |-> art.code, metadata |-> art.metadata]

BytesOf(S) == [bytes |-> SumFunctionOnSet([a \in ArtifactKey |-> size[a].bytes], S),
               code |-> SumFunctionOnSet([a \in ArtifactKey |-> size[a].code], S),
               metadata |-> SumFunctionOnSet([a \in ArtifactKey |-> size[a].metadata], S)]

WithinLimits(b) ==
  /\ b.bytes =< MaxBytes
  /\ SeparateLimits => b.code =< MaxCodeBytes /\ b.metadata =< MaxMetadataBytes

FitsAlone(sz) == MaxBytes # 0 /\ WithinLimits(sz)

------------------------------------------------------------------------------
(* Insertion and the eviction plan. *)

IsEvictable(a) == execution_pins[a] = 0 /\ deopt_references[a] = {}

HasDeoptTarget(k) == k.tier = "Optimizing" => WithBaselineTier(k) \in resident

IsReplaceable(k) == k \in resident => IsEvictable(k)

(* The references on b once the insertion of k holds its own DeoptPin and  *)
(* the artifacts of `gone`, with the artifact k replaces, dropped theirs.   *)
ReferencesAfter(k, gone, b) ==
  (deopt_references[b] \ (gone \cup {k}))
    \cup (IF k.tier = "Optimizing" /\ b = WithBaselineTier(k) THEN {k} ELSE {})

(* The bytes the insertion is short of: needed_bytes, needed_code and       *)
(* needed_metadata.                                                         *)
Needed(k, sz) ==
  LET desired == AddBytes(SubBytes(charged, size[k]), sz)
      separate(n) == IF SeparateLimits THEN n ELSE 0
  IN  [bytes |-> SaturatingSub(desired.bytes, MaxBytes),
       code |-> separate(SaturatingSub(desired.code, MaxCodeBytes)),
       metadata |-> separate(SaturatingSub(desired.metadata, MaxMetadataBytes))]

(* Faulty Frees: the loop stops one byte early. *)
FreesAllButOne(selected, needed) ==
  /\ needed.bytes =< BytesOf(selected).bytes + 1
  /\ needed.code =< BytesOf(selected).code + 1
  /\ needed.metadata =< BytesOf(selected).metadata + 1

Frees(selected, needed) ==
  /\ needed.bytes =< BytesOf(selected).bytes
  /\ needed.code =< BytesOf(selected).code
  /\ needed.metadata =< BytesOf(selected).metadata

(* Faulty EvictionCandidates: execution pins are not looked at. *)
CandidatesIgnoringPins(k, selected) ==
  {a \in resident \ ({k} \cup selected) : ReferencesAfter(k, selected, a) = {}}

EvictionCandidates(k, selected) ==
  {a \in resident \ ({k} \cup selected) :
     execution_pins[a] = 0 /\ ReferencesAfter(k, selected, a) = {}}

(* Faulty FirstInPlanOrder: benefit and recency alone decide. *)
ByBenefitOnly(C) == C

(* The candidates no other candidate precedes in eviction_plan_order:       *)
(* invalidated artifacts first, optimizing ones before baseline ones.       *)
FirstInPlanOrder(C) ==
  LET dead == C \cap invalidated
      deadOptimizing == {a \in dead : a.tier = "Optimizing"}
  IN  CASE deadOptimizing # {} -> deadOptimizing
        [] deadOptimizing = {} /\ dead # {} -> dead
        [] OTHER -> C

(* `order` is a run of the loop of evict::plan: each artifact is selected   *)
(* while room is still missing, and was first among the candidates then.    *)
IsPlanRun(k, sz, order) ==
  \A i \in DOMAIN order :
    LET before == {order[j] : j \in {j \in DOMAIN order : j < i}}
    IN  /\ ~Frees(before, Needed(k, sz))
        /\ order[i] \in FirstInPlanOrder(EvictionCandidates(k, before))

PlanRuns(k, sz, selected) ==
  {order \in [1 .. Cardinality(selected) -> selected] :
     Range(order) = selected /\ IsPlanRun(k, sz, order)}

(* Dropping the last DeoptPin of an invalidated artifact requests a poll.   *)
ReleasesInvalidated(k, gone) ==
  \E b \in invalidated :
    deopt_references[b] \cap gone # {} /\ ReferencesAfter(k, gone, b) = {}

InsertEvicting(k, sz, selected) ==
  /\ FitsAlone(sz) /\ HasDeoptTarget(k) /\ IsReplaceable(k)
  /\ Frees(selected, Needed(k, sz))
  /\ PlanRuns(k, sz, selected) # {}
  /\ resident' = (resident \ selected) \cup {k}
  /\ size' = [a \in ArtifactKey |-> IF a = k THEN sz
                                    ELSE IF a \in selected THEN NoBytes ELSE size[a]]
  /\ charged' = AddBytes(SubBytes(SubBytes(charged, size[k]), BytesOf(selected)), sz)
  /\ deopt_references' = [b \in ArtifactKey |->
                            IF b = k THEN {} ELSE ReferencesAfter(k, selected, b)]
  /\ invalidated' = invalidated \ (selected \cup {k})
  /\ reclaim_needed' = (reclaim_needed \/ ReleasesInvalidated(k, selected))
  /\ UNCHANGED execution_pins

Insert(k, sz) == \E selected \in SUBSET (resident \ {k}) : InsertEvicting(k, sz, selected)

(* The plan ran out of candidates: AllArtifactsPinned. *)
PlanIsStuck(k, sz) ==
  \E selected \in SUBSET (resident \ {k}) :
    /\ ~Frees(selected, Needed(k, sz))
    /\ EvictionCandidates(k, selected) = {}
    /\ PlanRuns(k, sz, selected) # {}

(* A refused insertion.  Past the size checks it held a DeoptPin, and       *)
(* dropping that pin on the way out may be the last reference.              *)
InsertFails(k, sz) ==
  /\ \/ ~FitsAlone(sz) \/ ~HasDeoptTarget(k) \/ ~IsReplaceable(k)
     \/ PlanIsStuck(k, sz)
  /\ reclaim_needed' =
       (\/ reclaim_needed
        \/ /\ k.tier = "Optimizing" /\ FitsAlone(sz) /\ HasDeoptTarget(k)
           /\ WithBaselineTier(k) \in invalidated
           /\ deopt_references[WithBaselineTier(k)] = {})
  /\ UNCHANGED <<resident, size, charged, execution_pins, deopt_references, invalidated>>

------------------------------------------------------------------------------
(* Pins, invalidation, reclamation. *)

Pin(k) ==
  /\ k \in resident /\ k \notin invalidated
  /\ execution_pins[k] < MaxPins
  /\ execution_pins' = [execution_pins EXCEPT ![k] = @ + 1]
  /\ UNCHANGED <<resident, size, charged, deopt_references, invalidated, reclaim_needed>>

(* Faulty DropPin: the last pin of an invalidated artifact requests nothing. *)
DropPinSilently(k) ==
  /\ execution_pins[k] > 0
  /\ execution_pins' = [execution_pins EXCEPT ![k] = @ - 1]
  /\ UNCHANGED <<resident, size, charged, deopt_references, invalidated, reclaim_needed>>

DropPin(k) ==
  /\ execution_pins[k] > 0
  /\ execution_pins' = [execution_pins EXCEPT ![k] = @ - 1]
  /\ reclaim_needed' = (reclaim_needed \/ (execution_pins[k] = 1 /\ k \in invalidated))
  /\ UNCHANGED <<resident, size, charged, deopt_references, invalidated>>

ArtifactsOf(fs) == {a \in resident : a.function \in fs}

(* invalidate_deferred for each function of fs *)
InvalidateDeferred(fs) ==
  /\ invalidated' = invalidated \cup ArtifactsOf(fs)
  /\ reclaim_needed' = (reclaim_needed \/ ArtifactsOf(fs) # {})
  /\ UNCHANGED <<resident, size, charged, execution_pins, deopt_references>>

(* With the artifacts of `marked` invalidated and those of `gone` already   *)
(* removed: the invalidated artifacts that are evictable.                   *)
InvalidatedCandidates(marked, gone) ==
  {a \in marked \ gone : execution_pins[a] = 0 /\ deopt_references[a] \ gone = {}}

(* next_invalidated_candidate: optimizing artifacts first.  The order among *)
(* keys of one tier is left open.                                           *)
FirstToReclaim(C) ==
  IF \E a \in C : a.tier = "Optimizing" THEN {a \in C : a.tier = "Optimizing"} ELSE C

IsReclaimRun(marked, order) ==
  \A i \in DOMAIN order :
    order[i] \in FirstToReclaim(InvalidatedCandidates(marked,
                                  {order[j] : j \in {j \in DOMAIN order : j < i}}))

(* Reclamation can remove exactly `gone`, one candidate after the other. *)
IsReclaimable(marked, gone) ==
  \E order \in [1 .. Cardinality(gone) -> gone] :
    Range(order) = gone /\ IsReclaimRun(marked, order)

(* Removes `gone`; the flag was cleared first, is set again by a DeoptPin   *)
(* dropped on the way and by candidates left behind.                        *)
CollectRemoving(marked, gone) ==
  /\ IsReclaimable(marked, gone)
  /\ resident' = resident \ gone
  /\ size' = [a \in ArtifactKey |-> IF a \in gone THEN NoBytes ELSE size[a]]
  /\ charged' = SubBytes(charged, BytesOf(gone))
  /\ deopt_references' = [b \in ArtifactKey |-> deopt_references[b] \ gone]
  /\ invalidated' = marked \ gone
  /\ reclaim_needed' =
       (\/ InvalidatedCandidates(marked, gone) # {}
        \/ \E b \in marked : deopt_references[b] \cap gone # {}
                             /\ deopt_references[b] \ gone = {})
  /\ UNCHANGED execution_pins

(* collect_invalidated, once the artifacts of fs are invalidated too: the   *)
(* whole of CodeCache::invalidate.                                          *)
CollectInvalidated(fs) ==
  LET marked == invalidated \cup ArtifactsOf(fs)
  IN  \E gone \in SUBSET marked :
        InvalidatedCandidates(marked, gone) = {} /\ CollectRemoving(marked, gone)

(* The loop stops at the budget or when no candidate is left. *)
PollReclamation(budget) ==
  \/ ~reclaim_needed /\ UNCHANGED cacheVars
  \/ /\ reclaim_needed
     /\ \E gone \in SUBSET invalidated :
          /\ Cardinality(gone) =< budget
          /\ Cardinality(gone) < budget => InvalidatedCandidates(invalidated, gone) = {}
          /\ CollectRemoving(invalidated, gone)

(* A step of the coordinator may invalidate several functions: one after    *)
(* the other, with nothing in between.                                      *)
CacheNext ==
  \/ \E k \in ArtifactKey, art \in ArtifactBytes :
       Insert(k, Charge(art)) \/ InsertFails(k, Charge(art))
  \/ \E k \in ArtifactKey : Pin(k) \/ DropPin(k)
  \/ \E fs \in SUBSET FunctionKey : InvalidateDeferred(fs) \/ CollectInvalidated(fs)
  \/ \E budget \in ReclaimBudget : PollReclamation(budget)

CacheSpec == CacheInit /\ [][CacheNext]_cacheVars

------------------------------------------------------------------------------
(* Properties. *)

(* The types of the cache's fields; charges are natural numbers. *)
CacheTypeOK ==
  /\ resident \subseteq ArtifactKey
  /\ size \in [ArtifactKey -> Bytes]
  /\ charged \in Bytes
  /\ execution_pins \in [ArtifactKey -> Nat]
  /\ deopt_references \in [ArtifactKey -> SUBSET ArtifactKey]
  /\ invalidated \subseteq resident
  /\ reclaim_needed \in BOOLEAN

(* Code that is executing stays in the cache: no insertion, eviction or     *)
(* reclamation removes an artifact on which an ExecutionPin is held.        *)
PinnedCodeIsResident ==
  \A a \in ArtifactKey : execution_pins[a] > 0 => a \in resident

(* A resident optimizing artifact always has its baseline deopt target      *)
(* resident, through every interleaving of replacement, multi-artifact      *)
(* eviction, invalidation and budgeted reclamation.                         *)
DeoptTargetIsResident ==
  \A a \in resident : a.tier = "Optimizing" => WithBaselineTier(a) \in resident

(* Code that an activation may still run, or deoptimize into, is in the     *)
(* cache.                                                                   *)
CodeInUseIsResident == PinnedCodeIsResident /\ DeoptTargetIsResident

(* The references on a baseline are exactly the resident optimizing         *)
(* artifacts that deoptimize to it: no DeoptPin is leaked (the baseline     *)
(* would never be evictable) or dropped early.                              *)
DeoptReferencesAreExact ==
  \A b \in ArtifactKey :
    deopt_references[b] =
      {a \in resident : a.tier = "Optimizing" /\ WithBaselineTier(a) = b}

(* What is charged is what the resident artifacts occupy. *)
ChargeIsExact == charged = BytesOf(resident)

(* The limits hold after every insertion, the replaced and evicted          *)
(* artifacts accounted for.                                                 *)
ChargeIsWithinLimits == WithinLimits(charged)

(* No wake-up is lost: whenever an invalidated artifact could be reclaimed  *)
(* the reclamation flag is set, so the next poll will look for it.          *)
ReclaimableIsRequested == InvalidatedCandidates(invalidated, {}) # {} => reclaim_needed

(* Live code is evicted only after every invalidated artifact that nothing  *)
(* holds: eviction_plan_order puts invalidated artifacts first.             *)
InvalidatedEvictedFirst ==
  [][(resident \ resident') \ invalidated # {}
        => \A b \in InvalidatedCandidates(invalidated, {}) \cap invalidated' :
             deopt_references'[b] # {}]_cacheVars
==============================================================================
