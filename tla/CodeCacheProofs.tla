--------------------------- MODULE CodeCacheProofs ---------------------------
(***************************************************************************)
(* Proofs about CodeCache for any functions, sizes, limits and budgets.    *)
(* CacheInv is inductive: a removal is safe for a deopt target because     *)
(* references are exact, references stay exact because a replaced or       *)
(* removed artifact has none left, and no wake-up is lost because every    *)
(* reference on an invalidated artifact is one of a resident artifact.     *)
(***************************************************************************)
EXTENDS CodeCache, SumTheorems

CacheInv ==
  /\ CacheTypeOK
  /\ IsFiniteSet(resident)
  /\ PinnedCodeIsResident
  /\ DeoptTargetIsResident
  /\ DeoptReferencesAreExact
  /\ ChargeIsWithinLimits
  /\ ReclaimableIsRequested

------------------------------------------------------------------------------
(* Keys. *)

(* An artifact's deopt target is a baseline key of the same function. *)
LEMMA KeyFacts ==
  ASSUME NEW a \in ArtifactKey
  PROVE  /\ WithBaselineTier(a) \in ArtifactKey
         /\ WithBaselineTier(a).tier = "Baseline"
         /\ a.tier = "Optimizing" => WithBaselineTier(a) # a
BY DEF ArtifactKey, WithBaselineTier, BaselineKey, OptimizingKey

------------------------------------------------------------------------------
(* Byte accounting. *)

(* A subtraction that does not go below zero. *)
LEMMA SaturatingSubFacts ==
  ASSUME NEW m \in Nat, NEW n
  PROVE  /\ SaturatingSub(m, n) \in Nat
         /\ SaturatingSub(m, n) =< m
BY DEF SaturatingSub

(* Evicting at least what an insertion is short of brings it within a limit. *)
LEMMA EvictionMakesRoom ==
  ASSUME NEW d \in Nat, NEW sz \in Nat, NEW limit \in Nat, NEW freed \in Nat,
         sz =< limit, SaturatingSub(d + sz, limit) =< freed
  PROVE  SaturatingSub(d, freed) + sz =< limit
BY DEF SaturatingSub

LEMMA SubBytesType ==
  ASSUME NEW b \in Bytes, NEW c
  PROVE  SubBytes(b, c) \in Bytes
BY SaturatingSubFacts DEF SubBytes, Bytes

LEMMA ChargeType ==
  ASSUME NEW art \in ArtifactBytes
  PROVE  Charge(art) \in Bytes
BY LimitsAssumption DEF Charge, Bytes

(* What a finite set of artifacts occupies. *)
LEMMA BytesOfType ==
  ASSUME CacheTypeOK, NEW S \in SUBSET ArtifactKey, IsFiniteSet(S)
  PROVE  BytesOf(S) \in Bytes
<1>1. \A a \in S : size[a].bytes \in Nat /\ size[a].code \in Nat /\ size[a].metadata \in Nat
  BY DEF CacheTypeOK, Bytes
<1>2. /\ SumFunctionOnSet([a \in ArtifactKey |-> size[a].bytes], S) \in Nat
      /\ SumFunctionOnSet([a \in ArtifactKey |-> size[a].code], S) \in Nat
      /\ SumFunctionOnSet([a \in ArtifactKey |-> size[a].metadata], S) \in Nat
  BY <1>1, SumType
<1> QED BY <1>2 DEF BytesOf, Bytes

(* Releasing bytes never leaves the limits. *)
LEMMA SubBytesWithinLimits ==
  ASSUME NEW b \in Bytes, NEW c, WithinLimits(b)
  PROVE  WithinLimits(SubBytes(b, c))
<1>1. /\ SaturatingSub(b.bytes, c.bytes) \in Nat /\ SaturatingSub(b.bytes, c.bytes) =< b.bytes
      /\ SaturatingSub(b.code, c.code) \in Nat /\ SaturatingSub(b.code, c.code) =< b.code
      /\ SaturatingSub(b.metadata, c.metadata) \in Nat
      /\ SaturatingSub(b.metadata, c.metadata) =< b.metadata
  BY SaturatingSubFacts DEF Bytes
<1> QED BY <1>1, LimitsAssumption DEF WithinLimits, SubBytes, Bytes

------------------------------------------------------------------------------
(* Runs of the eviction plan and of reclamation. *)

(* The victim is one of the candidates, and comes before the others. *)
LEMMA FirstInPlanOrderFacts ==
  ASSUME NEW C
  PROVE  /\ FirstInPlanOrder(C) \subseteq C
         /\ C \cap invalidated # {} => FirstInPlanOrder(C) \subseteq invalidated
BY DEF FirstInPlanOrder

(* Every artifact the plan selects was first among the candidates left by   *)
(* some of the artifacts selected with it.                                  *)
LEMMA PlanSelectsCandidates ==
  ASSUME NEW k, NEW sz, NEW selected, PlanRuns(k, sz, selected) # {},
         NEW a \in selected
  PROVE  \E before \in SUBSET selected :
           a \in FirstInPlanOrder(EvictionCandidates(k, before))
<1>1. PICK order \in [1 .. Cardinality(selected) -> selected] :
             Range(order) = selected /\ IsPlanRun(k, sz, order)
  BY DEF PlanRuns
<1>2. PICK i \in DOMAIN order : order[i] = a
  BY <1>1 DEF Range
<1> DEFINE before == {order[j] : j \in {j \in DOMAIN order : j < i}}
<1>3. before \subseteq selected
  BY <1>1
<1>4. a \in FirstInPlanOrder(EvictionCandidates(k, before))
  BY <1>1, <1>2 DEF IsPlanRun
<1> QED BY <1>3, <1>4

(* Likewise for what a reclamation removes. *)
LEMMA ReclaimRemovesCandidates ==
  ASSUME NEW marked, NEW gone, IsReclaimable(marked, gone), NEW a \in gone
  PROVE  \E before \in SUBSET gone : a \in InvalidatedCandidates(marked, before)
<1>1. PICK order \in [1 .. Cardinality(gone) -> gone] :
             Range(order) = gone /\ IsReclaimRun(marked, order)
  BY DEF IsReclaimable
<1>2. PICK i \in DOMAIN order : order[i] = a
  BY <1>1 DEF Range
<1> DEFINE before == {order[j] : j \in {j \in DOMAIN order : j < i}}
<1>3. before \subseteq gone
  BY <1>1
<1>4. a \in FirstToReclaim(InvalidatedCandidates(marked, before))
  BY <1>1, <1>2 DEF IsReclaimRun
<1>5. a \in InvalidatedCandidates(marked, before)
  BY <1>4 DEF FirstToReclaim
<1> QED BY <1>3, <1>5

(* An evicted artifact is not pinned, and what refers to it goes with it:   *)
(* it is evicted too, or is the artifact the insertion replaces.            *)
LEMMA EvictedIsUnreferenced ==
  ASSUME NEW k, NEW sz, NEW selected, PlanRuns(k, sz, selected) # {},
         NEW a \in selected
  PROVE  /\ execution_pins[a] = 0
         /\ deopt_references[a] \subseteq selected \cup {k}
         /\ ~(k.tier = "Optimizing" /\ a = WithBaselineTier(k))
<1>1. PICK before \in SUBSET selected :
             a \in FirstInPlanOrder(EvictionCandidates(k, before))
  BY PlanSelectsCandidates
<1>2. a \in EvictionCandidates(k, before)
  BY <1>1, FirstInPlanOrderFacts
<1>3. execution_pins[a] = 0 /\ ReferencesAfter(k, before, a) = {}
  BY <1>2 DEF EvictionCandidates
<1> QED BY <1>1, <1>3 DEF ReferencesAfter

------------------------------------------------------------------------------
(* The insertion of k, evicting `selected`, conjunct by conjunct. *)

LEMMA InsertKeepsType ==
  ASSUME CacheTypeOK, NEW k \in ArtifactKey, NEW sz \in Bytes,
         NEW selected \in SUBSET (resident \ {k}), InsertEvicting(k, sz, selected)
  PROVE  CacheTypeOK'
<1>1. resident' \subseteq ArtifactKey /\ invalidated' \subseteq resident'
  BY DEF InsertEvicting, CacheTypeOK
<1>2. NoBytes \in Bytes
  BY DEF NoBytes, Bytes
<1>3. size' \in [ArtifactKey -> Bytes]
  BY <1>2 DEF InsertEvicting, CacheTypeOK
<1>4. SubBytes(SubBytes(charged, size[k]), BytesOf(selected)) \in Bytes
  BY SubBytesType DEF CacheTypeOK
<1>5. charged' \in Bytes
  BY <1>4 DEF InsertEvicting, AddBytes, Bytes
<1>6. deopt_references' \in [ArtifactKey -> SUBSET ArtifactKey]
  BY DEF InsertEvicting, CacheTypeOK, ReferencesAfter
<1>7. reclaim_needed' \in BOOLEAN
  BY DEF InsertEvicting
<1> QED BY <1>1, <1>3, <1>5, <1>6, <1>7 DEF InsertEvicting, CacheTypeOK

LEMMA InsertKeepsReferences ==
  ASSUME CacheTypeOK, DeoptTargetIsResident, DeoptReferencesAreExact,
         NEW k \in ArtifactKey, NEW sz \in Bytes,
         NEW selected \in SUBSET (resident \ {k}), InsertEvicting(k, sz, selected)
  PROVE  DeoptTargetIsResident' /\ DeoptReferencesAreExact'
<1>1. /\ PlanRuns(k, sz, selected) # {} /\ HasDeoptTarget(k) /\ IsReplaceable(k)
      /\ resident' = (resident \ selected) \cup {k}
      /\ deopt_references' = [b \in ArtifactKey |->
                                IF b = k THEN {} ELSE ReferencesAfter(k, selected, b)]
  BY DEF InsertEvicting
<1>2. DeoptTargetIsResident'
  <2> SUFFICES ASSUME NEW a \in resident', a.tier = "Optimizing"
               PROVE  WithBaselineTier(a) \in resident'
    BY DEF DeoptTargetIsResident
  <2>1. a \in ArtifactKey /\ WithBaselineTier(a) \in ArtifactKey
    BY <1>1, KeyFacts DEF CacheTypeOK
  <2>2. WithBaselineTier(a) \in resident
    BY <1>1 DEF DeoptTargetIsResident, HasDeoptTarget
  <2>3. a # k => a \in deopt_references[WithBaselineTier(a)]
    BY <1>1, <2>1 DEF DeoptReferencesAreExact
  <2>4. WithBaselineTier(a) \notin selected
    BY <1>1, <2>3, EvictedIsUnreferenced
  <2> QED BY <1>1, <2>2, <2>4
<1>3. ASSUME NEW b \in ArtifactKey
      PROVE  deopt_references'[b] =
               {a \in resident' : a.tier = "Optimizing" /\ WithBaselineTier(a) = b}
  <2>0. deopt_references[b] =
          {a \in resident : a.tier = "Optimizing" /\ WithBaselineTier(a) = b}
    BY DEF DeoptReferencesAreExact
  <2>1. CASE b = k
    <3>1. k \notin resident => deopt_references[k] = {}
      BY <2>0, <2>1 DEF DeoptTargetIsResident
    <3>2. k \in resident => deopt_references[k] = {}
      BY <1>1 DEF IsReplaceable, IsEvictable
    <3> QED BY <1>1, <2>0, <2>1, <3>1, <3>2, KeyFacts
  <2>2. CASE b # k
    BY <1>1, <2>0, <2>2 DEF ReferencesAfter
  <2> QED BY <2>1, <2>2
<1> QED BY <1>2, <1>3 DEF DeoptReferencesAreExact

LEMMA InsertKeepsPins ==
  ASSUME PinnedCodeIsResident, NEW k \in ArtifactKey, NEW sz \in Bytes,
         NEW selected \in SUBSET (resident \ {k}), InsertEvicting(k, sz, selected)
  PROVE  PinnedCodeIsResident'
<1>1. \A a \in selected : execution_pins[a] = 0
  BY EvictedIsUnreferenced DEF InsertEvicting
<1> QED BY <1>1 DEF InsertEvicting, PinnedCodeIsResident

LEMMA InsertKeepsLimits ==
  ASSUME CacheTypeOK, IsFiniteSet(resident), NEW k \in ArtifactKey, NEW sz \in Bytes,
         NEW selected \in SUBSET (resident \ {k}), InsertEvicting(k, sz, selected)
  PROVE  ChargeIsWithinLimits'
<1> DEFINE d == SubBytes(charged, size[k])
           freed == BytesOf(selected)
           needed == Needed(k, sz)
<1>0. selected \in SUBSET ArtifactKey /\ IsFiniteSet(selected)
  BY FS_Subset DEF CacheTypeOK
<1>1. d \in Bytes /\ freed \in Bytes
  BY <1>0, SubBytesType, BytesOfType DEF CacheTypeOK
<1>2. /\ needed.bytes =< freed.bytes
      /\ needed.code =< freed.code
      /\ needed.metadata =< freed.metadata
  BY DEF InsertEvicting, Frees
<1>3. charged' = AddBytes(SubBytes(d, freed), sz) /\ WithinLimits(sz)
  BY DEF InsertEvicting, FitsAlone
<1>4. needed.bytes = SaturatingSub(d.bytes + sz.bytes, MaxBytes)
  BY DEF Needed, AddBytes
<1>5. SeparateLimits =>
        /\ needed.code = SaturatingSub(d.code + sz.code, MaxCodeBytes)
        /\ needed.metadata = SaturatingSub(d.metadata + sz.metadata, MaxMetadataBytes)
  BY DEF Needed, AddBytes
<1> HIDE DEF d, freed, needed
<1>6. SaturatingSub(d.bytes, freed.bytes) + sz.bytes =< MaxBytes
  BY <1>1, <1>2, <1>3, <1>4, EvictionMakesRoom, LimitsAssumption DEF Bytes, WithinLimits
<1>7. SeparateLimits =>
        /\ SaturatingSub(d.code, freed.code) + sz.code =< MaxCodeBytes
        /\ SaturatingSub(d.metadata, freed.metadata) + sz.metadata =< MaxMetadataBytes
  BY <1>1, <1>2, <1>3, <1>5, EvictionMakesRoom, LimitsAssumption DEF Bytes, WithinLimits
<1>8. WithinLimits(AddBytes(SubBytes(d, freed), sz))
  BY <1>6, <1>7 DEF WithinLimits, AddBytes, SubBytes
<1> QED BY <1>3, <1>8 DEF ChargeIsWithinLimits, WithinLimits

LEMMA InsertKeepsRequest ==
  ASSUME CacheTypeOK, DeoptReferencesAreExact, ReclaimableIsRequested,
         NEW k \in ArtifactKey, NEW sz \in Bytes,
         NEW selected \in SUBSET (resident \ {k}), InsertEvicting(k, sz, selected)
  PROVE  ReclaimableIsRequested'
<1> SUFFICES ASSUME NEW b \in invalidated', execution_pins'[b] = 0,
                    deopt_references'[b] = {}
             PROVE  reclaim_needed'
  BY DEF ReclaimableIsRequested, InvalidatedCandidates
<1>1. b \in invalidated /\ b # k /\ b \in ArtifactKey /\ execution_pins[b] = 0
  BY DEF InsertEvicting, CacheTypeOK
<1>2. ReferencesAfter(k, selected, b) = {}
  BY <1>1 DEF InsertEvicting
<1>3. CASE deopt_references[b] = {}
  BY <1>1, <1>3 DEF ReclaimableIsRequested, InvalidatedCandidates, InsertEvicting
<1>4. CASE deopt_references[b] # {}
  <2>1. k \notin deopt_references[b]
    BY <1>1, <1>2 DEF DeoptReferencesAreExact, ReferencesAfter
  <2>2. deopt_references[b] \cap selected # {}
    BY <1>2, <1>4, <2>1 DEF ReferencesAfter
  <2> QED BY <1>1, <1>2, <2>2 DEF ReleasesInvalidated, InsertEvicting
<1> QED BY <1>3, <1>4

LEMMA InsertKeepsInv ==
  ASSUME CacheInv, NEW k \in ArtifactKey, NEW sz \in Bytes, Insert(k, sz)
  PROVE  CacheInv'
<1>1. PICK selected \in SUBSET (resident \ {k}) : InsertEvicting(k, sz, selected)
  BY DEF Insert
<1>2. IsFiniteSet(resident')
  BY <1>1, FS_Subset, FS_AddElement DEF InsertEvicting, CacheInv
<1> QED BY <1>1, <1>2, InsertKeepsType, InsertKeepsReferences, InsertKeepsPins,
           InsertKeepsLimits, InsertKeepsRequest DEF CacheInv

------------------------------------------------------------------------------
(* The other operations. *)

LEMMA InsertFailsKeepsInv ==
  ASSUME CacheInv, NEW k \in ArtifactKey, NEW sz \in Bytes, InsertFails(k, sz)
  PROVE  CacheInv'
<1>1. /\ UNCHANGED <<resident, size, charged, execution_pins, deopt_references, invalidated>>
      /\ reclaim_needed' \in BOOLEAN
      /\ reclaim_needed => reclaim_needed'
  BY DEF InsertFails, CacheInv, CacheTypeOK
<1>2. CacheTypeOK' /\ IsFiniteSet(resident') /\ PinnedCodeIsResident'
  BY <1>1 DEF CacheInv, CacheTypeOK, PinnedCodeIsResident
<1>3. DeoptTargetIsResident' /\ DeoptReferencesAreExact'
  BY <1>1 DEF CacheInv, DeoptTargetIsResident, DeoptReferencesAreExact
<1>4. ChargeIsWithinLimits' /\ ReclaimableIsRequested'
  BY <1>1 DEF CacheInv, ChargeIsWithinLimits, WithinLimits, ReclaimableIsRequested,
              InvalidatedCandidates
<1> QED BY <1>2, <1>3, <1>4 DEF CacheInv

LEMMA PinKeepsInv ==
  ASSUME CacheInv, NEW k \in ArtifactKey, Pin(k)
  PROVE  CacheInv'
<1>1. CacheTypeOK' /\ IsFiniteSet(resident') /\ PinnedCodeIsResident'
  BY DEF Pin, CacheInv, CacheTypeOK, PinnedCodeIsResident
<1>2. DeoptTargetIsResident' /\ DeoptReferencesAreExact'
  BY DEF Pin, CacheInv, DeoptTargetIsResident, DeoptReferencesAreExact
<1>3. ChargeIsWithinLimits'
  BY DEF Pin, CacheInv, ChargeIsWithinLimits, WithinLimits
<1>4. ReclaimableIsRequested'
  BY DEF Pin, CacheInv, CacheTypeOK, ReclaimableIsRequested, InvalidatedCandidates
<1> QED BY <1>1, <1>2, <1>3, <1>4 DEF CacheInv

LEMMA DropPinKeepsInv ==
  ASSUME CacheInv, NEW k \in ArtifactKey, DropPin(k)
  PROVE  CacheInv'
<1>1. CacheTypeOK' /\ IsFiniteSet(resident') /\ PinnedCodeIsResident'
  BY DEF DropPin, CacheInv, CacheTypeOK, PinnedCodeIsResident
<1>2. DeoptTargetIsResident' /\ DeoptReferencesAreExact'
  BY DEF DropPin, CacheInv, DeoptTargetIsResident, DeoptReferencesAreExact
<1>3. ChargeIsWithinLimits'
  BY DEF DropPin, CacheInv, ChargeIsWithinLimits, WithinLimits
<1>4. ReclaimableIsRequested'
  <2> SUFFICES ASSUME NEW b \in invalidated', execution_pins'[b] = 0,
                      deopt_references'[b] = {}
               PROVE  reclaim_needed'
    BY DEF ReclaimableIsRequested, InvalidatedCandidates
  <2>1. b \in invalidated /\ b \in ArtifactKey /\ deopt_references[b] = {}
    BY DEF DropPin, CacheInv, CacheTypeOK
  <2>2. b # k => execution_pins[b] = 0
    BY <2>1 DEF DropPin, CacheInv, CacheTypeOK
  <2>3. b = k => execution_pins[b] = 1
    BY <2>1 DEF DropPin, CacheInv, CacheTypeOK
  <2>4. execution_pins[b] = 0 => reclaim_needed
    BY <2>1 DEF CacheInv, ReclaimableIsRequested, InvalidatedCandidates
  <2> QED BY <2>1, <2>2, <2>3, <2>4 DEF DropPin
<1> QED BY <1>1, <1>2, <1>3, <1>4 DEF CacheInv

LEMMA InvalidateKeepsInv ==
  ASSUME CacheInv, NEW fs, InvalidateDeferred(fs)
  PROVE  CacheInv'
<1>1. CacheTypeOK' /\ IsFiniteSet(resident') /\ PinnedCodeIsResident'
  BY DEF InvalidateDeferred, ArtifactsOf, CacheInv, CacheTypeOK, PinnedCodeIsResident
<1>2. DeoptTargetIsResident' /\ DeoptReferencesAreExact'
  BY DEF InvalidateDeferred, CacheInv, DeoptTargetIsResident, DeoptReferencesAreExact
<1>3. ChargeIsWithinLimits'
  BY DEF InvalidateDeferred, CacheInv, ChargeIsWithinLimits, WithinLimits
<1>4. ReclaimableIsRequested'
  BY DEF InvalidateDeferred, CacheInv, ReclaimableIsRequested, InvalidatedCandidates
<1> QED BY <1>1, <1>2, <1>3, <1>4 DEF CacheInv

LEMMA CollectKeepsInv ==
  ASSUME CacheInv, NEW marked \in SUBSET resident, invalidated \subseteq marked,
         NEW gone \in SUBSET marked, CollectRemoving(marked, gone)
  PROVE  CacheInv'
<1>1. /\ IsReclaimable(marked, gone) /\ gone \subseteq resident
      /\ resident' = resident \ gone /\ invalidated' = marked \ gone
      /\ charged' = SubBytes(charged, BytesOf(gone))
      /\ deopt_references' = [b \in ArtifactKey |-> deopt_references[b] \ gone]
      /\ execution_pins' = execution_pins
  BY DEF CollectRemoving, CacheInv, CacheTypeOK
<1>2. \A a \in gone : execution_pins[a] = 0 /\ deopt_references[a] \subseteq gone
  BY <1>1, ReclaimRemovesCandidates DEF InvalidatedCandidates
<1>3. CacheTypeOK'
  <2>1. charged' \in Bytes
    BY <1>1, SubBytesType DEF CacheInv, CacheTypeOK
  <2>2. size' \in [ArtifactKey -> Bytes]
    BY DEF CollectRemoving, CacheInv, CacheTypeOK, NoBytes, Bytes
  <2>3. reclaim_needed' \in BOOLEAN
    BY DEF CollectRemoving
  <2> QED BY <1>1, <2>1, <2>2, <2>3 DEF CacheInv, CacheTypeOK
<1>4. IsFiniteSet(resident') /\ PinnedCodeIsResident'
  BY <1>1, <1>2, FS_Subset DEF CacheInv, PinnedCodeIsResident
<1>5. DeoptTargetIsResident'
  <2> SUFFICES ASSUME NEW a \in resident', a.tier = "Optimizing"
               PROVE  WithBaselineTier(a) \in resident'
    BY DEF DeoptTargetIsResident
  <2>1. a \in ArtifactKey /\ a \in resident /\ a \notin gone
        /\ WithBaselineTier(a) \in ArtifactKey
    BY <1>1, KeyFacts DEF CacheInv, CacheTypeOK
  <2>2. WithBaselineTier(a) \in resident /\ a \in deopt_references[WithBaselineTier(a)]
    BY <2>1 DEF CacheInv, DeoptTargetIsResident, DeoptReferencesAreExact
  <2> QED BY <1>1, <1>2, <2>1, <2>2
<1>6. DeoptReferencesAreExact'
  BY <1>1 DEF CacheInv, DeoptReferencesAreExact
<1>7. ChargeIsWithinLimits'
  <2>1. WithinLimits(SubBytes(charged, BytesOf(gone)))
    BY SubBytesWithinLimits DEF CacheInv, CacheTypeOK, ChargeIsWithinLimits
  <2> QED BY <1>1, <2>1 DEF ChargeIsWithinLimits, WithinLimits
<1>8. ReclaimableIsRequested'
  <2> SUFFICES ASSUME NEW b \in invalidated', execution_pins'[b] = 0,
                      deopt_references'[b] = {}
               PROVE  reclaim_needed'
    BY DEF ReclaimableIsRequested, InvalidatedCandidates
  <2>1. b \in InvalidatedCandidates(marked, gone)
    BY <1>1 DEF InvalidatedCandidates, CacheInv, CacheTypeOK
  <2> QED BY <2>1 DEF CollectRemoving
<1> QED BY <1>3, <1>4, <1>5, <1>6, <1>7, <1>8 DEF CacheInv

LEMMA StutterKeepsInv ==
  ASSUME CacheInv, UNCHANGED cacheVars
  PROVE  CacheInv'
<1>1. CacheTypeOK' /\ IsFiniteSet(resident') /\ PinnedCodeIsResident'
  BY DEF cacheVars, CacheInv, CacheTypeOK, PinnedCodeIsResident
<1>2. DeoptTargetIsResident' /\ DeoptReferencesAreExact'
  BY DEF cacheVars, CacheInv, DeoptTargetIsResident, DeoptReferencesAreExact
<1>3. ChargeIsWithinLimits' /\ ReclaimableIsRequested'
  BY DEF cacheVars, CacheInv, ChargeIsWithinLimits, WithinLimits, ReclaimableIsRequested,
         InvalidatedCandidates
<1> QED BY <1>1, <1>2, <1>3 DEF CacheInv

LEMMA PollKeepsInv ==
  ASSUME CacheInv, NEW budget, PollReclamation(budget)
  PROVE  CacheInv'
<1>1. CASE ~reclaim_needed
  BY <1>1, StutterKeepsInv DEF PollReclamation
<1>2. CASE reclaim_needed
  <2>1. PICK gone \in SUBSET invalidated : CollectRemoving(invalidated, gone)
    BY <1>2 DEF PollReclamation
  <2>2. invalidated \in SUBSET resident
    BY DEF CacheInv, CacheTypeOK
  <2> QED BY <2>1, <2>2, CollectKeepsInv
<1> QED BY <1>1, <1>2

LEMMA CollectInvalidatedKeepsInv ==
  ASSUME CacheInv, NEW fs, CollectInvalidated(fs)
  PROVE  CacheInv'
<1> DEFINE marked == invalidated \cup ArtifactsOf(fs)
<1>1. marked \in SUBSET resident /\ invalidated \subseteq marked
  BY DEF CacheInv, CacheTypeOK, ArtifactsOf
<1>2. PICK gone \in SUBSET marked : CollectRemoving(marked, gone)
  BY DEF CollectInvalidated
<1> HIDE DEF marked
<1> QED BY <1>1, <1>2, CollectKeepsInv

LEMMA InitEstablishesInv == CacheInit => CacheInv
<1> SUFFICES ASSUME CacheInit PROVE CacheInv
  OBVIOUS
<1>1. NoBytes \in Bytes
  BY DEF NoBytes, Bytes
<1>2. CacheTypeOK /\ IsFiniteSet(resident)
  BY <1>1, FS_EmptySet DEF CacheInit, CacheTypeOK
<1>3. PinnedCodeIsResident
  BY DEF CacheInit, PinnedCodeIsResident
<1>4. DeoptTargetIsResident /\ DeoptReferencesAreExact
  BY DEF CacheInit, DeoptTargetIsResident, DeoptReferencesAreExact
<1>5. ChargeIsWithinLimits
  BY LimitsAssumption DEF CacheInit, ChargeIsWithinLimits, WithinLimits, NoBytes
<1>6. ReclaimableIsRequested
  BY DEF CacheInit, ReclaimableIsRequested, InvalidatedCandidates
<1> QED BY <1>2, <1>3, <1>4, <1>5, <1>6 DEF CacheInv

LEMMA NextKeepsInv == CacheInv /\ [CacheNext]_cacheVars => CacheInv'
<1> SUFFICES ASSUME CacheInv, [CacheNext]_cacheVars PROVE CacheInv'
  OBVIOUS
<1>1. ASSUME NEW k \in ArtifactKey, NEW art \in ArtifactBytes,
             Insert(k, Charge(art)) \/ InsertFails(k, Charge(art))
      PROVE  CacheInv'
  BY <1>1, ChargeType, InsertKeepsInv, InsertFailsKeepsInv
<1>2. ASSUME NEW k \in ArtifactKey, Pin(k) \/ DropPin(k) PROVE CacheInv'
  BY <1>2, PinKeepsInv, DropPinKeepsInv
<1>3. CASE UNCHANGED cacheVars
  BY <1>3, StutterKeepsInv
<1>4. ASSUME NEW fs \in SUBSET FunctionKey, CollectInvalidated(fs) PROVE CacheInv'
  BY <1>4, CollectInvalidatedKeepsInv
<1>5. ASSUME NEW fs \in SUBSET FunctionKey, InvalidateDeferred(fs) PROVE CacheInv'
  BY <1>5, InvalidateKeepsInv
<1>6. ASSUME NEW budget \in ReclaimBudget, PollReclamation(budget) PROVE CacheInv'
  BY <1>6, PollKeepsInv
<1> QED BY <1>1, <1>2, <1>3, <1>4, <1>5, <1>6 DEF CacheNext

------------------------------------------------------------------------------

(* The inductive invariant holds in every reachable state of the cache. *)
THEOREM CacheCorrect == CacheSpec => []CacheInv
BY InitEstablishesInv, NextKeepsInv, PTL DEF CacheSpec

(* Every field of the cache keeps its type. *)
THEOREM CacheTypeCorrect == CacheSpec => []CacheTypeOK
<1>1. CacheInv => CacheTypeOK
  BY DEF CacheInv
<1> QED BY <1>1, CacheCorrect, PTL

(* Executing code is never removed, and an optimizing artifact never loses  *)
(* the baseline it deoptimizes to, whatever the limits and the eviction     *)
(* order.                                                                   *)
THEOREM ExecutionIsSafe == CacheSpec => []CodeInUseIsResident
<1>1. CacheInv => CodeInUseIsResident
  BY DEF CacheInv, CodeInUseIsResident
<1> QED BY <1>1, CacheCorrect, PTL

(* The cache never holds more than its limits allow. *)
THEOREM LimitsHold == CacheSpec => []ChargeIsWithinLimits
<1>1. CacheInv => ChargeIsWithinLimits
  BY DEF CacheInv
<1> QED BY <1>1, CacheCorrect, PTL

------------------------------------------------------------------------------
(* The charge.  A key that is not resident is charged nothing, so replacing *)
(* an artifact and inserting a new one are accounted for alike.             *)

ChargeInv ==
  /\ ChargeIsExact
  /\ \A a \in ArtifactKey \ resident : size[a] = NoBytes

(* One kind of bytes when k replaces its artifact and `gone` is evicted. *)
LEMMA SumReplaced ==
  ASSUME NEW f, NEW h, NEW R, IsFiniteSet(R), NEW k, NEW gone \in SUBSET (R \ {k}),
         \A x \in R : f[x] \in Nat, k \notin R => f[k] = 0, h[k] \in Nat,
         \A x \in R \ (gone \cup {k}) : h[x] = f[x]
  PROVE  SumFunctionOnSet(h, (R \ gone) \cup {k}) =
           SaturatingSub(SaturatingSub(SumFunctionOnSet(f, R), f[k]), SumFunctionOnSet(f, gone))
             + h[k]
<1> DEFINE Q == R \ {k}
           rest == Q \ gone
<1>1. IsFiniteSet(Q) /\ IsFiniteSet(gone) /\ IsFiniteSet(rest)
  BY FS_Subset
<1>2. \A x \in Q : f[x] \in Nat
  OBVIOUS
<1>3. \A x \in rest : f[x] \in Nat /\ h[x] = f[x]
  OBVIOUS
<1>4. SumFunctionOnSet(f, R) = f[k] + SumFunctionOnSet(f, Q) /\ f[k] \in Nat
  <2>1. CASE k \in R
    BY <2>1, SumRemove
  <2>2. CASE k \notin R
    <3>1. Q = R
      BY <2>2
    <3>2. SumFunctionOnSet(f, R) \in Nat
      BY SumType
    <3> QED  BY <2>2, <3>1, <3>2
  <2> QED  BY <2>1, <2>2
<1>5. SumFunctionOnSet(f, Q) = SumFunctionOnSet(f, gone) + SumFunctionOnSet(f, rest)
  BY <1>1, <1>2, SumSplit
<1>6. SumFunctionOnSet(f, gone) \in Nat /\ SumFunctionOnSet(f, rest) \in Nat
  BY <1>1, <1>2, SumType
<1>7. SumFunctionOnSet(h, rest) = SumFunctionOnSet(f, rest)
  BY <1>1, <1>3, SumEqual
<1>8. SumFunctionOnSet(h, rest \cup {k}) = h[k] + SumFunctionOnSet(h, rest)
  <2>1. k \notin rest /\ \A x \in rest : h[x] \in Nat
    BY <1>3
  <2> QED  BY <1>1, <2>1, SumAdd
<1>9. rest \cup {k} = (R \ gone) \cup {k}
  OBVIOUS
<1> HIDE DEF rest, Q
<1>10. SaturatingSub(SumFunctionOnSet(f, R), f[k]) = SumFunctionOnSet(f, Q)
  BY <1>4, <1>5, <1>6 DEF SaturatingSub
<1>11. SaturatingSub(SumFunctionOnSet(f, Q), SumFunctionOnSet(f, gone))
         = SumFunctionOnSet(f, rest)
  BY <1>5, <1>6 DEF SaturatingSub
<1> QED  BY <1>6, <1>7, <1>8, <1>9, <1>10, <1>11

(* One kind of bytes when `gone` is reclaimed. *)
LEMMA SumReclaimed ==
  ASSUME NEW f, NEW h, NEW R, IsFiniteSet(R), NEW gone \in SUBSET R,
         \A x \in R : f[x] \in Nat, \A x \in R \ gone : h[x] = f[x]
  PROVE  SumFunctionOnSet(h, R \ gone) =
           SaturatingSub(SumFunctionOnSet(f, R), SumFunctionOnSet(f, gone))
<1>1. IsFiniteSet(gone) /\ IsFiniteSet(R \ gone)
  BY FS_Subset
<1>2. SumFunctionOnSet(f, R) = SumFunctionOnSet(f, gone) + SumFunctionOnSet(f, R \ gone)
  BY SumSplit
<1>3. SumFunctionOnSet(f, gone) \in Nat /\ SumFunctionOnSet(f, R \ gone) \in Nat
  BY <1>1, SumType
<1>4. SumFunctionOnSet(h, R \ gone) = SumFunctionOnSet(f, R \ gone)
  BY <1>1, SumEqual
<1> QED  BY <1>2, <1>3, <1>4 DEF SaturatingSub

LEMMA InsertKeepsCharge ==
  ASSUME CacheInv, ChargeInv, NEW k \in ArtifactKey, NEW sz \in Bytes,
         NEW selected \in SUBSET (resident \ {k}), InsertEvicting(k, sz, selected)
  PROVE  ChargeInv'
<1> DEFINE b == [a \in ArtifactKey |-> size[a].bytes]
           c == [a \in ArtifactKey |-> size[a].code]
           m == [a \in ArtifactKey |-> size[a].metadata]
           rest == (resident \ selected) \cup {k}
<1>1. /\ resident \subseteq ArtifactKey /\ IsFiniteSet(resident)
      /\ size \in [ArtifactKey -> Bytes]
  BY DEF CacheInv, CacheTypeOK
<1>2. /\ resident' = rest
      /\ size' = [a \in ArtifactKey |-> IF a = k THEN sz
                                        ELSE IF a \in selected THEN NoBytes ELSE size[a]]
      /\ charged' = AddBytes(SubBytes(SubBytes(charged, size[k]), BytesOf(selected)), sz)
  BY DEF InsertEvicting
<1>3. /\ \A x \in resident : b[x] \in Nat /\ c[x] \in Nat /\ m[x] \in Nat
      /\ k \notin resident => b[k] = 0 /\ c[k] = 0 /\ m[k] = 0
      /\ b'[k] = sz.bytes /\ c'[k] = sz.code /\ m'[k] = sz.metadata
      /\ \A x \in resident \ (selected \cup {k}) : b'[x] = b[x] /\ c'[x] = c[x] /\ m'[x] = m[x]
      /\ b[k] = size[k].bytes /\ c[k] = size[k].code /\ m[k] = size[k].metadata
      /\ sz.bytes \in Nat /\ sz.code \in Nat /\ sz.metadata \in Nat
  BY <1>1, <1>2, SMTT(30) DEF Bytes, NoBytes, ChargeInv
<1>4. /\ charged.bytes = SumFunctionOnSet(b, resident)
      /\ charged.code = SumFunctionOnSet(c, resident)
      /\ charged.metadata = SumFunctionOnSet(m, resident)
  BY DEF ChargeInv, ChargeIsExact, BytesOf
<1>5. /\ BytesOf(selected).bytes = SumFunctionOnSet(b, selected)
      /\ BytesOf(selected).code = SumFunctionOnSet(c, selected)
      /\ BytesOf(selected).metadata = SumFunctionOnSet(m, selected)
  BY DEF BytesOf
<1>6. BytesOf(resident)' = [bytes |-> SumFunctionOnSet(b', rest),
                            code |-> SumFunctionOnSet(c', rest),
                            metadata |-> SumFunctionOnSet(m', rest)]
  BY <1>2 DEF BytesOf
<1> HIDE DEF b, c, m
<1>7. SumFunctionOnSet(b', rest) =
        SaturatingSub(SaturatingSub(SumFunctionOnSet(b, resident), b[k]),
                      SumFunctionOnSet(b, selected)) + b'[k]
  <2>1. /\ \A x \in resident : b[x] \in Nat
        /\ k \notin resident => b[k] = 0
        /\ b'[k] \in Nat
        /\ \A x \in resident \ (selected \cup {k}) : b'[x] = b[x]
    BY <1>3
  <2> QED BY <1>1, <2>1, SumReplaced
<1>8. SumFunctionOnSet(c', rest) =
        SaturatingSub(SaturatingSub(SumFunctionOnSet(c, resident), c[k]),
                      SumFunctionOnSet(c, selected)) + c'[k]
  <2>1. /\ \A x \in resident : c[x] \in Nat
        /\ k \notin resident => c[k] = 0
        /\ c'[k] \in Nat
        /\ \A x \in resident \ (selected \cup {k}) : c'[x] = c[x]
    BY <1>3
  <2> QED BY <1>1, <2>1, SumReplaced
<1>9. SumFunctionOnSet(m', rest) =
        SaturatingSub(SaturatingSub(SumFunctionOnSet(m, resident), m[k]),
                      SumFunctionOnSet(m, selected)) + m'[k]
  <2>1. /\ \A x \in resident : m[x] \in Nat
        /\ k \notin resident => m[k] = 0
        /\ m'[k] \in Nat
        /\ \A x \in resident \ (selected \cup {k}) : m'[x] = m[x]
    BY <1>3
  <2> QED BY <1>1, <2>1, SumReplaced
<1>10. ChargeIsExact'
  BY <1>2, <1>3, <1>4, <1>5, <1>6, <1>7, <1>8, <1>9 DEF ChargeIsExact, AddBytes, SubBytes
<1>11. \A a \in ArtifactKey \ resident' : size'[a] = NoBytes
  BY <1>1, <1>2 DEF ChargeInv
<1> QED  BY <1>10, <1>11 DEF ChargeInv

LEMMA CollectKeepsCharge ==
  ASSUME CacheInv, ChargeInv, NEW marked \in SUBSET resident, NEW gone \in SUBSET marked,
         CollectRemoving(marked, gone)
  PROVE  ChargeInv'
<1> DEFINE b == [a \in ArtifactKey |-> size[a].bytes]
           c == [a \in ArtifactKey |-> size[a].code]
           m == [a \in ArtifactKey |-> size[a].metadata]
           rest == resident \ gone
<1>1. /\ resident \subseteq ArtifactKey /\ IsFiniteSet(resident)
      /\ size \in [ArtifactKey -> Bytes] /\ gone \in SUBSET resident
  BY DEF CacheInv, CacheTypeOK
<1>2. /\ resident' = rest
      /\ size' = [a \in ArtifactKey |-> IF a \in gone THEN NoBytes ELSE size[a]]
      /\ charged' = SubBytes(charged, BytesOf(gone))
  BY DEF CollectRemoving
<1>3. /\ \A x \in resident : b[x] \in Nat /\ c[x] \in Nat /\ m[x] \in Nat
      /\ \A x \in rest : b'[x] = b[x] /\ c'[x] = c[x] /\ m'[x] = m[x]
  BY <1>1, <1>2 DEF Bytes
<1>4. /\ charged.bytes = SumFunctionOnSet(b, resident)
      /\ charged.code = SumFunctionOnSet(c, resident)
      /\ charged.metadata = SumFunctionOnSet(m, resident)
  BY DEF ChargeInv, ChargeIsExact, BytesOf
<1>5. /\ BytesOf(gone).bytes = SumFunctionOnSet(b, gone)
      /\ BytesOf(gone).code = SumFunctionOnSet(c, gone)
      /\ BytesOf(gone).metadata = SumFunctionOnSet(m, gone)
  BY DEF BytesOf
<1>6. BytesOf(resident)' = [bytes |-> SumFunctionOnSet(b', rest),
                            code |-> SumFunctionOnSet(c', rest),
                            metadata |-> SumFunctionOnSet(m', rest)]
  BY <1>2 DEF BytesOf
<1> HIDE DEF b, c, m
<1>7. /\ SumFunctionOnSet(b', rest) = SaturatingSub(charged.bytes, BytesOf(gone).bytes)
      /\ SumFunctionOnSet(c', rest) = SaturatingSub(charged.code, BytesOf(gone).code)
      /\ SumFunctionOnSet(m', rest) = SaturatingSub(charged.metadata, BytesOf(gone).metadata)
  BY <1>1, <1>3, <1>4, <1>5, SumReclaimed, SMTT(30)
<1>8. ChargeIsExact'
  BY <1>2, <1>6, <1>7 DEF ChargeIsExact, SubBytes
<1>9. \A a \in ArtifactKey \ resident' : size'[a] = NoBytes
  BY <1>1, <1>2 DEF ChargeInv
<1> QED  BY <1>8, <1>9 DEF ChargeInv

LEMMA SameKeepsCharge ==
  ASSUME ChargeInv, UNCHANGED <<resident, size, charged>>
  PROVE  ChargeInv'
BY DEF ChargeInv, ChargeIsExact, BytesOf

LEMMA NextKeepsCharge == CacheInv /\ ChargeInv /\ [CacheNext]_cacheVars => ChargeInv'
<1> SUFFICES ASSUME CacheInv, ChargeInv, [CacheNext]_cacheVars PROVE ChargeInv'
  OBVIOUS
<1>1. ASSUME NEW k \in ArtifactKey, NEW art \in ArtifactBytes, Insert(k, Charge(art))
      PROVE  ChargeInv'
  BY <1>1, ChargeType, InsertKeepsCharge DEF Insert
<1>2. ASSUME NEW k \in ArtifactKey, NEW art \in ArtifactBytes, InsertFails(k, Charge(art))
      PROVE  ChargeInv'
  BY <1>2, SameKeepsCharge DEF InsertFails
<1>3. ASSUME NEW k \in ArtifactKey, Pin(k) \/ DropPin(k) PROVE ChargeInv'
  BY <1>3, SameKeepsCharge DEF Pin, DropPin
<1>4. CASE UNCHANGED cacheVars
  BY <1>4, SameKeepsCharge DEF cacheVars
<1>5. ASSUME NEW fs \in SUBSET FunctionKey, CollectInvalidated(fs) PROVE ChargeInv'
  <2> DEFINE marked == invalidated \cup ArtifactsOf(fs)
  <2>1. marked \in SUBSET resident
    BY DEF CacheInv, CacheTypeOK, ArtifactsOf
  <2>2. PICK gone \in SUBSET marked : CollectRemoving(marked, gone)
    BY <1>5 DEF CollectInvalidated
  <2> HIDE DEF marked
  <2> QED BY <2>1, <2>2, CollectKeepsCharge
<1>6. ASSUME NEW fs \in SUBSET FunctionKey, InvalidateDeferred(fs) PROVE ChargeInv'
  BY <1>6, SameKeepsCharge DEF InvalidateDeferred
<1>7. ASSUME NEW budget \in ReclaimBudget, PollReclamation(budget) PROVE ChargeInv'
  <2>1. CASE ~reclaim_needed
    BY <1>7, <2>1, SameKeepsCharge DEF PollReclamation, cacheVars
  <2>2. CASE reclaim_needed
    <3>1. PICK gone \in SUBSET invalidated : CollectRemoving(invalidated, gone)
      BY <1>7, <2>2 DEF PollReclamation
    <3>2. invalidated \in SUBSET resident
      BY DEF CacheInv, CacheTypeOK
    <3> QED BY <3>1, <3>2, CollectKeepsCharge
  <2> QED BY <2>1, <2>2
<1> QED BY <1>1, <1>2, <1>3, <1>4, <1>5, <1>6, <1>7 DEF CacheNext

(* What is charged is always what the resident artifacts occupy, whatever   *)
(* is replaced, evicted or reclaimed: no byte is counted twice or leaked.   *)
THEOREM ChargeStaysExact == CacheSpec => []ChargeIsExact
<1>1. CacheInit => ChargeInv
  BY SumEmpty DEF CacheInit, ChargeInv, ChargeIsExact, BytesOf, NoBytes
<1>2. ChargeInv => ChargeIsExact
  BY DEF ChargeInv
<1> QED BY <1>1, <1>2, NextKeepsCharge, CacheCorrect, PTL DEF CacheSpec

(* Reclaimable code always has a reclamation requested. *)
THEOREM NoReclamationIsLost == CacheSpec => []ReclaimableIsRequested
<1>1. CacheInv => ReclaimableIsRequested
  BY DEF CacheInv
<1> QED BY <1>1, CacheCorrect, PTL

(* The plan takes no live artifact while an invalidated one is free, unless *)
(* the insertion itself has just come to hold that one.                     *)
LEMMA PlanPrefersInvalidated ==
  ASSUME CacheInv, NEW k \in ArtifactKey, NEW sz \in Bytes,
         NEW selected \in SUBSET (resident \ {k}), InsertEvicting(k, sz, selected),
         NEW live \in selected, live \notin invalidated,
         NEW b \in InvalidatedCandidates(invalidated, {}) \cap invalidated'
  PROVE  deopt_references'[b] # {}
<1>1. /\ b \in invalidated /\ b \in resident /\ b \in ArtifactKey /\ b \notin selected \cup {k}
      /\ execution_pins[b] = 0 /\ deopt_references[b] = {}
  BY DEF InvalidatedCandidates, InsertEvicting, CacheInv, CacheTypeOK
<1>2. PICK before \in SUBSET selected :
             live \in FirstInPlanOrder(EvictionCandidates(k, before))
  BY PlanSelectsCandidates DEF InsertEvicting
<1>3. b \notin EvictionCandidates(k, before)
  BY <1>1, <1>2, FirstInPlanOrderFacts
<1>4. ReferencesAfter(k, before, b) # {}
  BY <1>1, <1>2, <1>3 DEF EvictionCandidates
<1>5. ReferencesAfter(k, selected, b) # {}
  BY <1>1, <1>4 DEF ReferencesAfter
<1> QED BY <1>1, <1>5 DEF InsertEvicting

(* Live code is evicted only after every free invalidated artifact. *)
THEOREM LiveCodeIsEvictedLast == CacheSpec => InvalidatedEvictedFirst
<1> DEFINE Step == (resident \ resident') \ invalidated # {}
                     => \A b \in InvalidatedCandidates(invalidated, {}) \cap invalidated' :
                          deopt_references'[b] # {}
<1>1. CacheInv /\ [CacheNext]_cacheVars => [Step]_cacheVars
  <2> SUFFICES ASSUME CacheInv, CacheNext,
                      NEW live \in (resident \ resident') \ invalidated,
                      NEW b \in InvalidatedCandidates(invalidated, {}) \cap invalidated'
               PROVE  deopt_references'[b] # {}
    OBVIOUS
  <2>1. ASSUME NEW k \in ArtifactKey, NEW art \in ArtifactBytes, Insert(k, Charge(art))
        PROVE  deopt_references'[b] # {}
    <3>1. PICK selected \in SUBSET (resident \ {k}) :
                 InsertEvicting(k, Charge(art), selected)
      BY <2>1 DEF Insert
    <3>2. live \in selected /\ live \notin invalidated
      BY <3>1 DEF InsertEvicting
    <3> QED BY <3>1, <3>2, ChargeType, PlanPrefersInvalidated
  <2>2. ASSUME NEW budget, PollReclamation(budget) PROVE FALSE
    BY <2>2 DEF PollReclamation, CollectRemoving, cacheVars
  <2>3. ASSUME NEW fs, CollectInvalidated(fs) PROVE FALSE
    <3> DEFINE marked == invalidated \cup ArtifactsOf(fs)
    <3>1. PICK gone \in SUBSET marked :
                 InvalidatedCandidates(marked, gone) = {} /\ CollectRemoving(marked, gone)
      BY <2>3 DEF CollectInvalidated
    <3>2. b \in InvalidatedCandidates(marked, gone)
      BY <3>1 DEF InvalidatedCandidates, CollectRemoving
    <3> QED BY <3>1, <3>2
  <2>4. ASSUME NEW k, NEW sz, InsertFails(k, sz) \/ Pin(k) \/ DropPin(k) PROVE FALSE
    BY <2>4 DEF InsertFails, Pin, DropPin
  <2>5. ASSUME NEW fs, InvalidateDeferred(fs) PROVE FALSE
    BY <2>5 DEF InvalidateDeferred
  <2> QED BY <2>1, <2>2, <2>3, <2>4, <2>5 DEF CacheNext
<1> QED BY <1>1, CacheCorrect, PTL DEF CacheSpec, InvalidatedEvictedFirst
==============================================================================
