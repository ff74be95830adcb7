----------------------------- MODULE Coordinator -----------------------------
(***************************************************************************)
(* The runtime-thread coordinator of the tiered compiler                   *)
(* (jit/src/runtime/coordinator.rs): it queues compile requests, hands     *)
(* them to workers, applies their completions, publishes code through the  *)
(* code cache, and retires, demotes and evicts what is published.          *)
(*                                                                         *)
(* All state is owned by the runtime thread; only `outstanding`, the       *)
(* requests held by workers, belongs to others, and a completion may be    *)
(* applied at any later moment and in any order.  `Ready` and `Installed`  *)
(* are never stored in a TierRecord: Ready lasts inside `complete` only    *)
(* and Installed is derived from installed_keys.  A function without a     *)
(* FunctionState behaves as one with the default record, so every key has  *)
(* a record here.                                                          *)
(***************************************************************************)
EXTENDS CodeCache, Sequences

Tier == {"Baseline", "Optimizing"}

CONSTANTS
  Ineligible,            \* functions whose bytecode the baseline tier rejects
  OverLimit,             \* requests that exceed a limit of the workers even alone
  CallGraph,             \* function ids the call sites of each id can reach
  PrimarySpecialization, \* fingerprints of feedback signatures
  Guard,                 \* guards of optimizing code that can fail
  Observed,              \* types seen when a guard fails
  Numeric,               \* ObservedType::Int32 and Float64
  SidePathFingerprint(_, _, _),  \* of a guard, an observed type and an epoch
  MaxAttempts,           \* max_attempts
  MaxQueueLen,           \* max_queue_len
  StablePathExits,       \* 10 exits through one guard ask for a side path
  DemoteExits,           \* 20 exits unpublish the code
  CompilerMayMislabel,   \* a compiler may return an artifact of another key
  MaxClock,              \* bound: logical clock
  MaxAttemptId,          \* bound: next_attempt_id (u64 in the code)
  MaxInstability         \* bound: instability_attempts

ASSUME CoordinatorAssumption ==
  /\ Generation \subseteq Nat \ {0}
  /\ Guard \subseteq Nat \ {0} /\ Observed \subseteq Nat \ {0}
  /\ Numeric \subseteq Observed
  /\ PrimarySpecialization \subseteq Specialization
  /\ \A g \in Guard, o \in Numeric, e \in 1 .. MaxClock :
       SidePathFingerprint(g, o, e) \in Specialization \ PrimarySpecialization
  /\ Ineligible \subseteq FunctionKey /\ OverLimit \subseteq FunctionKey \X Tier
  /\ CallGraph \in [FunctionId -> SUBSET FunctionId]
  /\ MaxAttempts \in Nat \ {0} /\ MaxQueueLen \in Nat
  /\ StablePathExits \in 1 .. DemoteExits - 1 /\ DemoteExits \in Nat
  /\ CompilerMayMislabel \in BOOLEAN
  /\ MaxClock \in Nat /\ MaxAttemptId \in Nat /\ MaxInstability \in Nat

VARIABLES
  clock,
  queue,                   \* waiting CompileRequests
  tiers,                   \* the TierRecord of each tier of each function
  published,               \* the published tier, or "None"
  retired,                 \* functions whose `retired` flag is set
  instability_attempts,
  current_generations,     \* newest generation seen of each id; 0: none
  in_flight,               \* requests recorded as in flight, one per function
  outstanding,             \* requests at workers whose completion is not applied
  next_attempt_id,
  installed,               \* installed_keys, with each artifact's metadata
  latest_feedback_epochs,  \* 0: none
  side_exits,              \* exits counted per function and guard
  side_exit_observations,  \* type first observed per function and guard; 0: none
  specialization_versions, \* side paths queued per function, guard and type
  profitability_demotions,
  shutdown,
  nodes, valid, version, dependencies, reverse, token_generation  \* dependencies

(* The coordinator records function dependencies only. *)
Graph == INSTANCE DependencyGraph
           WITH FunctionNode <- FunctionKey, TokenId <- {}, TokenGeneration <- {},
                NodeVersion <- Generation

tierVars == <<tiers, published, retired, installed>>
requestVars == <<queue, in_flight, outstanding, next_attempt_id>>
feedbackVars == <<latest_feedback_epochs, side_exits, side_exit_observations,
                  specialization_versions, instability_attempts, profitability_demotions>>
graphVars == <<nodes, valid, version, dependencies, reverse, token_generation>>
vars == <<cacheVars, tierVars, requestVars, feedbackVars, graphVars,
          clock, current_generations, shutdown>>

CompileRequest ==
  [key : FunctionKey, tier : Tier, artifact : ArtifactKey, attempt : Nat,
   epoch : Nat, side_path : BOOLEAN, callees : SUBSET FunctionKey]

TierRecord ==
  [state : {"Cold", "Queued", "Compiling", "Backoff", "Blacklisted"},
   attempts : Nat, retry_after : Nat]

NewTierRecord == [state |-> "Cold", attempts |-> 0, retry_after |-> 0]

Init ==
  /\ CacheInit /\ Graph!GraphInit
  /\ clock = 0
  /\ queue = <<>>
  /\ tiers = [k \in FunctionKey |-> [t \in Tier |-> NewTierRecord]]
  /\ published = [k \in FunctionKey |-> "None"]
  /\ retired = {}
  /\ instability_attempts = [k \in FunctionKey |-> 0]
  /\ current_generations = [i \in FunctionId |-> 0]
  /\ in_flight = {} /\ outstanding = {}
  /\ next_attempt_id = 0
  /\ installed = {}
  /\ latest_feedback_epochs = [k \in FunctionKey |-> 0]
  /\ side_exits = [k \in FunctionKey |-> [g \in Guard |-> 0]]
  /\ side_exit_observations = [k \in FunctionKey |-> [g \in Guard |-> 0]]
  /\ specialization_versions = [k \in FunctionKey |-> [s \in Guard \X Observed |-> 0]]
  /\ profitability_demotions = {}
  /\ shutdown = FALSE

------------------------------------------------------------------------------
(* Tier records. *)

WithState(record, s) == [record EXCEPT !.state = s, !.retry_after = 0]

BackoffUntil(record, when) == [record EXCEPT !.state = "Backoff", !.retry_after = when]

(* record_failure; attempts beyond MaxAttempts are not told apart. *)
Failed(record) ==
  LET attempts == record.attempts + 1
  IN  IF attempts >= MaxAttempts
      THEN [state |-> "Blacklisted", attempts |-> MaxAttempts, retry_after |-> 0]
      ELSE [state |-> "Backoff", attempts |-> attempts, retry_after |-> clock + attempts]

(* Faulty IsActive: a request that only waits is not active. *)
IsCompiling(k) == \E t \in Tier : tiers[k][t].state = "Compiling"

(* active_state is Some *)
IsActive(k) == \E t \in Tier : tiers[k][t].state \in {"Queued", "Compiling"}

Installed(k, t) == {i \in installed : i.artifact.function = k /\ i.artifact.tier = t}

IsInstalled(k, t) == Installed(k, t) # {}

(* Coordinator::pin would return a pin. *)
Pinnable(i) ==
  /\ i.artifact \in resident \ invalidated
  /\ i.artifact.tier = "Optimizing" =>
       latest_feedback_epochs[i.artifact.function] = i.epoch

IsCurrent(k) == current_generations[k.id] = k.generation

------------------------------------------------------------------------------
(* Retirement. *)

(* retire_state of each function of fs, its queue clean-up apart. *)
RetireState(fs) ==
  /\ in_flight' = {r \in in_flight : r.key \notin fs}
  /\ retired' = retired \cup fs
  /\ published' = [k \in FunctionKey |-> IF k \in fs THEN "None" ELSE published[k]]
  /\ installed' = {i \in installed : i.artifact.function \notin fs}
  /\ InvalidateDeferred(fs)

(* Faulty QueueWithout: waiting requests survive. *)
WholeQueue(fs) == queue

QueueWithout(fs) == SelectSeq(queue, LAMBDA r : r.key \notin fs)

(* The generations retire_older_generations retires when the watermark of   *)
(* k.id moves up to k.                                                      *)
OlderGenerations(k) ==
  IF k.generation > current_generations[k.id]
  THEN {o \in FunctionKey : o.id = k.id /\ o.generation < k.generation}
  ELSE {}

AdvanceWatermark(k) ==
  current_generations' =
    [current_generations EXCEPT ![k.id] = IF k.generation > @ THEN k.generation ELSE @]

(* The dependency graph forgets k and all that rests on it; each of them is *)
(* retired, and k itself even when it has no node yet.                      *)
Retire(k) ==
  LET fs == OlderGenerations(k) \cup Graph!Affected(k)
  IN  /\ AdvanceWatermark(k)
      /\ Graph!Invalidate(k)
      /\ RetireState(fs)
      /\ queue' = QueueWithout(fs)
      /\ UNCHANGED <<tiers, outstanding, next_attempt_id, feedbackVars, clock, shutdown>>

------------------------------------------------------------------------------
(* Queueing. *)

FeedbackEpoch == IF clock = 0 THEN 1 ELSE clock

(* Faulty TierIsOpen: an installed optimizing tier is queued again. *)
TierIsOpenWhenInstalled(k, t, side_path) ==
  IF t = "Baseline"
  THEN ~IsInstalled(k, "Baseline") /\ ~IsInstalled(k, "Optimizing")
  ELSE IsInstalled(k, "Baseline") \/ tiers[k]["Baseline"].state = "Blacklisted"

(* A baseline is queued before anything is installed, optimizing code on    *)
(* top of a baseline, and again only as a side path.                        *)
TierIsOpen(k, t, side_path) ==
  IF t = "Baseline"
  THEN ~IsInstalled(k, "Baseline") /\ ~IsInstalled(k, "Optimizing")
  ELSE /\ IsInstalled(k, "Baseline") \/ tiers[k]["Baseline"].state = "Blacklisted"
       /\ IsInstalled(k, "Optimizing") => side_path

CanQueue(k, t, side_path) ==
  /\ ~shutdown
  /\ k.generation >= current_generations[k.id]
  /\ k \notin retired
  /\ ~IsActive(k)
  /\ TierIsOpen(k, t, side_path)
  /\ \/ tiers[k][t].state = "Cold"
     \/ tiers[k][t].state = "Backoff" /\ clock >= tiers[k][t].retry_after

(* The request enters the queue: it was not Full and ids are not exhausted. *)
Enqueue(r, waiting) ==
  /\ queue' = Append(waiting, r)
  /\ next_attempt_id' = r.attempt
  /\ tiers' = [tiers EXCEPT ![r.key][r.tier] = WithState(@, "Queued")]

HasRoom(waiting) == Len(waiting) < MaxQueueLen /\ next_attempt_id < MaxAttemptId

Request(k, a, side_path, callees) ==
  [key |-> k, tier |-> a.tier, artifact |-> a, attempt |-> next_attempt_id + 1,
   epoch |-> FeedbackEpoch, side_path |-> side_path, callees |-> callees]

(* Callees a request can be compiled against: a baseline links only the     *)
(* ones it could pin; an optimizing request takes them from feedback.       *)
CalleesOf(k, t) ==
  {c \in FunctionKey :
     /\ c.id \in CallGraph[k.id]
     /\ t = "Baseline" => \E i \in installed : i.artifact.function = c /\ Pinnable(i)}

(* queue_with_feedback.  A newer generation retires the older ones first,   *)
(* also when the queue then turns out to be full or the ids exhausted.      *)
Queue(k, a, callees) ==
  LET older == OlderGenerations(k)
      waiting == QueueWithout(older)
  IN  /\ k \notin Ineligible
      /\ a.function = k /\ CanQueue(k, a.tier, FALSE)
      /\ a.tier = "Optimizing" => a.specialization \in PrimarySpecialization
      /\ callees \subseteq CalleesOf(k, a.tier)
      /\ RetireState(older) /\ AdvanceWatermark(k)
      /\ \/ /\ HasRoom(waiting)
            /\ Enqueue(Request(k, a, FALSE, callees), waiting)
            /\ latest_feedback_epochs' =
                 [latest_feedback_epochs EXCEPT ![k] =
                    IF a.tier = "Optimizing" /\ FeedbackEpoch > @ THEN FeedbackEpoch ELSE @]
         \/ /\ ~HasRoom(waiting)
            /\ queue' = waiting
            /\ UNCHANGED <<tiers, next_attempt_id, latest_feedback_epochs>>
      /\ UNCHANGED <<outstanding, side_exits, side_exit_observations, specialization_versions,
                     instability_attempts, profitability_demotions, graphVars, clock, shutdown>>

(* queue_side_path, for an exit through guard g that observed type o.  The  *)
(* generation of installed code is the current one, so nothing is retired.  *)
CanQueueSidePath(k, g, o) ==
  /\ o \in Numeric
  /\ IsInstalled(k, "Baseline") /\ IsInstalled(k, "Optimizing")
  /\ specialization_versions[k][<<g, o>>] < MaxAttempts
  /\ CanQueue(k, "Optimizing", TRUE)
  /\ HasRoom(queue)

EnqueueSidePath(k, g, o) ==
  LET a == OptimizingKey(k, SidePathFingerprint(g, o, FeedbackEpoch))
  IN  /\ \E callees \in SUBSET CalleesOf(k, "Optimizing") :
           Enqueue(Request(k, a, TRUE, callees), queue)
      /\ specialization_versions' = [specialization_versions EXCEPT ![k][<<g, o>>] = @ + 1]

(* prioritize: the first waiting request of k and t moves to the front. *)
Prioritize(k, t) ==
  \E i \in DOMAIN queue :
    /\ queue[i].key = k /\ queue[i].tier = t
    /\ \A j \in 1 .. i - 1 : ~(queue[j].key = k /\ queue[j].tier = t)
    /\ queue' = <<queue[i]>> \o SubSeq(queue, 1, i - 1) \o SubSeq(queue, i + 1, Len(queue))
    /\ UNCHANGED <<cacheVars, tierVars, in_flight, outstanding, next_attempt_id, feedbackVars,
                   graphVars, clock, current_generations, shutdown>>

------------------------------------------------------------------------------
(* Dispatch. *)

IsStartable(r) == tiers[r.key][r.tier].state = "Queued"

(* begin_next drops requests up to the first whose tier is still Queued.    *)
IsNext(i) == IsStartable(queue[i]) /\ \A j \in 1 .. i - 1 : ~IsStartable(queue[j])

IsOverLimit(r) == <<r.key, r.tier>> \in OverLimit

(* dispatch_next: the next request goes to a worker, *)
Dispatch ==
  /\ \E i \in DOMAIN queue :
       LET r == queue[i]
       IN  /\ IsNext(i) /\ ~IsOverLimit(r)
           /\ tiers' = [tiers EXCEPT ![r.key][r.tier] = WithState(@, "Compiling")]
           /\ in_flight' = {f \in in_flight : f.key # r.key} \cup {r}
           /\ outstanding' = outstanding \cup {r}
           /\ queue' = SubSeq(queue, i + 1, Len(queue))
  /\ UNCHANGED <<cacheVars, published, retired, installed, next_attempt_id, feedbackVars,
                 graphVars, clock, current_generations, shutdown>>

(* or no worker takes it and rollback puts it back at the front, *)
DispatchRollsBack ==
  /\ \E i \in DOMAIN queue :
       /\ IsNext(i)
       /\ in_flight' = {f \in in_flight : f.key # queue[i].key}
       /\ queue' = SubSeq(queue, i, Len(queue))
  /\ UNCHANGED <<cacheVars, tierVars, outstanding, next_attempt_id, feedbackVars,
                 graphVars, clock, current_generations, shutdown>>

(* or every waiting request turns out to be obsolete.                       *)
DispatchFindsNone ==
  /\ queue # <<>> /\ \A i \in DOMAIN queue : ~IsStartable(queue[i])
  /\ queue' = <<>>
  /\ UNCHANGED <<cacheVars, tierVars, in_flight, outstanding, next_attempt_id, feedbackVars,
                 graphVars, clock, current_generations, shutdown>>

------------------------------------------------------------------------------
(* Completion. *)

(* The completion is the one its function is waiting for. *)
IsExpected(r) ==
  /\ r \in in_flight
  /\ IsCurrent(r.key)
  /\ tiers[r.key][r.tier].state = "Compiling"

(* An optimizing artifact depends on its own function as well. *)
DependenciesOf(r) == r.callees \cup (IF r.tier = "Optimizing" THEN {r.key} ELSE {})

(* The artifact was compiled from the latest feedback, for the current      *)
(* generation of its dependencies, and the graph accepts it.                *)
CanPublish(r) ==
  /\ r.tier = "Optimizing" /\ ~r.side_path => latest_feedback_epochs[r.key] = r.epoch
  /\ \A d \in DependenciesOf(r) : IsCurrent(d)
  /\ Graph!CanInstall(r.key, r.key.generation, DependenciesOf(r))

(* Faulty RecordFailure: the tier is left Compiling. *)
ForgetFailure(r) == in_flight' = in_flight \ {r} /\ UNCHANGED tiers

RecordFailure(r) ==
  /\ in_flight' = in_flight \ {r}
  /\ tiers' = [tiers EXCEPT ![r.key][r.tier] = Failed(@)]

(* The installed keys left once record_eviction has seen every eviction: it *)
(* removes the entry of the evicted artifact's function and tier.           *)
InstalledAfter(evicted) ==
  {i \in installed : \A e \in evicted : ~(e.function = i.artifact.function
                                            /\ e.tier = i.artifact.tier)}

(* Faulty PublishedAfter: eviction does not unpublish. *)
StillPublished(k, evicted) == published[k]

(* The published tier left: optimizing code falls back to the baseline.     *)
PublishedAfter(k, evicted) ==
  IF \A e \in evicted : ~(e.function = k /\ e.tier = published[k]) THEN published[k]
  ELSE IF published[k] = "Optimizing"
          /\ \E i \in InstalledAfter(evicted) : i.artifact = BaselineKey(k)
       THEN "Baseline" ELSE "None"

(* The artifact enters the cache, evicting others, and is published. *)
Publish(r, evicted) ==
  LET entry == [artifact |-> r.artifact, epoch |-> r.epoch, dependencies |-> DependenciesOf(r)]
      k == r.key
  IN  /\ Graph!Install(k, k.generation, DependenciesOf(r))
      /\ in_flight' = in_flight \ {r}
      /\ installed' = (InstalledAfter(evicted) \ Installed(k, r.tier)) \cup {entry}
      /\ published' = [f \in FunctionKey |-> IF f = k THEN r.tier ELSE PublishedAfter(f, evicted)]
      /\ tiers' = [tiers EXCEPT ![k][r.tier] = NewTierRecord]
      /\ side_exits' = IF r.tier = "Optimizing"
                       THEN [side_exits EXCEPT ![k] = [g \in Guard |-> 0]] ELSE side_exits
      /\ latest_feedback_epochs' = IF r.side_path
                                   THEN [latest_feedback_epochs EXCEPT ![k] = r.epoch]
                                   ELSE latest_feedback_epochs

CompleteInstalls(r) ==
  /\ IsExpected(r) /\ CanPublish(r)
  /\ \E art \in ArtifactBytes, evicted \in SUBSET (resident \ {r.artifact}) :
       InsertEvicting(r.artifact, Charge(art), evicted) /\ Publish(r, evicted)
  /\ UNCHANGED <<retired, side_exit_observations, specialization_versions,
                 instability_attempts, profitability_demotions>>

(* The cache refuses the artifact. *)
CompleteIsRefused(r) ==
  /\ IsExpected(r) /\ CanPublish(r)
  /\ \E art \in ArtifactBytes : InsertFails(r.artifact, Charge(art))
  /\ RecordFailure(r)
  /\ UNCHANGED <<published, retired, installed, feedbackVars, graphVars>>

(* Compilation failed, the artifact is out of date, or its code pages could *)
(* not be published.                                                        *)
CompleteFails(r) ==
  /\ IsExpected(r)
  /\ RecordFailure(r)
  /\ UNCHANGED <<cacheVars, published, retired, installed, feedbackVars, graphVars>>

(* A result nobody waits for, or an artifact under another key, is dropped. *)
CompleteIsDropped(r) ==
  /\ IsExpected(r) => CompilerMayMislabel
  /\ UNCHANGED <<cacheVars, tierVars, in_flight, feedbackVars, graphVars>>

Complete(r) ==
  /\ outstanding' = outstanding \ {r}
  /\ CompleteInstalls(r) \/ CompleteIsRefused(r) \/ CompleteFails(r) \/ CompleteIsDropped(r)
  /\ UNCHANGED <<queue, next_attempt_id, clock, current_generations, shutdown>>

(* submit_snapshot finds the bytecode not eligible for the baseline tier;   *)
(* it asks once, since it then disables the function's feedback.            *)
RejectTier1(k) ==
  LET older == OlderGenerations(k)
  IN  /\ k \in Ineligible /\ tiers[k]["Baseline"] = NewTierRecord
      /\ AdvanceWatermark(k) /\ RetireState(older)
      /\ queue' = QueueWithout(older)
      /\ tiers' = [tiers EXCEPT ![k]["Baseline"] = [Failed(@) EXCEPT !.state = "Blacklisted",
                                                                     !.retry_after = 0]]
      /\ UNCHANGED <<outstanding, next_attempt_id, feedbackVars, graphVars, clock, shutdown>>

------------------------------------------------------------------------------
(* Demotion.  The artifact stays in the cache; it is only no longer named   *)
(* by installed_keys.                                                       *)

Uninstall(k, t) == installed' = installed \ Installed(k, t)

DemoteBaselineToInterpreter(k) ==
  /\ IsInstalled(k, "Baseline")
  /\ Uninstall(k, "Baseline")
  /\ tiers' = [tiers EXCEPT ![k]["Baseline"] = WithState(@, "Blacklisted")]
  /\ published' = [published EXCEPT ![k] = IF @ = "Baseline" THEN "None" ELSE @]
  /\ profitability_demotions' = profitability_demotions \cup {k}
  /\ UNCHANGED <<cacheVars, retired, requestVars, latest_feedback_epochs, side_exits,
                 side_exit_observations, specialization_versions, instability_attempts,
                 graphVars, clock, current_generations, shutdown>>

(* The baseline becomes queueable again, to be linked to its callees. *)
PrepareBaselineDirectRefresh(k) ==
  /\ published[k] = "Baseline" /\ IsInstalled(k, "Baseline")
  /\ Uninstall(k, "Baseline")
  /\ tiers' = [tiers EXCEPT ![k]["Baseline"] = WithState(@, "Cold")]
  /\ published' = [published EXCEPT ![k] = "None"]
  /\ UNCHANGED <<cacheVars, retired, requestVars, feedbackVars, graphVars, clock,
                 current_generations, shutdown>>

Delay(attempts) == 2 ^ attempts

DemoteUnprofitableOptimized(k) ==
  LET attempts == instability_attempts[k] + 1
  IN  /\ IsInstalled(k, "Baseline") /\ IsInstalled(k, "Optimizing")
      /\ attempts =< MaxInstability
      /\ Uninstall(k, "Optimizing")
      /\ instability_attempts' = [instability_attempts EXCEPT ![k] = attempts]
      /\ tiers' = [tiers EXCEPT ![k]["Optimizing"] = BackoffUntil(@, clock + Delay(attempts))]
      /\ published' = [published EXCEPT ![k] = "Baseline"]
      /\ UNCHANGED <<cacheVars, retired, requestVars, latest_feedback_epochs, side_exits,
                     side_exit_observations, specialization_versions, profitability_demotions,
                     graphVars, clock, current_generations, shutdown>>

PrepareStablePathRecompile(k) ==
  /\ IsInstalled(k, "Baseline") /\ IsInstalled(k, "Optimizing")
  /\ Uninstall(k, "Optimizing")
  /\ tiers' = [tiers EXCEPT ![k]["Optimizing"] = WithState(@, "Cold")]
  /\ published' = [published EXCEPT ![k] = "Baseline"]
  /\ UNCHANGED <<cacheVars, retired, requestVars, feedbackVars, graphVars, clock,
                 current_generations, shutdown>>

(* The demotion branch of record_optimized_side_exit_profile. *)
DemoteUnstable(k) ==
  LET attempts == instability_attempts[k] + 1
  IN  /\ attempts =< MaxInstability
      /\ instability_attempts' = [instability_attempts EXCEPT ![k] = attempts]
      /\ tiers' = [tiers EXCEPT ![k]["Optimizing"] =
                     IF attempts >= MaxAttempts THEN WithState(@, "Blacklisted")
                     ELSE BackoffUntil(@, clock + Delay(attempts))]
      /\ Uninstall(k, "Optimizing")
      /\ published' = [published EXCEPT ![k] =
                         IF IsInstalled(k, "Baseline") THEN "Baseline" ELSE "None"]

(* native_exit of optimizing code of k through guard g with type o: exits   *)
(* are counted, unstable code is demoted, and a guard that has failed in    *)
(* the same way StablePathExits times may queue a side path.  Counts above  *)
(* DemoteExits are not told apart.                                          *)
RecordOptimizedSideExit(k, g, o) ==
  LET seen == side_exit_observations[k]
      count == IF side_exits[k][g] < DemoteExits THEN side_exits[k][g] + 1 ELSE DemoteExits
      pending == tiers[k]["Optimizing"].state \in {"Queued", "Compiling"}
      unstable == \/ \E h \in Guard \ {g} : seen[h] # 0
                  \/ seen[g] \notin {0, o}
                  \/ count >= DemoteExits /\ ~pending
  IN  /\ \E a \in resident : a.function = k /\ a.tier = "Optimizing" /\ execution_pins[a] > 0
      /\ side_exit_observations' = [side_exit_observations EXCEPT ![k][g] = IF @ = 0 THEN o ELSE @]
      /\ side_exits' = [side_exits EXCEPT ![k][g] = count]
      /\ \/ /\ unstable
            /\ DemoteUnstable(k)
            /\ UNCHANGED <<queue, next_attempt_id, specialization_versions>>
         \/ /\ ~unstable /\ count = StablePathExits
            /\ CanQueueSidePath(k, g, o) /\ EnqueueSidePath(k, g, o)
            /\ UNCHANGED <<published, installed, instability_attempts>>
         \/ /\ ~unstable
            /\ UNCHANGED <<queue, next_attempt_id, specialization_versions, tiers, published,
                           installed, instability_attempts>>
      /\ UNCHANGED <<cacheVars, retired, in_flight, outstanding, latest_feedback_epochs,
                     profitability_demotions, graphVars, clock, current_generations, shutdown>>

------------------------------------------------------------------------------
(* Execution, reclamation, time, shutdown. *)

coordinatorVars == <<tierVars, requestVars, feedbackVars, graphVars, clock,
                     current_generations, shutdown>>

(* Coordinator::pin of an installed tier *)
PinInstalled(k, t) ==
  /\ \E i \in Installed(k, t) : Pinnable(i) /\ Pin(i.artifact)
  /\ UNCHANGED coordinatorVars

ReleasePin(a) == DropPin(a) /\ UNCHANGED coordinatorVars

PollCacheReclamation(budget) == PollReclamation(budget) /\ UNCHANGED coordinatorVars

AdvanceClock ==
  /\ clock < MaxClock
  /\ clock' = clock + 1
  /\ UNCHANGED <<cacheVars, tierVars, requestVars, feedbackVars, graphVars,
                 current_generations, shutdown>>

Shutdown ==
  /\ ~shutdown
  /\ shutdown' = TRUE
  /\ queue' = <<>> /\ in_flight' = {}
  /\ retired' = FunctionKey
  /\ published' = [k \in FunctionKey |-> "None"]
  /\ installed' = {}
  /\ CollectInvalidated(FunctionKey)
  /\ UNCHANGED <<tiers, outstanding, next_attempt_id, feedbackVars, graphVars, clock,
                 current_generations>>

Next ==
  \/ \E k \in FunctionKey, a \in ArtifactKey, callees \in SUBSET FunctionKey : Queue(k, a, callees)
  \/ \E k \in FunctionKey, t \in Tier : Prioritize(k, t)
  \/ Dispatch \/ DispatchRollsBack \/ DispatchFindsNone
  \/ \E r \in outstanding : Complete(r)
  \/ \E k \in FunctionKey :
       \/ Retire(k) \/ RejectTier1(k)
       \/ DemoteBaselineToInterpreter(k) \/ PrepareBaselineDirectRefresh(k)
       \/ DemoteUnprofitableOptimized(k) \/ PrepareStablePathRecompile(k)
  \/ \E k \in FunctionKey, g \in Guard, o \in Observed : RecordOptimizedSideExit(k, g, o)
  \/ \E k \in FunctionKey, t \in Tier : PinInstalled(k, t)
  \/ \E a \in ArtifactKey : ReleasePin(a)
  \/ \E budget \in ReclaimBudget : PollCacheReclamation(budget)
  \/ AdvanceClock
  \/ Shutdown

Spec == Init /\ [][Next]_vars

(* Workers take requests and report every one of them, code that runs       *)
(* returns, and maintenance polls reclamation again and again.              *)
FairSpec ==
  /\ Spec
  /\ WF_vars(Dispatch)
  /\ WF_vars(\E r \in outstanding : Complete(r))
  /\ \A a \in ArtifactKey : WF_vars(ReleasePin(a))
  /\ \A budget \in ReclaimBudget : WF_vars(PollCacheReclamation(budget))

------------------------------------------------------------------------------
(* Properties. *)

(* The types of the coordinator's fields. *)
CoordinatorTypeOK ==
  /\ CacheTypeOK /\ Graph!GraphTypeOK
  /\ clock \in Nat /\ next_attempt_id \in Nat
  /\ queue \in Seq(CompileRequest)
  /\ in_flight \subseteq CompileRequest /\ outstanding \subseteq CompileRequest
  /\ tiers \in [FunctionKey -> [Tier -> TierRecord]]
  /\ published \in [FunctionKey -> Tier \cup {"None"}]
  /\ retired \subseteq FunctionKey /\ profitability_demotions \subseteq FunctionKey
  /\ instability_attempts \in [FunctionKey -> Nat]
  /\ current_generations \in [FunctionId -> {0} \cup Generation]
  /\ installed \subseteq [artifact : ArtifactKey, epoch : Nat, dependencies : SUBSET FunctionKey]
  /\ latest_feedback_epochs \in [FunctionKey -> Nat]
  /\ side_exits \in [FunctionKey -> [Guard -> Nat]]
  /\ side_exit_observations \in [FunctionKey -> [Guard -> {0} \cup Observed]]
  /\ specialization_versions \in [FunctionKey -> [Guard \X Observed -> 0 .. MaxAttempts]]
  /\ shutdown \in BOOLEAN

(* What is published can be entered: its artifact is installed, resident,   *)
(* not invalidated, of the current generation of a live function, and       *)
(* optimizing code was compiled from the latest feedback.  Evictions,       *)
(* demotions, refreshes and retirements of this or another function never   *)
(* leave a published tier behind.                                           *)
PublishedCodeIsRunnable ==
  /\ \A k \in FunctionKey : published[k] # "None" => IsInstalled(k, published[k])
  /\ \A i \in installed :
       Pinnable(i) /\ IsCurrent(i.artifact.function) /\ i.artifact.function \notin retired

(* A retired function is inert: nothing of it is queued, in flight,         *)
(* published or installed, no late completion can change that, and all its  *)
(* code is on its way out of the cache.                                     *)
RetiredIsInert ==
  \A k \in retired :
    /\ \A i \in DOMAIN queue : queue[i].key # k
    /\ \A r \in in_flight : r.key # k
    /\ published[k] = "None" /\ \A i \in installed : i.artifact.function # k
    /\ ArtifactsOf({k}) \subseteq invalidated

(* No request is lost: a live function that is Queued has a request waiting *)
(* and one that is Compiling has its in-flight request at a worker; both    *)
(* tiers are never active at once.  Otherwise the function would wait for   *)
(* ever, since an active function cannot be queued again.                   *)
ActiveHasRequest ==
  \A k \in FunctionKey \ retired :
    /\ \A t \in Tier :
         /\ tiers[k][t].state = "Queued" =>
              \E i \in DOMAIN queue : queue[i].key = k /\ queue[i].tier = t
         /\ tiers[k][t].state = "Compiling" =>
              \E r \in in_flight \cap outstanding : r.key = k /\ r.tier = t
    /\ \E t \in Tier : tiers[k][t].state \notin {"Queued", "Compiling"}

(* Code is published only on valid ground: the graph's node of an installed *)
(* function is valid, and rests on valid nodes.                             *)
InstalledRestsOnValid ==
  /\ \A i \in installed : i.artifact.function \in valid
  /\ Graph!ValidRestsOnValid

(* The next request exceeds a limit of the workers, and is put back first.  *)
QueueIsBlocked == \E i \in DOMAIN queue : IsNext(i) /\ IsOverLimit(queue[i])

(* Every request is decided, whatever is demoted, retired or dropped in     *)
(* between: a function stays Compiling never, and Queued only while a       *)
(* request that no worker can take is first in the queue.                   *)
RequestsAreDecided ==
  \A k \in FunctionKey : IsActive(k) ~>
    \/ ~IsActive(k) \/ k \in retired
    \/ QueueIsBlocked /\ \E t \in Tier : tiers[k][t].state = "Queued"

(* The code of a retired function leaves the cache once its last execution  *)
(* returns: the reclamation flag is never lost between pins, deopt          *)
(* references, budgeted polls and evictions.                                *)
RetiredCodeIsReclaimed == \A k \in FunctionKey : k \in retired ~> ArtifactsOf({k}) = {}

------------------------------------------------------------------------------
(* What comments and tests of the code say, and the code does not do. *)

(* Retiring a function retires the installed code that depends on it. *)
InstalledRestsOnUnretired == \A i \in installed : i.dependencies \cap retired = {}
==============================================================================
