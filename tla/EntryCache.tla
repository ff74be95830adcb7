----------------------------- MODULE EntryCache -----------------------------
(***************************************************************************)
(* How a call reaches native code: JS_CallInternal with its one cached     *)
(* entry handle and the callback-free entries granted for it               *)
(* (sys/patches/0010-native-entry-cache.patch, 0023-fast-native-entry.     *)
(* patch), and the side of ProductionBackend that keeps them admissible    *)
(* (jit/src/lib.rs: entry_cache_epoch, fast_entry, acquire_entry,          *)
(* native_enter, native_exit, maintenance).                                *)
(*                                                                         *)
(* One thread runs JavaScript and every callback; a worker only makes a    *)
(* completion pending.  What maintenance decides (module Coordinator) is   *)
(* any change of the installed code here.                                  *)
(***************************************************************************)
EXTENDS Integers, Sequences, FiniteSets

CONSTANTS
  Function,   \* bytecode functions
  MaxDepth,   \* bound: calls in native code at a time
  MaxEpoch,   \* the last epoch before exhaustion (u64::MAX)
  MaxArt,     \* bound: artifacts installed in a behaviour
  MaxGen,     \* bound: generations of the one function that is retired
  MaxDisabled,\* bound: functions the backend has disabled at a time
  Budget      \* FAST_ENTRY_BUDGET

ASSUME EntryAssumption ==
  /\ MaxDepth \in Nat \ {0} /\ MaxEpoch \in Nat \ {0} /\ MaxArt \in Nat
  /\ MaxGen \in Nat \ {0} /\ MaxDisabled \in Nat /\ Budget \in Nat \ {0}

Tier == {"base", "opt"}
Artifact == 1 .. MaxArt
NoArt == 0

VARIABLES
  frames,     \* calls on their way to, in or from native code, innermost last
  cached,     \* the idle handle QuickJS keeps, its budget and flags
  granted,    \* jit_fast_state is set
  gen,        \* generation of each function
  off,        \* functions with jit_feedback_disabled
  suspended,  \* jit_suspended
  attached,   \* a backend is attached
  code,       \* artifact installed for a function and tier
  disabled,   \* feedback_disabled of the backend
  epoch,      \* entry_cache_epoch
  mirror,     \* fast_entry.epoch
  dirty,      \* feedback changed since the last scan
  pending,    \* has_pending_work
  tiers,      \* entry_tiers
  starts,     \* execution_starts
  pins,       \* pins on each artifact
  installs    \* artifacts installed so far

engineVars == <<granted, gen, off, suspended, attached>>
codeVars == <<code, disabled, epoch, mirror, dirty, pending, installs>>
vars == <<frames, cached, engineVars, codeVars, tiers, starts, pins>>

NoHandle == [fn |-> "none", gen |-> 1, art |-> NoArt, tier |-> "base",
             epoch |-> 0, left |-> 0, flag |-> FALSE]

Init ==
  /\ frames = <<>> /\ cached = NoHandle /\ granted = FALSE
  /\ gen = [f \in Function |-> 1] /\ off = {} /\ suspended = FALSE /\ attached = TRUE
  /\ code = [f \in Function |-> [t \in Tier |-> NoArt]] /\ disabled = {}
  /\ epoch = 1 /\ mirror = 1 /\ dirty = FALSE /\ pending = FALSE /\ installs = 0
  /\ tiers = [f \in Function |-> "none"] /\ starts = <<>>
  /\ pins = [a \in Artifact |-> 0]

------------------------------------------------------------------------------
(* The backend's part. *)

(* The tier and artifact acquire_entry gives: the optimized one if there is *)
(* one, nothing when the function is disabled.                              *)
AdmittedTier(f) == IF code[f]["opt"] # NoArt THEN "opt" ELSE "base"
Admitted(f) == IF f \in disabled THEN NoArt ELSE code[f][AdmittedTier(f)]

(* invalidate_entry_cache, n times: zero after exhaustion, for ever. *)
Advanced(n) == IF epoch = 0 \/ epoch + n > MaxEpoch THEN 0 ELSE epoch + n
InvalidateEntryCache(n) == epoch' = Advanced(n) /\ mirror' = Advanced(n)

(* entry_cache_epoch: none while there is something to look at. *)
CacheEpoch == IF pending \/ dirty THEN 0 ELSE epoch

MayDisable(f, dis) == Cardinality(dis \cup {f}) <= MaxDisabled

InstalledPairs == {p \in Function \X Tier : code[p[1]][p[2]] # NoArt}
Without(gone) == [f \in Function |-> [t \in Tier |-> IF <<f, t>> \in gone THEN NoArt ELSE code[f][t]]]

(* maintenance, after n invalidations and the loss of some code, with dis   *)
(* the disabled functions: it invalidates the handles before anything       *)
(* changes.  More code is demoted, evicted or replaced, a completion is     *)
(* installed (for a disabled function too, if it was requested before), a   *)
(* function whose code is gone is disabled.                                 *)
MaintenanceAfter(n, lost, dis) ==
  /\ InvalidateEntryCache(n + 1)
  /\ dirty' = FALSE /\ pending' = FALSE
  /\ \E more \in SUBSET (InstalledPairs \ lost) :
       LET left == Without(lost \cup more)
       IN \/ code' = left /\ disabled' = dis /\ UNCHANGED installs
          \/ /\ code' = left /\ UNCHANGED installs
             /\ \E p \in more : /\ \A t \in Tier : left[p[1]][t] = NoArt
                              /\ MayDisable(p[1], dis) /\ disabled' = dis \cup {p[1]}
          \/ /\ pending /\ installs < MaxArt /\ installs' = installs + 1
             /\ \E p \in (Function \X Tier) \ lost : code' = [left EXCEPT ![p[1]][p[2]] = installs + 1]
             /\ disabled' = dis

Maintenance == MaintenanceAfter(0, {}, disabled)

(* maintenance_if_due: has to run when there is something to look at, and   *)
(* runs once in a while (hot_ticks_since_maintenance, retry clocks).        *)
MaintenanceIfDue ==
  \/ Maintenance
  \/ ~pending /\ ~dirty /\ UNCHANGED codeVars

------------------------------------------------------------------------------
(* The engine's part. *)

Top == frames[Len(frames)]
Below == SubSeq(frames, 1, Len(frames) - 1)
TopAt(at) == frames # <<>> /\ Top.at = at
WithTop(frame) == [frames EXCEPT ![Len(frames)] = frame]

(* JavaScript runs: no call is between the interpreter and native code. *)
Runs == attached /\ (frames = <<>> \/ TopAt("run"))

SameKey(h, f) == h.fn = f /\ h.gen = gen[f]

(* qjsjit_fast_entry_ready *)
FastReady(f) ==
  /\ cached.left # 0 /\ granted /\ cached.art # NoArt /\ SameKey(cached, f)
  /\ ~suspended /\ f \notin off
  /\ mirror # 0 /\ mirror = cached.epoch

(* Reclamation is requested with the last pin on code that is not installed *)
Installed(a) == \E f \in Function, t \in Tier : code[f][t] = a

ReleasePin(a) ==
  /\ pins' = [pins EXCEPT ![a] = @ - 1]
  /\ pending' = (pending \/ (pins[a] = 1 /\ ~Installed(a)))

(* A call of f that may go to native code, at its start or (osr) at a loop. *)
(* Its call feedback may be news.                                           *)
Begin(f, osr) ==
  /\ Runs /\ Len(frames) < MaxDepth /\ ~suspended /\ f \notin off
  /\ LET fast == ~osr /\ FastReady(f)
     IN /\ frames' = Append(frames, [fn |-> f, gen |-> gen[f], art |-> NoArt, tier |-> "base", epoch |-> 0,
                                     left |-> 0, flag |-> FALSE, fast |-> fast, osr |-> osr, kind |-> "none",
                                     at |-> IF fast THEN "entry" ELSE "hot"])
        /\ dirty' \in IF fast THEN {dirty} ELSE {dirty, TRUE}
  /\ UNCHANGED <<cached, engineVars, code, disabled, epoch, mirror, pending, installs, tiers, starts, pins>>

(* Faulty: the engine is not told. *)
HotDisablesUnseen ==
  /\ TopAt("hot") /\ MayDisable(Top.fn, disabled)
  /\ disabled' = disabled \cup {Top.fn}
  /\ frames' = WithTop([Top EXCEPT !.at = "entry"])
  /\ UNCHANGED <<cached, engineVars, code, epoch, mirror, dirty, pending, installs, tiers, starts, pins>>

(* record_hot reports a function that it disabled before, or disables now   *)
(* because the coordinator will compile one of its tiers no more            *)
(* (is_terminally_blacklisted).  Code of the other tier may be installed,   *)
(* and its handles stay as good as they were.                               *)
HotDisables ==
  /\ TopAt("hot") /\ MayDisable(Top.fn, disabled)
  /\ disabled' = disabled \cup {Top.fn}
  /\ off' = off \cup {Top.fn}
  /\ frames' = WithTop([Top EXCEPT !.at = "entry"])
  /\ UNCHANGED <<cached, granted, gen, suspended, attached, code, epoch, mirror, dirty, pending, installs,
                 tiers, starts, pins>>

(* record_hot, and submit_snapshot when it asks for a snapshot. *)
HotProbes ==
  /\ TopAt("hot") /\ Top.fn \notin disabled
  /\ MaintenanceIfDue
  /\ frames' = WithTop([Top EXCEPT !.at = "entry"])
  /\ UNCHANGED <<cached, engineVars, tiers, starts, pins>>

(* record_hot asks for a snapshot and submit_snapshot cannot use it: this   *)
(* bytecode has no code, or the same tests had passed before.  Maintenance  *)
(* may have been due and may follow the rejection.                          *)
SnapshotRejected ==
  /\ TopAt("hot") /\ Top.fn \notin disabled /\ MayDisable(Top.fn, disabled)
  /\ \/ /\ ~pending /\ ~dirty /\ disabled' = disabled \cup {Top.fn}
        /\ UNCHANGED <<code, epoch, mirror, dirty, pending, installs>>
     \/ \E n \in 0 .. 1 : MaintenanceAfter(n, {}, disabled \cup {Top.fn})
  /\ \A t \in Tier : code'[Top.fn][t] = NoArt
  /\ frames' = WithTop([Top EXCEPT !.at = "entry"])
  /\ UNCHANGED <<cached, engineVars, tiers, starts, pins>>

(* prepare_baseline_direct_refresh takes the baseline away at once, after   *)
(* the maintenance that was due.                                            *)
HotRefreshes ==
  /\ TopAt("hot") /\ Top.fn \notin disabled
  /\ code[Top.fn]["base"] # NoArt /\ code[Top.fn]["opt"] = NoArt
  /\ \/ /\ ~pending /\ ~dirty /\ code' = Without({<<Top.fn, "base">>})
        /\ InvalidateEntryCache(1)
        /\ UNCHANGED <<disabled, dirty, pending, installs>>
     \/ MaintenanceAfter(1, {<<Top.fn, "base">>}, disabled) /\ code'[Top.fn]["opt"] = NoArt
  /\ frames' = WithTop([Top EXCEPT !.at = "entry"])
  /\ UNCHANGED <<cached, engineVars, tiers, starts, pins>>

(* A function that is off is interpreted, whatever is cached for it. *)
Interpret ==
  /\ TopAt("entry") /\ Top.fn \in off
  /\ frames' = Below
  /\ UNCHANGED <<cached, engineVars, codeVars, tiers, starts, pins>>

(* Faulty: the grant is not used up. *)
TakeFastForFree ==
  /\ TopAt("entry") /\ Top.fast /\ FastReady(Top.fn)
  /\ frames' = WithTop([Top EXCEPT !.art = cached.art, !.tier = cached.tier, !.epoch = cached.epoch,
                                   !.left = cached.left, !.flag = cached.flag, !.at = "run"])
  /\ cached' = NoHandle
  /\ UNCHANGED <<engineVars, codeVars, tiers, starts, pins>>

(* The granted handle is taken: no callback, one execution less. *)
TakeFast ==
  /\ TopAt("entry") /\ Top.fast /\ FastReady(Top.fn)
  /\ frames' = WithTop([Top EXCEPT !.art = cached.art, !.tier = cached.tier, !.epoch = cached.epoch,
                                   !.left = cached.left - 1, !.flag = cached.flag, !.at = "run"])
  /\ cached' = NoHandle
  /\ UNCHANGED <<engineVars, codeVars, tiers, starts, pins>>

TakesCached ==
  /\ ~Top.osr /\ CacheEpoch # 0 /\ cached.epoch = CacheEpoch /\ SameKey(cached, Top.fn)

(* native_enter records the tier the backend last handed out. *)
NativeEnter(f) ==
  starts' = Append(starts, [fn |-> f, gen |-> gen[f], tier |-> IF tiers[f] = "none" THEN "base" ELSE tiers[f]])

(* The cached handle is taken after a query of the epoch. *)
TakeCached ==
  /\ TopAt("entry") /\ Top.fn \notin off /\ ~(Top.fast /\ FastReady(Top.fn))
  /\ cached.art # NoArt /\ TakesCached
  /\ frames' = WithTop([Top EXCEPT !.art = cached.art, !.tier = cached.tier, !.epoch = cached.epoch,
                                   !.left = 0, !.fast = FALSE, !.at = "run"])
  /\ cached' = NoHandle
  /\ NativeEnter(Top.fn)
  /\ UNCHANGED <<engineVars, codeVars, tiers, pins>>

(* Another function's admissible handle stays. *)
KeepsCached == ~SameKey(cached, Top.fn) /\ granted /\ mirror = cached.epoch

(* No handle for this call: any other is discarded, unless it is kept. *)
PrepareAcquire ==
  /\ TopAt("entry") /\ Top.fn \notin off /\ ~(Top.fast /\ FastReady(Top.fn))
  /\ frames' = WithTop([Top EXCEPT !.fast = FALSE, !.at = "acquire"])
  /\ \/ /\ cached.art = NoArt \/ KeepsCached
        /\ UNCHANGED <<cached, pins, pending>>
     \/ /\ cached.art # NoArt /\ ~KeepsCached /\ ~TakesCached
        /\ cached' = NoHandle /\ ReleasePin(cached.art)
  /\ UNCHANGED <<engineVars, code, disabled, epoch, mirror, dirty, installs, tiers, starts>>

(* acquire_entry, then the epoch the handle is good for: none for a loop    *)
(* entry.                                                                   *)
Acquire(f) ==
  /\ TopAt("acquire") /\ Top.fn = f /\ f \notin disabled
  /\ MaintenanceIfDue
  /\ Admitted(f)' # NoArt
  /\ frames' = WithTop([Top EXCEPT !.art = Admitted(f)', !.tier = AdmittedTier(f)',
                                   !.epoch = IF Top.osr THEN 0 ELSE epoch',
                                   !.left = 0, !.osr = FALSE, !.at = "run"])
  /\ pins' = [pins EXCEPT ![Admitted(f)'] = @ + 1]
  /\ tiers' = [tiers EXCEPT ![f] = AdmittedTier(f)']
  /\ starts' = Append(starts, [fn |-> f, gen |-> gen[f], tier |-> AdmittedTier(f)'])
  /\ UNCHANGED <<cached, engineVars>>

(* No code, or none with an entry at this loop: the call is interpreted.    *)
(* A function demoted for good has none and is not looked at again.         *)
AcquireNothing(f) ==
  /\ TopAt("acquire") /\ Top.fn = f
  /\ \/ (f \in disabled \/ \A t \in Tier : code[f][t] = NoArt) /\ UNCHANGED codeVars
     \/ f \notin disabled /\ MaintenanceIfDue /\ (Top.osr \/ Admitted(f)' = NoArt)
  /\ frames' = Below
  /\ UNCHANGED <<cached, engineVars, tiers, starts, pins>>

(* Faulty: the timer of another call is forgotten. *)
TimersAfterAnyExit ==
  IF starts # <<>> /\ starts[Len(starts)].fn = Top.fn /\ starts[Len(starts)].gen = Top.gen
  THEN SubSeq(starts, 1, Len(starts) - 1)
  ELSE starts

(* native_exit forgets the timer of the innermost call if it is its own. *)
TimersAfterExit ==
  IF ~Top.fast /\ starts # <<>> /\ starts[Len(starts)].fn = Top.fn /\ starts[Len(starts)].gen = Top.gen
  THEN SubSeq(starts, 1, Len(starts) - 1)
  ELSE starts

(* A granted execution that is done tells nobody. *)
ExitFast ==
  /\ TopAt("run") /\ Top.fast
  /\ frames' = WithTop([Top EXCEPT !.kind = "done", !.at = "store"])
  /\ UNCHANGED <<cached, engineVars, codeVars, tiers, starts, pins>>

(* native_exit, from its first invalidation on: the optimized code lost its *)
(* trial against a baseline it can go back to; a deoptimization may take    *)
(* the optimized code away; the return type may be news.                    *)
LosesTrial == TimersAfterExit # starts /\ starts[Len(starts)].tier = "opt" /\ code[Top.fn]["base"] # NoArt

NativeExit(kind) ==
  /\ TopAt("run") /\ ~(Top.fast /\ kind = "done")
  /\ starts' = TimersAfterExit
  /\ frames' = WithTop([Top EXCEPT !.kind = kind, !.at = "store"])
  /\ \E gone \in SUBSET (({Top.fn} \X {"opt"}) \cap InstalledPairs),
        loses \in {FALSE, LosesTrial}, news \in {FALSE, kind = "done"} :
       /\ gone # {} => gen[Top.fn] = Top.gen /\ (loses \/ kind = "deopt")
       /\ LET n == (IF gone # {} /\ loses THEN 1 ELSE 0) + (IF kind = "deopt" THEN 1 ELSE 0)
          IN \/ MaintenanceAfter(n, gone, disabled)
             \/ /\ ~pending /\ ~dirty /\ ~news
                /\ InvalidateEntryCache(n) /\ code' = Without(gone)
                /\ UNCHANGED <<disabled, dirty, pending, installs>>
  /\ UNCHANGED <<cached, engineVars, tiers, pins>>

(* fast_entry_steady: the tier recorded last has its code. *)
Steady(f) ==
  /\ f \notin disabled /\ tiers[f] # "none"
  /\ code[f][tiers[f]] # NoArt
  /\ tiers[f] = "base" => code[f]["opt"] = NoArt

(* A loop entry has no epoch. *)
MayStore ==
  /\ Top.epoch # 0 /\ gen[Top.fn] = Top.gen /\ Top.kind = "done"
  /\ (IF Top.fast THEN mirror ELSE CacheEpoch) = Top.epoch

(* Faulty: the handle that was cached meanwhile is overwritten. *)
StoreOver ==
  /\ TopAt("store") /\ MayStore
  /\ frames' = Below
  /\ cached' = [fn |-> Top.fn, gen |-> Top.gen, art |-> Top.art, tier |-> Top.tier, epoch |-> Top.epoch,
                left |-> Top.left, flag |-> Top.flag]
  /\ UNCHANGED <<engineVars, codeVars, tiers, starts, pins>>

(* The handle becomes the cached one; a full execution may earn a grant.    *)
Store ==
  /\ TopAt("store") /\ MayStore
  /\ frames' = Below
  /\ \E give \in (IF ~Top.fast /\ epoch # 0 /\ Steady(Top.fn) THEN BOOLEAN ELSE {FALSE}) :
       /\ cached' = [fn |-> Top.fn, gen |-> Top.gen, art |-> Top.art, tier |-> Top.tier, epoch |-> Top.epoch,
                     left |-> IF give THEN Budget ELSE Top.left,
                     flag |-> IF give THEN tiers[Top.fn] = "opt" ELSE Top.flag]
       /\ granted' = (granted \/ give)
  /\ IF cached.art # NoArt THEN ReleasePin(cached.art) ELSE UNCHANGED <<pins, pending>>
  /\ UNCHANGED <<gen, off, suspended, attached, code, disabled, epoch, mirror, dirty, installs, tiers, starts>>

Discard ==
  /\ TopAt("store") /\ ~MayStore
  /\ frames' = Below
  /\ ReleasePin(Top.art)
  /\ UNCHANGED <<cached, engineVars, code, disabled, epoch, mirror, dirty, installs, tiers, starts>>

------------------------------------------------------------------------------
(* Everything else. *)

(* record_feedback of what the interpreter runs. *)
Observe ==
  /\ Runs /\ ~suspended /\ dirty' = TRUE
  /\ UNCHANGED <<frames, cached, engineVars, code, disabled, epoch, mirror, pending, installs, tiers, starts, pins>>

(* A worker has a completion. *)
WorkerCompletes ==
  /\ attached /\ ~pending /\ pending' = TRUE
  /\ UNCHANGED <<frames, cached, engineVars, code, disabled, epoch, mirror, dirty, installs, tiers, starts, pins>>

(* JitBackend::poll *)
Poll ==
  /\ Runs /\ Maintenance
  /\ UNCHANGED <<frames, cached, engineVars, tiers, starts, pins>>

(* JS_JitInvalidateFunction and function_retire of the old generation.      *)
(* Without a call or a handle of f this only renames it and is left out.    *)
Retire(f) ==
  /\ Runs /\ (cached.fn = f \/ \E i \in 1 .. Len(frames) : frames[i].fn = f)
  /\ gen[f] < MaxGen /\ \A g \in Function \ {f} : gen[g] = 1
  /\ gen' = [gen EXCEPT ![f] = @ + 1] /\ off' = off \ {f}
  /\ tiers' = [tiers EXCEPT ![f] = "none"]
  /\ MaintenanceAfter(0, {f} \X Tier, disabled \ {f})
  /\ UNCHANGED <<frames, cached, granted, suspended, attached, starts, pins>>

(* JS_SetJitSuspended, refused while a call is in native code. *)
Suspend ==
  /\ attached /\ frames = <<>>
  /\ suspended' = ~suspended
  /\ UNCHANGED <<frames, cached, granted, gen, off, attached, codeVars, tiers, starts, pins>>

(* JS_SetJitBackend(NULL) and runtime_detach. *)
Detach ==
  /\ attached /\ frames = <<>>
  /\ attached' = FALSE /\ granted' = FALSE /\ suspended' = FALSE
  /\ cached' = NoHandle
  /\ pins' = IF cached.art # NoArt THEN [pins EXCEPT ![cached.art] = @ - 1] ELSE pins
  /\ epoch' = 0 /\ mirror' = 0 /\ dirty' = FALSE /\ pending' = FALSE
  /\ code' = Without(Function \X Tier)
  /\ UNCHANGED <<frames, gen, off, disabled, installs, tiers, starts>>

CallStep ==
  \/ HotDisables \/ HotProbes \/ SnapshotRejected \/ HotRefreshes
  \/ Interpret \/ TakeFast \/ TakeCached \/ PrepareAcquire
  \/ \E f \in Function : Acquire(f) \/ AcquireNothing(f)
  \/ Store \/ Discard

ExitStep == ExitFast \/ \E kind \in {"done", "deopt", "other"} : NativeExit(kind)

Next ==
  \/ \E f \in Function, osr \in BOOLEAN : Begin(f, osr)
  \/ CallStep \/ ExitStep
  \/ Observe \/ WorkerCompletes \/ Poll \/ Suspend \/ Detach
  \/ \E f \in Function : Retire(f)

Spec == Init /\ [][Next]_vars

------------------------------------------------------------------------------
(* Properties. *)

(* A cached handle whose epoch is the current one is what acquire_entry     *)
(* would give now, and QuickJS may enter it without asking, unless          *)
(* record_hot disabled the function and had it switched off.                *)
CachedIsAdmissible ==
  cached.art # NoArt /\ cached.epoch = epoch /\ SameKey(cached, cached.fn) =>
    cached.art = Admitted(cached.fn) \/ cached.fn \in disabled \cap off

(* No call enters code that was replaced, demoted or retired, or any code   *)
(* of a function the backend has disabled, however it came by its handle:   *)
(* granted, cached or acquired.                                             *)
EnteredIsAdmissible ==
  [][frames' # <<>> /\ Len(frames') = Len(frames) /\ Top'.at = "run" /\ Top.at # "run" =>
       (Top.art = Admitted(Top.fn))']_vars

Holders(a) ==
  Cardinality({i \in 1 .. Len(frames) : frames[i].art = a}) + (IF cached.art = a THEN 1 ELSE 0)

(* Every pin is held by one call or by the cache: none leaks and none is    *)
(* released twice, whatever recursion and retirement do to the handles.     *)
PinsAreHandles == \A a \in Artifact : pins[a] = Holders(a)

(* The calls in native code that were announced to the backend. *)
Timed == {i \in 1 .. Len(frames) : frames[i].at = "run" /\ ~frames[i].fast}

(* The timers of native_enter and native_exit are those of the calls in     *)
(* native code that were announced, innermost last, each with the tier it   *)
(* really runs in.                                                          *)
TimersMatchCalls ==
  /\ Len(starts) = Cardinality(Timed)
  /\ \A i \in Timed :
       starts[Cardinality({j \in Timed : j <= i})]
         = [fn |-> frames[i].fn, gen |-> frames[i].gen, tier |-> frames[i].tier]

(* A granted execution is counted for the tier it runs in. *)
GrantIsForItsTier == cached.left # 0 => (cached.flag <=> cached.tier = "opt")

GrantsLeft ==
  LET sum[i \in 0 .. Len(frames)] == IF i = 0 THEN cached.left ELSE sum[i - 1] + frames[i].left
  IN sum[Len(frames)]

(* Granted entries cannot keep the backend out for ever: each uses up one   *)
(* execution of its grant, and only the end of a full execution, which      *)
(* called the backend, brings new ones.                                     *)
GrantsRunOut ==
  [][/\ TopAt("entry") /\ TopAt("run")' /\ Len(frames') = Len(frames) /\ Top'.fast =>
          GrantsLeft' < GrantsLeft
     /\ GrantsLeft' > GrantsLeft => TopAt("store") /\ ~Top.fast]_vars
=============================================================================
