# A TLA+ model of the tiered JIT runtime

The repository adds a tiered just-in-time compiler to QuickJS: an interpreter,
a baseline tier and an optimizing tier, compiled on background threads while
JavaScript runs, beside the async executor of the Rust bindings. The parts that
decide *which code may run when*, and the parts that several threads share, are
modelled here. The code generators are not.

## 1. The system

| Part | Source | State | Operations |
|---|---|---|---|
| Code cache | `jit/src/code_cache/` | artifacts, charged bytes, execution pins, deopt pins, invalidated marks, reclamation flag | insert (with an eviction plan), pin, drop pin, invalidate, deferred invalidate, collect, poll with a budget |
| Dependency graph | `jit/src/runtime/invalidate.rs` | nodes, versions, validity, edges both ways, token generations | install, invalidate, publish a shape or prototype |
| Coordinator | `jit/src/runtime/coordinator.rs` | queue, tier records, published tiers, in-flight requests, installed keys, generations, feedback epochs, side-exit counts | queue, prioritize, dispatch, complete, retire, reject, four demotions, side exits, pin, shutdown |
| Workers | `jit/src/runtime/background.rs` | job channel, usage counters, completion mailbox, overflow list | dispatch, admission, compile, send, drain, shutdown |
| Production backend | `jit/src/lib.rs` | entry cache and its epoch, grants, promotion records, trials | hot event, entry, exit, maintenance, tier-2 scan, retire, detach |
| Feedback | `jit/src/runtime/{feedback,shape_feedback,array_feedback}.rs` | bounded type, call and shape lattices, versions, shortcuts | observe, snapshot, forget |
| Policy | `jit/src/runtime/hotness.rs` | measured profile of a function | price a compile, judge a trial |
| Executable memory | `jit/src/platform/` | allocators with quotas, allocations, the shared heap | register, allocate, publish, clone, drop |
| Async executor | `core/src/runtime/`, `core/src/context/` | tasks, wakers, intrusive queue, runtime lock, context owners | spawn, wake, poll, drop, drive, async_with, idle |
| Bytecode, IR, code generators | `jit/src/{bytecode,ir,compiler}/` | none across calls | pure translations |
| Values, classes, macros, bindings, standard library | `core/`, `macro/`, `sys/`, `stdlib/` | wrappers and generated or vendored code | |

How they interact: the interpreter observes types and reports hot functions to
the backend, which takes a bytecode snapshot and queues a request with the
coordinator. Dispatch hands it to a worker; the worker's completion returns
through a bounded mailbox and is applied on the runtime thread. Publishing
allocates executable memory, inserts the artifact in the cache, which may evict
code of other functions, and records its dependencies. A call that enters code
pins it and may keep the handle for the next call; leaving drops the pin; a guard
that fails exits to the baseline and may demote the code. Maintenance promotes
hot baseline code whose feedback is settled and whose price pays. Retiring a
function invalidates everything that was compiled against it, and the cache
reclaims the code after the last pin is dropped.

What makes this hard: completions arrive late, in any order, after the function
was retired, demoted or requeued; an installation evicts other functions' code;
optimizing code holds its baseline in the cache; a cached entry outlives the
decision that admitted it; counters, flags and links are shared by threads that
update them one after the other; every queue, table and quota is bounded.
`PROJECT.json` lists each such hazard at its line.

## 2. Modules

| Module | Models | Checked by | Proved in |
|---|---|---|---|
| `CodeCache` | the code cache | `MCCodeCache` | `CodeCacheProofs` |
| `ExecutableMemory` | allocators, allocations and the shared heap | `MCCodeCache` | `ExecutableMemoryProofs` |
| `DependencyGraph` | the dependency graph | `MCDependencyGraph` | `DependencyGraphProofs` |
| `Coordinator` | the coordinator; extends `CodeCache`, instantiates `DependencyGraph` | `MCCoordinator` | |
| `BackgroundCompiler` | dispatch, worker threads, mailbox, shutdown | `MCBackgroundCompiler` | `BackgroundCompilerProofs`, `WorkerProofs` |
| `CompileService` | what the coordinator assumes of the workers | refined by `BackgroundCompiler` | `WorkerProofs` |
| `EntryCache` | how calls reach native code | `MCEntryCache` | `EntryCacheProofs` |
| `FeedbackTable`, `ShapeFeedback` | type, call, array and shape feedback | `MCProfiling` | |
| `Promotion` | the tier-2 scan with its deferral cache and retries; extends `FeedbackTable` | `MCProfiling` | `ProfilingProofs` |
| `TierPolicy` | the arithmetic of tier decisions | `MCProfiling` | `ProfilingProofs` |
| `Schedular` | wakers, task queue and `AtomicWaker` of the scheduler | itself | |
| `TaskQueue` | what the scheduler promises about woken tasks | refined by `Schedular` | |
| `AsyncRuntime` | drive, async_with, idle, the runtime lock, context owners | itself | |
| `SumTheorems` | facts about sums over finite sets | | itself |

**CodeCache.** One action per operation. An artifact is its key and the bytes it
charges. The loop of `evict::plan` is not unrolled: `IsPlanRun` says which
orders of selection the loop can produce. Benefit and recency depend on wall
time, so the order among live artifacts is open; that invalidated artifacts come
first, optimizing before baseline, is kept.

**ExecutableMemory.** Lengths are pages. `allocate` is two steps, the reservation
under the lock and the mapping; giving an allocation back is two steps, the
mapping and the reservation, in the order of the structures' fields. The heap is
the first-fit heap of the macOS build with its coalescing release. An allocator
state lives while a handle or an allocation refers to it.

**DependencyGraph.** `Affected` is the least set closed under reverse edges, which
is what the breadth-first walk visits. Shapes and prototypes behave alike and
share one definition.

**Coordinator.** All of its state belongs to the runtime thread, so an operation is
one step. `outstanding` holds requests at workers: a completion is applied at any
later time, in any order, and may be a success, a failure, or (with
`CompilerMayMislabel`) an artifact of another key. `Ready` and `Installed` are
never stored in a tier record and are derived. A function without a record
behaves as one with the default record. The whole of `complete` is one action,
its evictions, dependency staging and publication included.
`Ineligible` holds the functions whose bytecode the baseline rejects: the backend
asks once and then disables feedback, so such functions are never queued.

**BackgroundCompiler.** The runtime thread and the workers interleave at each
access to shared state: `dispatch_next` is four steps, a worker's round up to seven.
`UsageGuard::drop` lowers its three counters in three steps, between which the
runtime thread may admit the next request. The mapping to
`CompileService` counts a request as handed over once it is in the job channel.

**EntryCache.** A call is a frame with a program counter: hot event, entry,
acquisition, run, store. The C side of the protocol (the cached handle, the
entries granted without a callback) is modelled from the patches under
`sys/patches` and how `jit/src/lib.rs` serves it. What maintenance decides about
installed code is any change, and so is what the coordinator has blacklisted: the
hot event of any function may find it terminally blacklisted, with or without code
of its other tier installed, and disables it without an invalidation
(`HotDisables`). Its handles stay current; only the flag QuickJS keeps per function
(`off`) stops it from entering them.

**FeedbackTable, ShapeFeedback.** Observed values are types, layouts are opaque.
A behaviour of the table has a load, the kinds of event it may see, so that each
lattice is explored with the others quiet. `seen` is a history variable that
keeps one arbitrary recorded observation. A site that is refused at capacity is
counted, not recorded, so the properties say nothing about its events.

**Promotion, TierPolicy.** Clocks are relative counters of ticks left. The
coordinator is four compiles with the states they may be in, and may refuse an
offered compile (`refused` remembers that until the next tick). The thresholds of
16 baseline runs for untranslatable bytecode and of 64 runs and entries for the
profile of a recursive function are passed, or not, in any run after the element
threshold. Arithmetic saturates at `MaxU64`, as the code's does. `Profitability` is the
default policy, the only one the backend builds; a fixed one exists in unit tests.

**Schedular, AsyncRuntime.** In `Schedular` every access to the `queued` flag, the
queue's links, the waker cell and a reference count is a step; in `AsyncRuntime` a
wake is one step and the runtime lock and the executor's polls interleave. A task
pushed after the scheduler drained its queue for good is owned by nobody and is
leaked: `Schedular` counts it apart from its owners. `overlapped` in `AsyncRuntime`
is a history variable: two owners of the context looked at its count together.

## 3. What is checked

Every run lists its properties in `PROJECT.json`; the comment above each property
says what it means. Passing runs:

| Run | Instance | Distinct states | Shows |
|---|---|---|---|
| `code_cache` | 2 functions, 2 versions, 3 code and 2 metadata bytes; 2 runtimes, 3 allocations of up to 2 pages, quota 3, heap of 4 pages | 228,815 | code in use stays resident, exact charges, limits, no lost reclamation request, invalidated code goes first; mapped code keeps its pages and its quota, after a failure nothing more is mapped or published |
| `dependency_graph` | 3 functions, 1 token of 2 generations, 2 versions | 117,919 | valid rests on valid, newest token only |
| `coordinator_tiers` | 1 function, 2 guards, 2 types, 3 requests | 216,293 | published code is runnable, an active tier has its request |
| `coordinator_calls` | 2 functions calling each other, one limit with room for 2 artifacts, mislabelled results | 158,723 | published code survives eviction and retirement of callees, installed code rests on valid code |
| `coordinator_progress` | 3 generations, the last one ineligible, the optimizing request of the second over the workers' limits, 3 requests, fair | 32,698 | nothing of a superseded generation is published, requests are decided unless one that no worker can take is first, retired code is reclaimed |
| `workers` | requests of 1, 2, 3 and 4 bytes where 3 are admitted at a time, 2 workers, 1-slot channels, fair | 115,210 | exact usage, pending covers the mailbox, refinement of `CompileService`, requests that fit are decided unless they wait behind one that does not, shutdown ends |
| `schedular` | 2 tasks, 2 waker threads, fair | 404,633 | a task's memory lives as long as it is used, the assertion of `poll`, refinement of `TaskQueue` |
| `async_runtime` | 1 task, 1 async_with, 1 idle, drive, 2 context owners, fair | 159,937 | a context is freed once, while nobody owns it and nobody holds the lock, and always unless two owners overlapped; idle leaves nothing, a woken async_with serves every task, async_with completes |
| `entry_cache` | 2 functions, 2 nested calls, 3 epochs, 2 artifacts, 2 generations, 1 disabled function | 1,046,378 | what is entered is admissible, pins are handles, timers match calls, grants run out |
| `profiling` | 18 loads of 1 or 2 functions; 3 shapes, 2 layouts; 6,480 profiles; trials of 2 runs | 143,176 | shortcuts and versions lose nothing, specialised sites fit every recorded event, candidates are offered to the coordinator, approved compiles pay, one slow run loses no trial |

Type invariants and invariants that only describe how two structures agree
(`ReverseIsInverse`, `DeoptReferencesAreExact`, `RequestIsInOnePlace`, ...) are
conjuncts of the inductive invariants of section 4 and are not checked by a run of
their own.

**Bounds.** Two functions are enough for one to evict, call and outlive another;
two specializations for a replaced version beside the published one; three graph
nodes for a transitive dependent; limits below the sum of the artifacts so that
plans select several. `MaxAttempts` is 1 or 2 where the code has 4, so that
blacklisting happens; the thresholds of 10 and 20 exits become 1 and 2, which
keeps their order. `MaxClock`, `MaxAttemptId`, `MaxInstability`, `MaxPins`,
`MaxEpoch`, `MaxArt`, `MaxGen`, `MaxShapeVersion` and `MaxRuns` bound counters that
grow without end in the code. `MaxDisabled` bounds the functions that are switched
off, and functions without a call or handle are not retired: neither has anything
left to enter. Channels of one slot make every `Full` branch
happen. A heap of four pages with allocations of one and two makes first fit
leave gaps and release join on either side. Tables of one or two sites of one or
two observations overflow in every lattice; `MaxU64 = 9999` with profiles at its
edge makes every sum and product saturate. In `MCCodeCache` and `MCProfiling` a
behaviour has one subject: the modules share no state, so interleaving them would
only multiply states. Symmetry is used for functions, allocations and runtimes
that no action tells apart, and only in runs without liveness. Deadlock is checked
only where the system cannot stop: the coordinator and the workers stop after
shutdown, tasks finish, epochs and versions reach their bounds.

**Fairness.** Of dispatch and of polling, because maintenance runs again and again
while JavaScript runs; dispatching a request is fair only if it fits in the limits of
idle workers, and the `workers` run shows that such a request is admitted in the end; of completions, because a worker always reports (a panic is
caught and a compilation has a deadline); of returning from native code; and of
every worker thread. Queueing, retirement, demotion and shutdown carry no
fairness. A thread that began a wake or a poll of the scheduler finishes it. An
executor polls a future whose waker was called, and a future that holds the
runtime lock goes on. Two assumptions are strong: an async_with future that is
polled again and again finds the lock free at some poll, because the lock queues
its waiters, and a woken task is polled in the end, because the
scheduler's queue is first in, first out. Promotion
assumes only that callbacks keep coming (`[]<><<Callback>>`).

### Where comments, tests and the design differ from the code

Each of these runs checks one statement, and TLC finds an execution against it.

| Run | Statement | What happens |
|---|---|---|
| `stale_dependents` | retiring a dependency retires its dependents | the optimizing tier replaced the baseline's edges |
| `drive_wakeup` | a polled drive future drives spawned futures | an async_with that polled the scheduler last was cancelled, and its waker stays registered |

Observations met while modelling, visible in the models and not runs of their own.

Coordinator, cache and workers:

- The comment that keeps the unpublished baseline resident for the Tier 2 trial
  has no pin behind it: another insertion may evict it.
- `is_terminally_blacklisted` holds of a generation whose baseline is installed, or may
  still be refreshed and published; its comment and the one in `record_hot` speak of
  functions without code. The next full call then switches off a function whose
  baseline handle is cached and current.
- A request over the IR limit returns to the queue's front for ever and blocks it;
  the design bounds attempts. `RequestsAreDecided` of the coordinator and of the
  workers name this as the exception.
- `record_eviction` looks the function and the tier up, not the version, so evicting
  an old optimized version unpublishes the installed one.
- A demotion leaves a queued side-path request behind; `begin_next` starts it in
  place of a newer request of the same tier.
- `pending_completions` counts the mailbox and not the overflow list: a completion
  waiting there is delivered by a later poll, not by the signal.
- The drain loop of `shutdown` ends after a round that applied no completion, also
  when reclamation used up that round's budget.
- A full heap turns an allocator off for good, an exhausted quota does not.

Backend, feedback and policy:

- `optimizing_requested` stays set when the snapshot fails after `record_hot`.
- Shape feedback is not forgotten when a function retires, and the inputs of the
  baseline refresh scan leave the shape version out.
- The doc of the shape version speaks of the observation list; reordering the list
  does not advance it.
- `classify_tier2_trial` calls 0 ns against 0 ns a loss, and marks the trial decided
  also when the coordinator refuses the demotion. A comment of `evaluate_trial`
  refers to a helper gate that is not there.
- A function that was demoted to the interpreter as unprofitable, and whose feedback
  then widens, is deferred for ever by the numeric gate; so is a caller whose typed
  loop callee never gets code.
- `bounded_specialization` does not look at return sites that were dropped at
  capacity, and one matching binary site is enough for it.

Async runtime:

- A wake that upgraded the queue before `clear` drained it pushes afterwards, and
  the task's memory is never freed.
- The doc of `drive` says that the future completes when the runtime is dropped;
  nothing wakes it then.
- `idle` that gets an error from a job returns with jobs pending.
- Two context owners dropped at the same time may both see a count of two, and the
  context is never freed.

## 4. What is proved

With TLAPS, for every value of the constants that meets the named assumptions of
the modules: any number of functions, requests, workers, pages and tokens, any
limits and quotas. `PROJECT.json` lists the results; the lemmas are in the modules.

**Code cache** (`CodeCacheProofs`, from `LimitsAssumption`). `CacheInv` joins the types,
residency of pinned code and of deopt targets, exact deopt references, the limits
and the reclamation request. Exactness of the references is what makes it
inductive: an eviction candidate has no references *after* the artifacts selected
so far dropped theirs, so only exact references show that no resident optimizing
artifact loses its baseline. `ExecutionIsSafe`, `LimitsHold` and
`NoReclamationIsLost` are its consequences, `LiveCodeIsEvictedLast` is an action
property proved from it. `ChargeStaysExact` adds that an artifact outside the cache
weighs nothing, and uses the sums below.

**Dependency graph** (`DependencyGraphProofs`, from `GraphAssumption`). `GraphInv` adds to
`ValidRestsOnValid` that the two edge maps are inverse to each other: the walk of
`invalidate` follows reverse edges while the promise is about dependencies.
`OnlyNewestTokenIsValid` and `VersionsAreMonotone` need a second invariant, that the
node of a token carries the token's generation.

**Workers** (`BackgroundCompilerProofs` and `WorkerProofs`, from `WorkerAssumption`).
`PlacesInv`: the places a request can be in (free, decided, the runtime thread's hand,
queue, channel, a worker, mailbox, overflow list) partition the requests. It is
inductive with `HandsInv`, that who holds a request is told by the program counter,
and with the fact that a worker with only its usage left to release holds a request
that is back already. From it follow `RequestsStayInOnePlace` and
`WorkersRefineService`: under the mapping of `WorkersImplementService` every step is
a step of `CompileService` or leaves its variables alone. `SignalCoversCompletions`
needs the exact value of the signal (`SignalInv`: mailbox length and workers about to
send); `UsageStaysExact` needs that the counters are released one by one
(`UsageInv`).

**Entry cache** (`EntryCacheProofs`). That a cached handle is admissible is inductive
only together with the same fact about the handles of active calls, which are cached
when the calls return, and with the fact that no handle is newer than the epoch, so
that advancing it outdates all of them at once (`EntryInv`). The handles of a function
that was disabled over its installed code are the exception the invariant has to
state: they stay current, and the function is switched off in the engine.
`EntriesAreAdmissible` is an action property: no step enters native code that the
function's generation would not be given at that moment. Pins, timers and grants each add an invariant of their
own to `EntryInv`. `PinsAreHeld`: a call holds a handle from its entry to its return and
not before (`PinInv`), so every release finds the pin it gives back. `TimersAreMatched`:
only the innermost call can be elsewhere than in native code (`TimerInv`), so timers
come and go at the end of their list. `GrantsAreUsedUp` sums the grants call by call.
What they need of finite sets is collected in one assumption of the lemmas,
`Counting`, which the last section proves; the library's theorems are in scope only
there, because every theorem in scope slows every proof step down.

**Executable memory** (`ExecutableMemoryProofs`, from `MemoryAssumption`). `MemoryInv`: the
ranges tile the heap, no two free ranges touch, and mapped code owns its pages. It is
proved for one allocation and one release of the heap first; the steps of the
protocol only decide which ranges those are. `QuotaInv` states what a reservation is,
the sum of the pages of the allocations of its state, and that a runtime has one
live state; hence `QuotaIsKept`. `NothingIsInstalledAfterFailure` needs one more,
`FailureInv`: a state that failed is off, and an allocation that has its reservation
and no pages yet is alone with the lock of a state that is on. That a runtime has one
live state, from `QuotaInv`, turns this into a fact about the runtime.

**Policies** (`ProfilingProofs`). For every width of the saturating arithmetic and every
profile, an approved compile pays, at the measured saving or at the one that
`evaluate_trial` assumes, and a lost trial was slow in every run. For every
interval and load, the earliest retry never comes after the end of the backoff.

**Sums** (`SumTheorems`). `SumFunctionOnSet` folds a set in an order `CHOOSE` picks. That
the order does not matter is induction over finite sets. The library's induction
theorems take an operator as a parameter, which the provers cannot instantiate, so
induction is stated about a *set* that stands for the property (`InductiveSet`), and
derived from well-foundedness of the naturals.

Only model-checked:

- liveness and everything that rests on fairness or `ENABLED`: `RequestsAreDecided`,
  `RetiredCodeIsReclaimed` and the liveness properties of the workers and of the
  async runtime, which the prover does not reach;
- `Coordinator`, whose parts, the cache and the graph, are proved on their own;
- `Schedular`, `TaskQueue` and `AsyncRuntime`, with the refinement between the first two;
- the lattices of `FeedbackTable` and `ShapeFeedback`.

## 5. What is not modelled

- Code generation, the IR and its transformations, snapshots and the verifier
  (`jit/src/compiler`, `jit/src/ir`, `jit/src/bytecode`): their correctness is
  equivalence of programs, not a property of states and steps.
- Generated bindings, macros, value and class wrappers, and the vendored standard
  library (`core/src/value`, `core/src/class`, `macro`, `sys`, `stdlib`): pure
  conversions or code of others.
- Metrics, logging and dumps, which no decision reads.
- The composition of the backend with the coordinator: `EntryCache` lets maintenance
  change installed code in any way. `Promotion` lets the coordinator refuse a compile,
  finish it or fail it, and take the callee's code away, at any time; that the
  caller's own code is evicted, invalidated or demoted after its exits, which makes
  it a candidate once more, is left to `Coordinator`.
- Memory order: every access to an atomic is one step in one order. The code uses
  acquire and release pairs where the models pass data.
