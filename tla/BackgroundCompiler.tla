------------------------- MODULE BackgroundCompiler -------------------------
(***************************************************************************)
(* The bounded compile workers (jit/src/runtime/background.rs) and the     *)
(* mailbox that carries their completions back (CompletionSender and the   *)
(* drain functions of jit/src/runtime/coordinator.rs).                     *)
(*                                                                         *)
(* The runtime thread and the workers interleave at every access to shared *)
(* state: the job channel, the usage counters, the pending counter, the    *)
(* completion channel and the overflow list.  Of the coordinator only the  *)
(* waiting queue and the set of requests already decided are kept; what a  *)
(* completion does to it is in module Coordinator.  A worker always        *)
(* produces a completion: a panic, a deadline, cancellation and a retired  *)
(* request are failures the compiler reports like any other.               *)
(***************************************************************************)
EXTENDS Integers, Sequences, FiniteSets, FiniteSetsExt

CONSTANTS
  Job,               \* compile requests
  NoJob,             \* no request
  Worker,
  SnapshotBytes,     \* bytes of each request's own snapshot
  InlineBytes,       \* bytes of the inline bodies it retains
  IrFactor,          \* 32: ir_bytes per snapshot byte
  MaxSnapshotBytes,
  MaxIrBytes,
  MaxPendingJobs,    \* capacity of the job channel
  MaxCompletions,    \* capacity of the completion channel
  DrainBudget,       \* DEFAULT_COMPLETION_DRAIN_BUDGET
  Reclaimable        \* artifacts that wait for reclamation in the cache

ASSUME WorkerAssumption ==
  /\ IsFiniteSet(Worker) /\ Worker # {} /\ IsFiniteSet(Job) /\ NoJob \notin Job
  /\ SnapshotBytes \in [Job -> Nat] /\ InlineBytes \in [Job -> Nat]
  /\ IrFactor \in Nat /\ MaxSnapshotBytes \in Nat /\ MaxIrBytes \in Nat
  /\ MaxPendingJobs \in Nat \ {0} /\ MaxCompletions \in Nat \ {0}
  /\ DrainBudget \in Nat \ {0} /\ Reclaimable \in Nat

VARIABLES
  fresh,        \* requests not queued yet
  queue,        \* the coordinator's queue
  decided,      \* requests whose completion the coordinator has applied
  runtime,      \* what the runtime thread is doing, and the request in its hand
  sender,       \* the sending half of the job channel is alive
  started,      \* the workers were spawned
  channel,      \* requests handed over and not received yet
  worker,       \* where each worker is in its loop, and its request
  bodies,       \* requests that still retain their inline bodies
  usage,        \* WorkerUsage: jobs, snapshots, ir
  pending,      \* CompletionQueueSignals::pending
  completions,  \* the completion channel
  overflow,     \* completions that found the channel full
  reclaimable   \* artifacts the next drains reclaim before completions

hostVars == <<fresh, queue, decided, runtime>>
mailVars == <<pending, completions, overflow>>
vars == <<hostVars, mailVars, sender, started, channel, worker, bodies, usage, reclaimable>>

At(pc, j) == [pc |-> pc, job |-> j]

Init ==
  /\ fresh = Job /\ queue = <<>> /\ decided = {}
  /\ runtime = At("idle", NoJob)
  /\ sender = TRUE /\ started = FALSE
  /\ channel = <<>>
  /\ worker = [w \in Worker |-> At("idle", NoJob)]
  /\ bodies = Job
  /\ usage = [jobs |-> 0, snapshots |-> 0, ir |-> 0]
  /\ pending = 0 /\ completions = <<>> /\ overflow = <<>>
  /\ reclaimable = Reclaimable

------------------------------------------------------------------------------
(* Usage. *)

(* CompileRequest::snapshot_bytes *)
RequestBytes(j) == SnapshotBytes[j] + (IF j \in bodies THEN InlineBytes[j] ELSE 0)

WithinUsage(bytes) ==
  /\ usage.snapshots + bytes =< MaxSnapshotBytes
  /\ usage.ir + IrFactor * bytes =< MaxIrBytes

AddUsage(bytes) == [jobs |-> usage.jobs + 1, snapshots |-> usage.snapshots + bytes,
                    ir |-> usage.ir + IrFactor * bytes]

SubUsage(bytes) == [jobs |-> usage.jobs - 1, snapshots |-> usage.snapshots - bytes,
                    ir |-> usage.ir - IrFactor * bytes]

------------------------------------------------------------------------------
(* The runtime thread: queueing and dispatch. *)

IsIdle == runtime.pc = "idle"

(* queue_with_feedback, and prioritize for a retry of slow code. *)
Submit(j) ==
  /\ IsIdle /\ j \in fresh
  /\ fresh' = fresh \ {j}
  /\ queue' \in {Append(queue, j), <<j>> \o queue}
  /\ UNCHANGED <<decided, runtime, mailVars, sender, started, channel, worker, bodies,
                 usage, reclaimable>>

(* drain_overflow: completions found in the overflow list are applied. *)
DrainOverflow(budget) ==
  LET n == Min({budget, Len(overflow)})
  IN  /\ overflow' = SubSeq(overflow, n + 1, Len(overflow))
      /\ decided' = decided \cup {overflow[i] : i \in 1 .. n}

(* dispatch_next up to begin_next: nothing more is done without a sender,   *)
(* an unused worker and a waiting request.                                  *)
DispatchNext ==
  LET ready == sender /\ usage.jobs < Cardinality(Worker) /\ queue # <<>>
  IN  /\ IsIdle
      /\ DrainOverflow(DrainBudget)
      /\ queue' = IF ready THEN Tail(queue) ELSE queue
      /\ runtime' = IF ready THEN At("start", Head(queue)) ELSE runtime
      /\ UNCHANGED <<fresh, pending, completions, sender, started, channel, worker, bodies,
                     usage, reclaimable>>

(* rollback: the request is first in the queue again. *)
Rollback ==
  /\ queue' = <<runtime.job>> \o queue
  /\ runtime' = At("idle", NoJob)

StartWorkers ==
  /\ runtime.pc = "start"
  /\ started' = TRUE
  /\ runtime' = At("admit", runtime.job)
  /\ UNCHANGED <<fresh, queue, decided, mailVars, sender, channel, worker, bodies, usage,
                 reclaimable>>

(* A thread cannot be spawned: the channel closes, the spawned workers are  *)
(* joined, and nothing is dispatched any more.                              *)
StartFails ==
  /\ runtime.pc = "start" /\ ~started
  /\ started' = TRUE /\ sender' = FALSE
  /\ worker' = [w \in Worker |-> At("exited", NoJob)]
  /\ Rollback
  /\ UNCHANGED <<fresh, decided, mailVars, channel, bodies, usage, reclaimable>>

(* Inline bodies are given up before the request is; admitted requests are  *)
(* counted before they are sent.  Only this thread adds to the counters.    *)
Admit ==
  LET j == runtime.job
      kept == IF WithinUsage(RequestBytes(j)) THEN bodies ELSE bodies \ {j}
      bytes == SnapshotBytes[j] + (IF j \in kept THEN InlineBytes[j] ELSE 0)
  IN  /\ runtime.pc = "admit"
      /\ bodies' = kept
      /\ \/ /\ WithinUsage(bytes)
            /\ usage' = AddUsage(bytes)
            /\ runtime' = At("send", j)
            /\ UNCHANGED queue
         \/ /\ ~WithinUsage(bytes)
            /\ Rollback
            /\ UNCHANGED usage
      /\ UNCHANGED <<fresh, decided, mailVars, sender, started, channel, worker, reclaimable>>

(* try_send to the workers; a full channel undoes the admission. *)
Send ==
  /\ runtime.pc = "send"
  /\ \/ /\ Len(channel) < MaxPendingJobs
        /\ channel' = Append(channel, runtime.job)
        /\ runtime' = At("idle", NoJob)
        /\ UNCHANGED <<queue, usage>>
     \/ /\ Len(channel) >= MaxPendingJobs
        /\ usage' = SubUsage(RequestBytes(runtime.job))
        /\ Rollback
        /\ UNCHANGED channel
  /\ UNCHANGED <<fresh, decided, mailVars, sender, started, worker, bodies, reclaimable>>

(* drain_completions: reclamation is polled first, out of the same budget.  *)
DrainCompletions ==
  LET reclaimed == Min({DrainBudget, reclaimable})
      n == Min({DrainBudget - reclaimed, Len(completions)})
  IN  /\ reclaimable' = reclaimable - reclaimed
      /\ completions' = SubSeq(completions, n + 1, Len(completions))
      /\ decided' = decided \cup {completions[i] : i \in 1 .. n}
      /\ pending' = IF n =< pending THEN pending - n ELSE 0
      /\ runtime' = CASE runtime.pc = "drain" /\ n = 0 -> At("stopped", NoJob)
                      [] OTHER -> runtime

PollCompletions ==
  /\ IsIdle
  /\ DrainCompletions
  /\ UNCHANGED <<fresh, queue, overflow, sender, started, channel, worker, bodies, usage>>

------------------------------------------------------------------------------
(* BackgroundCompiler::shutdown. *)

Shutdown ==
  /\ IsIdle
  /\ sender' = FALSE
  /\ runtime' = At("join", NoJob)
  /\ UNCHANGED <<fresh, queue, decided, mailVars, started, channel, worker, bodies, usage,
                 reclaimable>>

(* join of every worker returned; all of the overflow is applied. *)
Joined ==
  /\ runtime.pc = "join"
  /\ started => \A w \in Worker : worker[w].pc = "exited"
  /\ DrainOverflow(Len(overflow))
  /\ runtime' = At("drain", NoJob)
  /\ UNCHANGED <<fresh, queue, pending, completions, sender, started, channel, worker, bodies,
                 usage, reclaimable>>

(* The drain loop ends when a round applies no completion. *)
ShutdownDrain ==
  /\ runtime.pc = "drain"
  /\ DrainCompletions
  /\ UNCHANGED <<fresh, queue, overflow, sender, started, channel, worker, bodies, usage>>

------------------------------------------------------------------------------
(* A worker's loop. *)

WorkerStep(w, from, to) ==
  /\ started /\ worker[w].pc = from
  /\ worker' = [worker EXCEPT ![w] = to]

Receive(w) ==
  /\ channel # <<>>
  /\ WorkerStep(w, "idle", At("compile", Head(channel)))
  /\ channel' = Tail(channel)
  /\ UNCHANGED <<hostVars, mailVars, sender, started, bodies, usage, reclaimable>>

Exit(w) ==
  /\ channel = <<>> /\ ~sender
  /\ WorkerStep(w, "idle", At("exited", NoJob))
  /\ UNCHANGED <<hostVars, mailVars, sender, started, channel, bodies, usage, reclaimable>>

(* Faulty Compile: the signal is not raised before the completion is sent. *)
CompileUnsignalled(w) ==
  /\ WorkerStep(w, "compile", At("send", worker[w].job))
  /\ UNCHANGED <<hostVars, mailVars, sender, started, channel, bodies, usage, reclaimable>>

(* The request is compiled, or fails; try_send begins with the signal. *)
Compile(w) ==
  /\ WorkerStep(w, "compile", At("send", worker[w].job))
  /\ pending' = pending + 1
  /\ UNCHANGED <<hostVars, completions, overflow, sender, started, channel, bodies, usage,
                 reclaimable>>

(* Faulty SendCompletion: a full mailbox blocks the worker. *)
SendCompletionBlocking(w) ==
  /\ Len(completions) < MaxCompletions
  /\ WorkerStep(w, "send", At("release", worker[w].job))
  /\ completions' = Append(completions, worker[w].job)
  /\ UNCHANGED <<hostVars, pending, overflow, sender, started, channel, bodies, usage,
                 reclaimable>>

(* CompletionSender::try_send, after the signal was raised. *)
SendCompletion(w) ==
  /\ \/ /\ Len(completions) < MaxCompletions
        /\ WorkerStep(w, "send", At("release", worker[w].job))
        /\ completions' = Append(completions, worker[w].job)
        /\ UNCHANGED pending
     \/ /\ Len(completions) >= MaxCompletions
        /\ WorkerStep(w, "send", At("overflow", worker[w].job))
        /\ pending' = IF pending > 0 THEN pending - 1 ELSE 0
        /\ UNCHANGED completions
  /\ UNCHANGED <<hostVars, overflow, sender, started, channel, bodies, usage, reclaimable>>

(* Faulty PushOverflow: the completion is dropped. *)
DropCompletion(w) ==
  /\ WorkerStep(w, "overflow", At("release", worker[w].job))
  /\ UNCHANGED <<hostVars, mailVars, sender, started, channel, bodies, usage, reclaimable>>

PushOverflow(w) ==
  /\ WorkerStep(w, "overflow", At("release", worker[w].job))
  /\ overflow' = Append(overflow, worker[w].job)
  /\ UNCHANGED <<hostVars, pending, completions, sender, started, channel, bodies, usage,
                 reclaimable>>

(* UsageGuard::drop, one counter after the other. *)
ReleaseJob(w) ==
  /\ WorkerStep(w, "release", At("release_snapshots", worker[w].job))
  /\ usage' = [usage EXCEPT !.jobs = @ - 1]
  /\ UNCHANGED <<hostVars, mailVars, sender, started, channel, bodies, reclaimable>>

ReleaseSnapshots(w) ==
  /\ WorkerStep(w, "release_snapshots", At("release_ir", worker[w].job))
  /\ usage' = [usage EXCEPT !.snapshots = @ - RequestBytes(worker[w].job)]
  /\ UNCHANGED <<hostVars, mailVars, sender, started, channel, bodies, reclaimable>>

(* Faulty ReleaseIr: the guard has lost the bytes of the request. *)
ReleaseNoIr(w) ==
  /\ WorkerStep(w, "release_ir", At("idle", NoJob))
  /\ UNCHANGED <<hostVars, mailVars, sender, started, channel, bodies, usage, reclaimable>>

ReleaseIr(w) ==
  /\ WorkerStep(w, "release_ir", At("idle", NoJob))
  /\ usage' = [usage EXCEPT !.ir = @ - IrFactor * RequestBytes(worker[w].job)]
  /\ UNCHANGED <<hostVars, mailVars, sender, started, channel, bodies, reclaimable>>

------------------------------------------------------------------------------
RunWorker(w) ==
  \/ Receive(w) \/ Exit(w) \/ Compile(w) \/ SendCompletion(w)
  \/ PushOverflow(w) \/ ReleaseJob(w) \/ ReleaseSnapshots(w) \/ ReleaseIr(w)

Next ==
  \/ \E j \in Job : Submit(j)
  \/ DispatchNext \/ StartWorkers \/ StartFails \/ Admit \/ Send
  \/ PollCompletions
  \/ Shutdown \/ Joined \/ ShutdownDrain
  \/ \E w \in Worker : RunWorker(w)

Spec == Init /\ [][Next]_vars

(* The runtime thread finishes the call it is in and maintenance runs again *)
(* and again; every worker thread is scheduled, and a compilation ends      *)
(* because it has a deadline.                                               *)
FairSpec ==
  /\ Spec
  /\ WF_vars(DispatchNext) /\ WF_vars(StartWorkers) /\ WF_vars(Admit) /\ WF_vars(Send)
  /\ WF_vars(PollCompletions) /\ WF_vars(Joined) /\ WF_vars(ShutdownDrain)
  /\ \A w \in Worker : WF_vars(RunWorker(w))

------------------------------------------------------------------------------
(* Properties. *)

RuntimeState ==
  [pc : {"idle", "start", "admit", "send", "join", "drain", "stopped"}, job : Job \cup {NoJob}]

WorkerState ==
  [pc : {"idle", "compile", "send", "overflow", "release", "release_snapshots", "release_ir",
         "exited"},
   job : Job \cup {NoJob}]

(* The types of the places a request can be in, and of the signals. *)
PlacesTypeOK ==
  /\ fresh \subseteq Job /\ decided \subseteq Job /\ bodies \subseteq Job
  /\ queue \in Seq(Job) /\ channel \in Seq(Job)
  /\ completions \in Seq(Job) /\ overflow \in Seq(Job)
  /\ runtime \in RuntimeState /\ worker \in [Worker -> WorkerState]
  /\ sender \in BOOLEAN /\ started \in BOOLEAN
  /\ pending \in Nat /\ reclaimable \in Nat

(* The types of the workers' shared state; the usage counters never wrap.   *)
WorkersTypeOK == PlacesTypeOK /\ usage \in [jobs : Nat, snapshots : Nat, ir : Nat]

Elements(s) == {s[i] : i \in DOMAIN s}

Positions(s, j) == {i \in DOMAIN s : s[i] = j}

(* The number of places a request is held in. *)
Copies(j) ==
  LET one(p) == IF p THEN 1 ELSE 0
  IN  one(j \in fresh) + one(j \in decided) + one(runtime.job = j)
        + Cardinality(Positions(queue, j)) + Cardinality(Positions(channel, j))
        + Cardinality(Positions(completions, j)) + Cardinality(Positions(overflow, j))
        + Cardinality({w \in Worker : worker[w].job = j
                                      /\ worker[w].pc \in {"compile", "send", "overflow"}})

(* Every request is in exactly one place at every moment: rollbacks, full   *)
(* channels, the overflow list, failed starts and shutdown neither lose nor *)
(* duplicate it.                                                            *)
RequestIsInOnePlace == \A j \in Job : Copies(j) = 1

(* Where the UsageGuard of a worker's request still counts it, by counter.  *)
JobStages == {"compile", "send", "overflow", "release"}

SnapshotStages == JobStages \cup {"release_snapshots"}

IrStages == SnapshotStages \cup {"release_ir"}

HeldIn(stages) == {worker[w].job : w \in {v \in Worker : worker[v].pc \in stages}}

(* The requests a counter counts, from their admission to its release.      *)
CountedIn(stages) ==
  Elements(channel) \cup HeldIn(stages)
    \cup (IF runtime.pc = "send" THEN {runtime.job} ELSE {})

BytesOf(S) == SumFunctionOnSet([j \in Job |-> RequestBytes(j)], S)

(* Each counter is the number, or the bytes, of the requests admitted and   *)
(* not yet taken off it, and both byte counters stay within their limits:   *)
(* the runtime thread admits against counters that several workers lower    *)
(* one after the other, and idle workers leave nothing behind.              *)
UsageIsExact ==
  /\ usage.jobs = Cardinality(CountedIn(JobStages))
  /\ usage.snapshots = BytesOf(CountedIn(SnapshotStages))
  /\ usage.ir = IrFactor * BytesOf(CountedIn(IrStages))
  /\ usage.snapshots =< MaxSnapshotBytes /\ usage.ir =< MaxIrBytes

(* has_pending_work never misses a completion in the channel, because the   *)
(* signal is raised before the completion is sent.                          *)
PendingCoversChannel == Len(completions) =< pending

(* The request in the runtime thread's hand, and those in the workers'.     *)
InHand == {runtime.job} \cap Job

Carried == {worker[w].job : w \in {v \in Worker : worker[v].pc \in {"compile", "send", "overflow"}}}

(* A request counts as handed over once it is in the job channel. *)
Service ==
  INSTANCE CompileService
    WITH waiting <- fresh \cup Elements(queue) \cup InHand,
         outstanding <-
           Elements(channel) \cup Elements(completions) \cup Elements(overflow) \cup Carried

(* The workers implement the service the coordinator relies on: whatever    *)
(* the interleaving, the channels' limits and the rollbacks, a request is   *)
(* handed over once and its completion is applied once.                     *)
WorkersImplementService == Service!ServiceSpec

(* A request no idle set of workers could admit.                            *)
IsOverLimit(j) ==
  SnapshotBytes[j] > MaxSnapshotBytes \/ IrFactor * SnapshotBytes[j] > MaxIrBytes

(* A request over the limit is put back first in the queue each time.       *)
IsBehind(j, k) ==
  \/ runtime.job = k
  \/ \E n, m \in DOMAIN queue : n =< m /\ queue[n] = k /\ queue[m] = j

(* Every queued request is decided, unless the workers are shut down or it  *)
(* waits behind a request, maybe itself, that exceeds a limit even alone:   *)
(* dispatch_next puts that one back at the front for ever.  Whatever the    *)
(* others hold at the moment, a request that fits is admitted in the end.   *)
RequestsAreDecided ==
  \A j \in Job : runtime.job = j \/ Positions(queue, j) # {} ~>
    j \in decided \/ ~sender \/ \E k \in Job : IsOverLimit(k) /\ IsBehind(j, k)

(* Shutdown ends: workers never wait for a completion to be taken, so join  *)
(* returns however full the completion channel is.                          *)
ShutdownCompletes == runtime.pc = "join" ~> runtime.pc = "stopped"
=============================================================================
