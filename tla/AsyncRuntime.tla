---------------------------- MODULE AsyncRuntime ----------------------------
(***************************************************************************)
(* The futures that run an async runtime and the lock they share:          *)
(* AsyncRuntime::drive (core/src/runtime/spawner.rs), AsyncContext::       *)
(* async_with (core/src/context/async/future.rs) and AsyncRuntime::idle    *)
(* (core/src/runtime/async.rs), and the contexts whose owners are dropped  *)
(* on other threads (core/src/context/owner.rs, the `parallel' feature).   *)
(*                                                                         *)
(* An executor polls a future after its waker was called.  Whoever holds   *)
(* the lock runs jobs and polls the scheduler; what the scheduler does     *)
(* with wakers is in module Schedular, here a wake is one step.  Spawned   *)
(* futures and jobs are run by DriveTask and RunJob with any outcome.      *)
(***************************************************************************)
EXTENDS Integers, Sequences, FiniteSets, SequencesExt

CONSTANTS
  Task,       \* spawned futures
  With,       \* futures of async_with
  Idle,       \* futures of idle
  Drive,      \* the future of drive
  Owner,      \* threads that own the context
  Nobody,     \* no future
  MaxJobs     \* bound: jobs enqueued in a behaviour

ASSUME AsyncAssumption ==
  /\ IsFiniteSet(Task) /\ IsFiniteSet(With) /\ IsFiniteSet(Idle) /\ IsFiniteSet(Owner)
  /\ Drive \notin With \cup Idle /\ With \cap Idle = {}
  /\ Nobody \notin With \cup Idle \cup {Drive}
  /\ MaxJobs \in Nat

Future == With \cup Idle \cup {Drive}

VARIABLES
  pc,         \* where each future is
  progress,   \* the poll in progress has run something
  iteration,  \* tasks polled by the scheduler's poll in progress
  notified,   \* futures whose executor was woken since they were last polled
  lock,       \* holder of the runtime lock
  waiters,    \* futures that listen for the lock, first to last
  root,       \* async_with futures whose closure has what it waits for
  fresh,      \* tasks not spawned yet
  live,       \* tasks that are not finished
  ready,      \* tasks woken since they were last polled
  slot,       \* whose waker the scheduler holds
  listeners,  \* whose wakers Spawner::wakeup holds
  jobs,       \* pending jobs
  failed,     \* a job raised an exception
  enqueued,   \* jobs enqueued so far
  handle,     \* the application still holds the runtime
  freed,      \* the runtime was dropped
  owner,      \* where each owner of the context is
  refs,       \* strong count of the context pointer
  context,    \* "live", "parked" in pending_free, "freed" or "twice"
  overlapped  \* an owner looked at the count while another was between its look
              \* and its decrement (the code keeps no such record)

lockVars == <<lock, waiters>>
taskVars == <<fresh, live, ready, slot, listeners>>
jobVars == <<jobs, failed, enqueued>>
ownerVars == <<owner, refs, context, overlapped>>
lifeVars == <<handle, freed>>
vars == <<pc, progress, iteration, notified, lockVars, root, taskVars, jobVars, lifeVars, ownerVars>>

Init ==
  /\ pc = [f \in Future |-> "start"]
  /\ progress = FALSE /\ iteration = 0
  /\ notified = Future
  /\ lock = Nobody /\ waiters = <<>>
  /\ root = {}
  /\ fresh = Task /\ live = {} /\ ready = {} /\ slot = Nobody /\ listeners = {}
  /\ jobs = 0 /\ failed = FALSE /\ enqueued = 0
  /\ handle = TRUE /\ freed = FALSE
  /\ owner = [o \in Owner |-> "owns"] /\ refs = Cardinality(Owner) /\ context = "live"
  /\ overlapped = FALSE

(* Strong references to the runtime: the application's, the context's       *)
(* owners', and the drive future's while it waits for or holds the lock.    *)
IsRetained ==
  \/ handle
  \/ \E o \in Owner : owner[o] # "gone"
  \/ pc[Drive] \in {"lock", "run", "jobs", "sched", "tasks"}

Goto(f, to) == pc' = [pc EXCEPT ![f] = to]

------------------------------------------------------------------------------
(* The runtime lock, an async_lock::Mutex: unlocking wakes the first that   *)
(* listens unless one was woken and has not tried yet; whoever is polled    *)
(* first takes the lock.                                                    *)

Tries(f) == pc[f] = "lock" /\ f \notin Range(waiters)

WakeFirstWaiter(awake) ==
  IF waiters = <<>> \/ \E f \in Future : Tries(f)
  THEN notified' = awake /\ UNCHANGED waiters
  ELSE notified' = awake \cup {Head(waiters)} /\ waiters' = Tail(waiters)

Unlock(awake) == lock' = Nobody /\ WakeFirstWaiter(awake)

(* Contexts parked while the lock was held are freed (drain_pending_free). *)
Drained == IF context = "parked" THEN "freed" ELSE context

------------------------------------------------------------------------------
(* Polling. *)

(* The lock is taken, or listened for.  idle keeps it from poll to poll,    *)
(* drive listens for spawned futures once it has it.                        *)
PollLocks(f) ==
  /\ notified' = notified \ {f}
  /\ IF lock \in {Nobody, f}
     THEN /\ lock' = f
          /\ Goto(f, IF f \in With THEN "run" ELSE "jobs")
          /\ context' = IF f \in Idle /\ pc[f] # "held" THEN Drained ELSE context
          /\ listeners' = IF f = Drive THEN listeners \cup {f} ELSE listeners
          /\ progress' = FALSE
          /\ UNCHANGED waiters
     ELSE /\ Goto(f, "lock")
          /\ waiters' = Append(waiters, f)
          /\ UNCHANGED <<lock, progress, context, listeners>>
  /\ UNCHANGED <<iteration, root, fresh, live, ready, slot, jobVars, lifeVars, owner, refs,
                 overlapped>>

Poll(f) ==
  /\ f \in notified
  /\ pc[f] \in {"start", "parked", "held"} \/ Tries(f)
  /\ f = Drive => IsRetained
  /\ PollLocks(f)

(* A future that listens for the lock is polled without its turn. *)
PollInVain(f) ==
  /\ f \in notified /\ f \in Range(waiters)
  /\ notified' = notified \ {f}
  /\ UNCHANGED <<pc, progress, iteration, lockVars, root, taskVars, jobVars, lifeVars, ownerVars>>

(* drive finds its runtime gone. *)
DriveEnds ==
  /\ Drive \in notified /\ pc[Drive] \in {"start", "parked"} /\ ~IsRetained
  /\ notified' = notified \ {Drive}
  /\ Goto(Drive, "done")
  /\ UNCHANGED <<progress, iteration, lockVars, root, taskVars, jobVars, lifeVars, ownerVars>>

(* User code runs in the closure of async_with, in a job or in a task. *)
RunsCode(f) ==
  \/ pc[f] = "run"
  \/ pc[f] = "jobs" /\ jobs > 0
  \/ pc[f] = "tasks" /\ ready # {}

(* Spawner::push: whoever listens is woken. *)
Spawn(f, t) ==
  /\ RunsCode(f) /\ t \in fresh
  /\ fresh' = fresh \ {t} /\ live' = live \cup {t} /\ ready' = ready \cup {t}
  /\ notified' = notified \cup listeners /\ listeners' = {}
  /\ UNCHANGED <<pc, progress, iteration, lockVars, root, slot, jobVars, lifeVars, ownerVars>>

(* Running code enqueues a job. *)
Enqueue(f) ==
  /\ RunsCode(f) /\ enqueued < MaxJobs
  /\ jobs' = jobs + 1 /\ enqueued' = enqueued + 1
  /\ UNCHANGED <<pc, progress, iteration, notified, lockVars, root, taskVars, failed, lifeVars, ownerVars>>

(* Faulty RootPending: only jobs are run. *)
RootPendingJobsOnly(f) ==
  /\ pc[f] = "run" /\ f \notin root
  /\ Goto(f, "jobs")
  /\ UNCHANGED <<progress, iteration, notified, lockVars, root, taskVars, jobVars, lifeVars, ownerVars>>

(* WithFuture polls its closure: done, or on to the scheduler. *)
RootReady(f) ==
  /\ pc[f] = "run" /\ f \in root
  /\ Goto(f, "done") /\ Unlock(notified \ {f})
  /\ UNCHANGED <<progress, iteration, root, taskVars, jobVars, lifeVars, ownerVars>>

RootPending(f) ==
  /\ pc[f] = "run" /\ f \notin root
  /\ Goto(f, "sched")
  /\ UNCHANGED <<progress, iteration, notified, lockVars, root, taskVars, jobVars, lifeVars, ownerVars>>

(* The scheduler takes the waker of whoever polls it, unless it is empty.   *)
SchedPoll(f) ==
  /\ pc[f] = "sched" /\ live # {}
  /\ slot' = f
  /\ Goto(f, "tasks")
  /\ UNCHANGED <<progress, iteration, notified, lockVars, root, fresh, live, ready, listeners, jobVars,
                 lifeVars, ownerVars>>

(* ShouldYield: the poll ends and the future is polled again. *)
Yield(f) ==
  /\ progress' = FALSE /\ iteration' = 0
  /\ IF f \in Idle
     THEN Goto(f, "held") /\ notified' = notified \cup {f} /\ UNCHANGED lockVars
     ELSE Goto(f, "parked") /\ Unlock(notified \cup {f})

(* A task finishes, or is pending; the scheduler yields once it has polled  *)
(* more often than it has tasks.                                            *)
DriveTask(f, t) ==
  /\ pc[f] = "tasks" /\ t \in ready
  /\ ready' = ready \ {t}
  /\ live' \in {live, live \ {t}}
  /\ IF t \in live' /\ iteration + 1 > Cardinality(live) THEN Yield(f)
     ELSE progress' = TRUE /\ iteration' = iteration + 1 /\ UNCHANGED <<pc, notified, lockVars>>
  /\ UNCHANGED <<root, fresh, slot, listeners, jobVars, lifeVars, ownerVars>>

(* It also yields when tasks wake themselves, and while a wake is under way *)
SchedYield(f) ==
  /\ pc[f] = "tasks"
  /\ Yield(f)
  /\ UNCHANGED <<root, taskVars, jobVars, lifeVars, ownerVars>>

(* Empty, Pending or PendingProgress. *)
SchedIsOver(f) == (pc[f] = "sched" /\ live = {}) \/ (pc[f] = "tasks" /\ ready = {})

(* async_with runs jobs next, whatever the scheduler did. *)
WithSched(f) ==
  /\ f \in With /\ SchedIsOver(f)
  /\ Goto(f, "jobs") /\ iteration' = 0
  /\ UNCHANGED <<progress, notified, lockVars, root, taskVars, jobVars, lifeVars, ownerVars>>

(* Faulty IdleSched: idle is over when nothing could be polled. *)
IdleSchedPending(f) ==
  /\ f \in Idle /\ SchedIsOver(f) /\ iteration' = 0
  /\ Goto(f, "done") /\ Unlock(notified \ {f})
  /\ UNCHANGED <<progress, root, taskVars, jobVars, lifeVars, ownerVars>>

(* idle goes on while there is progress, is over when the scheduler is      *)
(* empty, and else waits with the lock held.                                *)
IdleSched(f) ==
  /\ f \in Idle /\ SchedIsOver(f) /\ iteration' = 0
  /\ \/ /\ pc[f] = "tasks" /\ progress
        /\ Goto(f, "jobs") /\ progress' = FALSE
        /\ UNCHANGED <<notified, lockVars>>
     \/ /\ pc[f] = "tasks" /\ ~progress
        /\ Goto(f, "held")
        /\ UNCHANGED <<progress, notified, lockVars>>
     \/ /\ pc[f] = "sched"
        /\ Goto(f, "done") /\ Unlock(notified \ {f})
        /\ UNCHANGED progress
  /\ UNCHANGED <<root, taskVars, jobVars, lifeVars, ownerVars>>

(* Faulty DriveSched: drive waits with the lock held, as idle does. *)
DriveSchedLocked ==
  /\ SchedIsOver(Drive) /\ iteration' = 0 /\ progress' = FALSE
  /\ Goto(Drive, IF pc[Drive] = "tasks" /\ progress THEN "jobs" ELSE "parked")
  /\ UNCHANGED <<notified, lockVars, root, taskVars, jobVars, lifeVars, ownerVars>>

(* drive goes on while there is progress, and else waits without the lock.  *)
DriveSched ==
  /\ SchedIsOver(Drive) /\ iteration' = 0
  /\ IF pc[Drive] = "tasks" /\ progress
     THEN Goto(Drive, "jobs") /\ progress' = FALSE /\ UNCHANGED <<notified, lockVars>>
     ELSE Goto(Drive, "parked") /\ Unlock(notified) /\ UNCHANGED progress
  /\ UNCHANGED <<root, taskVars, jobVars, lifeVars, ownerVars>>

(* execute_pending_job: a job that fails is progress to async_with; idle    *)
(* and drive leave the loop and poll the scheduler.                         *)
RunJob(f) ==
  /\ pc[f] = "jobs" /\ jobs > 0
  /\ jobs' = jobs - 1
  /\ progress' = (progress \/ f \in With)
  /\ \/ UNCHANGED <<pc, failed>>
     \/ failed' = TRUE /\ (IF f \in With THEN UNCHANGED pc ELSE Goto(f, "sched"))
  /\ UNCHANGED <<iteration, notified, lockVars, root, taskVars, enqueued, lifeVars, ownerVars>>

NoJobLeft(f) ==
  /\ pc[f] = "jobs" /\ jobs = 0
  /\ progress' = FALSE
  /\ CASE f \notin With -> Goto(f, "sched") /\ UNCHANGED <<notified, lockVars>>
       [] f \in With /\ progress -> Goto(f, "run") /\ UNCHANGED <<notified, lockVars>>
       [] f \in With /\ ~progress -> Goto(f, "parked") /\ Unlock(notified)
  /\ UNCHANGED <<iteration, root, taskVars, jobVars, lifeVars, ownerVars>>

------------------------------------------------------------------------------
(* The world outside. *)

(* What the closure of async_with waits for happens, the last of it or not. *)
RootEvent(f) ==
  /\ f \notin root /\ pc[f] # "done"
  /\ root' \in {root, root \cup {f}}
  /\ notified' = notified \cup {f}
  /\ UNCHANGED <<pc, progress, iteration, lockVars, taskVars, jobVars, lifeVars, ownerVars>>

(* What a task waits for happens: the scheduler's waker is taken and called *)
(* (a future that is done is not polled again).                             *)
TaskEvent(t) ==
  /\ t \in live \ ready
  /\ ready' = ready \cup {t}
  /\ slot' = Nobody
  /\ notified' = notified \cup {f \in {slot} \ {Nobody} : pc[f] # "done"}
  /\ UNCHANGED <<pc, progress, iteration, lockVars, root, fresh, live, listeners, jobVars, lifeVars, ownerVars>>

(* A pending future is dropped: the lock it held is unlocked, its turn to   *)
(* try the lock passes on.                                                  *)
Cancel(f) ==
  /\ f # Drive /\ pc[f] \in {"start", "lock", "parked", "held"}
  /\ Goto(f, "done")
  /\ \/ pc[f] = "held" /\ Unlock(notified \ {f})
     \/ /\ Tries(f) /\ waiters # <<>>
        /\ notified' = (notified \ {f}) \cup {Head(waiters)} /\ waiters' = Tail(waiters)
        /\ UNCHANGED lock
     \/ /\ pc[f] # "held" /\ ~(Tries(f) /\ waiters # <<>>)
        /\ notified' = notified \ {f}
        /\ waiters' = SelectSeq(waiters, LAMBDA g : g # f)
        /\ UNCHANGED lock
  /\ UNCHANGED <<progress, iteration, root, taskVars, jobVars, lifeVars, ownerVars>>

(* AsyncContext::with and run_gc hold the lock from begin to end; they free *)
(* the parked contexts.                                                     *)
WithSync ==
  /\ handle /\ lock = Nobody
  /\ context' = Drained
  /\ UNCHANGED <<pc, progress, iteration, notified, lockVars, root, taskVars, jobVars, lifeVars, owner, refs,
                 overlapped>>

(* The futures borrow the runtime, drive excepted. *)
DropHandle ==
  /\ handle /\ \A f \in With \cup Idle : pc[f] = "done"
  /\ handle' = FALSE
  /\ UNCHANGED <<pc, progress, iteration, notified, lockVars, root, taskVars, jobVars, freed, ownerVars>>

(* RawRuntime::drop frees parked contexts, drops the spawned futures and    *)
(* the wakers, and frees the runtime.                                       *)
RuntimeDrop ==
  /\ ~freed /\ ~IsRetained
  /\ freed' = TRUE
  /\ context' = Drained
  /\ live' = {} /\ ready' = {} /\ fresh' = {} /\ slot' = Nobody /\ listeners' = {}
  /\ UNCHANGED <<pc, progress, iteration, notified, lockVars, root, jobVars, handle, owner, refs,
                 overlapped>>

------------------------------------------------------------------------------
(* Owners of the context, each on its own thread. *)

(* Another owner has looked at the count and not decremented it yet. *)
Overlaps == overlapped \/ \E o \in Owner : owner[o] \in {"last", "decrement"}

(* Faulty OwnerDrops: every owner drops the context. *)
OwnerDropsAlways(o) ==
  /\ owner[o] = "owns" /\ \A f \in With : pc[f] = "done"
  /\ owner' = [owner EXCEPT ![o] = "last"]
  /\ overlapped' = Overlaps
  /\ UNCHANGED <<pc, progress, iteration, notified, lockVars, root, taskVars, jobVars, lifeVars, refs, context>>

(* ContextOwner::drop looks whether it is the last ... *)
OwnerDrops(o) ==
  /\ owner[o] = "owns" /\ \A f \in With : pc[f] = "done"
  /\ owner' = [owner EXCEPT ![o] = IF refs = 1 THEN "last" ELSE "decrement"]
  /\ overlapped' = Overlaps
  /\ UNCHANGED <<pc, progress, iteration, notified, lockVars, root, taskVars, jobVars, lifeVars, refs, context>>

(* ... then drop_context frees the context, or parks it while the lock is   *)
(* held ...                                                                 *)
DropContext(o) ==
  /\ owner[o] = "last"
  /\ owner' = [owner EXCEPT ![o] = "decrement"]
  /\ context' = CASE context # "live" -> "twice"
                  [] context = "live" /\ lock = Nobody -> "freed"
                  [] context = "live" /\ lock # Nobody -> "parked"
  /\ UNCHANGED <<pc, progress, iteration, notified, lockVars, root, taskVars, jobVars, lifeVars, refs,
                 overlapped>>

(* ... and the count and the runtime are let go. *)
OwnerGone(o) ==
  /\ owner[o] = "decrement"
  /\ owner' = [owner EXCEPT ![o] = "gone"] /\ refs' = refs - 1
  /\ UNCHANGED <<pc, progress, iteration, notified, lockVars, root, taskVars, jobVars, lifeVars, context,
                 overlapped>>

------------------------------------------------------------------------------
(* The whole system. *)

(* Steps of the future that holds the lock, spawning and enqueueing apart. *)
Holding(f) ==
  \/ RootReady(f) \/ RootPending(f) \/ SchedPoll(f) \/ SchedYield(f)
  \/ \E t \in Task : DriveTask(f, t)
  \/ WithSched(f) \/ IdleSched(f) \/ RunJob(f) \/ NoJobLeft(f)
  \/ f = Drive /\ DriveSched

Polling(f) == Poll(f) \/ PollInVain(f) \/ (f = Drive /\ DriveEnds)

Dropping == RuntimeDrop \/ \E o \in Owner : DropContext(o) \/ OwnerGone(o)

Next ==
  \/ \E f \in Future : Polling(f) \/ Holding(f) \/ Enqueue(f) \/ Cancel(f)
  \/ \E f \in Future, t \in Task : Spawn(f, t)
  \/ \E f \in With : RootEvent(f)
  \/ \E t \in Task : TaskEvent(t)
  \/ WithSync \/ DropHandle \/ Dropping
  \/ \E o \in Owner : OwnerDrops(o)

Spec == Init /\ [][Next]_vars

(* Executors poll the futures that were woken and a poll ends; async_with   *)
(* gets the lock in the end, which async_lock promises; the scheduler's     *)
(* queue is first in, first out, so polling goes on to every woken task; a  *)
(* drop that began is finished.                                             *)
FairSpec ==
  /\ Spec
  /\ \A f \in Future : WF_vars(Polling(f)) /\ WF_vars(Holding(f))
  /\ \A f \in With : SF_vars(Poll(f) /\ lock = Nobody)
  /\ \A t \in Task : SF_vars(\E f \in Future : DriveTask(f, t))
  /\ WF_vars(Dropping)

------------------------------------------------------------------------------
(* Properties. *)

(* A context is freed at most once, not before every owner began to drop it, *)
(* and never while a future holds the lock (drop_context parks it then).     *)
(* Once the runtime is gone it was freed, unless two owners looked at the    *)
(* count before either had decremented it: both then see that they are not   *)
(* the last.                                                                *)
ContextIsFreedOnce ==
  [][/\ context' # "twice"
     /\ context = "live" /\ context' # "live" => \A o \in Owner : owner[o] # "owns"
     /\ context # "freed" /\ context' = "freed" => lock = Nobody
     /\ freed' /\ ~overlapped' => context' = "freed"]_vars

(* idle leaves nothing to do behind, unless a job raised an exception.      *)
IdleLeavesNothing ==
  [][\A f \in Idle : pc[f] \in {"sched", "tasks"} /\ pc'[f] = "done" =>
       live = {} /\ (jobs = 0 \/ failed)]_vars

(* An async_with that was woken polls the scheduler, so that every woken    *)
(* task is polled, unless it is over first or idle keeps the lock.          *)
WokenFutureServesTasks ==
  \A t \in Task, f \in With :
    (t \in ready /\ f \in notified) ~>
      (t \notin ready \/ pc[f] = "done" \/ \E i \in Idle : pc[i] = "held")

(* An async_with whose closure has what it waits for is over in the end,    *)
(* unless idle keeps the lock or tasks are woken for ever.                  *)
WithCompletes ==
  \/ \A f \in With : f \in root ~> (pc[f] = "done" \/ \E i \in Idle : pc[i] = "held")
  \/ \E t \in Task : []<><<TaskEvent(t)>>_vars

(* What the documentation of drive says: `it will drive futures spawned     *)
(* inside the runtime completing them even if runtime is currently not in   *)
(* use'.                                                                    *)
DriveServesTasks ==
  \A t \in Task : t \in ready ~> t \notin ready
=============================================================================
