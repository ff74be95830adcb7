------------------------------ MODULE Schedular ------------------------------
(***************************************************************************)
(* The scheduler of futures spawned inside an async runtime                *)
(* (core/src/runtime/schedular.rs and schedular/), polled by the future    *)
(* that AsyncRuntime::drive returns (core/src/runtime/spawner.rs).         *)
(*                                                                         *)
(* One thread polls the scheduler; any number of other threads hold wakers *)
(* of its tasks.  They meet in four places, and every access to one of     *)
(* them is a step of its own: the `queued' flag of a task, the intrusive   *)
(* multi-producer queue of woken tasks, the cell that holds the waker of   *)
(* the executor, and the reference counts.  Steps that touch only what the *)
(* acting thread owns are part of the step before them.                    *)
(*                                                                         *)
(* The all-task list is a sequence: its links are only used by the polling *)
(* thread.  Whether a future panics is left out (it is removed as if it    *)
(* had finished, by the same Defer, and the panic leaves the executor).    *)
(***************************************************************************)
EXTENDS Integers, Sequences, FiniteSets, FiniteSetsExt, SequencesExt

CONSTANTS
  Task,     \* addresses of tasks; one is used again after its task was freed
  Thread,   \* threads that hold wakers
  Stub,     \* the queue's own node
  Null      \* no node

ASSUME SchedularAssumption ==
  /\ IsFiniteSet(Task) /\ IsFiniteSet(Thread) /\ Stub # Null
  /\ Stub \notin Task /\ Null \notin Task

Node == Task \cup {Stub}

VARIABLES
  all,        \* the all-task list, first to last
  future,     \* is a task's future absent, live, dropped, or dropped twice
  queued,     \* TaskBody::queued
  done,       \* TaskBody::done
  count,      \* strong count of the task; 0 means freed
  next,       \* NodeHeader::next
  head,       \* Queue::head
  tail,       \* Queue::tail
  strong,     \* strong count of the queue
  waking,     \* the bits of AtomicWaker::state
  slot,       \* the AtomicWaker holds the executor's waker
  listening,  \* Spawner::wakeup holds the executor's waker
  notified,   \* the executor was woken since it last polled
  sched,      \* where the polling thread is
  thread      \* where each other thread is, and the task of its waker

taskVars == <<all, future, queued, done>>
queueVars == <<next, head, tail>>
wakerVars == <<waking, slot>>
execVars == <<listening, notified>>
vars == <<taskVars, count, queueVars, strong, wakerVars, execVars, sched, thread>>

(* The polling thread at pc, in poll or in clear, with a node in its hand   *)
(* and poll's counters.                                                     *)
SchedAt(pc) == [pc |-> pc, clearing |-> FALSE, node |-> Null, iteration |-> 0, yielded |-> 0]

NoWaker == [pc |-> "none", task |-> Null, prev |-> Null]

Init ==
  /\ all = <<>>
  /\ future = [t \in Task |-> "none"]
  /\ queued = [t \in Task |-> FALSE] /\ done = [t \in Task |-> FALSE]
  /\ count = [t \in Task |-> 0]
  /\ next = [n \in Node |-> Null] /\ head = Stub /\ tail = Stub
  /\ strong = 1
  /\ waking = {} /\ slot = FALSE
  /\ listening = FALSE /\ notified = TRUE
  /\ sched = SchedAt("idle")
  /\ thread = [w \in Thread |-> NoWaker]

Goto(pc) == sched' = [sched EXCEPT !.pc = pc]

(* On to the next node, with nothing in hand. *)
GotoPop == sched' = [sched EXCEPT !.pc = "pop", !.node = Null]

------------------------------------------------------------------------------
(* The queue of woken tasks. *)

(* Queue::push by the polling thread, which alone would see it unfinished. *)
PushNode(n) ==
  /\ next' = [next EXCEPT ![n] = Null, ![head] = n]
  /\ head' = n

------------------------------------------------------------------------------
(* The executor: DriveFuture::poll, woken through its waker. *)

(* It listens for spawned futures and polls until no progress is made. *)
DrivePoll ==
  /\ sched.pc = "idle" /\ notified
  /\ notified' = FALSE /\ listening' = TRUE
  /\ Goto("poll")
  /\ UNCHANGED <<taskVars, count, queueVars, strong, wakerVars, thread>>

(* Spawner::push: the task is counted by the list and by the queue, and the *)
(* listening executor is woken.  A future may spawn others while polled.    *)
Push(t) ==
  /\ sched.pc \in {"idle", "drive"}
  /\ count[t] = 0
  /\ all' = <<t>> \o all
  /\ future' = [future EXCEPT ![t] = "live"]
  /\ queued' = [queued EXCEPT ![t] = TRUE] /\ done' = [done EXCEPT ![t] = FALSE]
  /\ count' = [count EXCEPT ![t] = 2]
  /\ PushNode(t)
  /\ notified' = (notified \/ listening) /\ listening' = FALSE
  /\ UNCHANGED <<tail, strong, wakerVars, sched, thread>>

------------------------------------------------------------------------------
(* Schedular::poll *)

(* Faulty PollBegin: the queue is looked at before the waker is registered. *)
PollUnregistered ==
  /\ sched.pc = "poll"
  /\ sched' = SchedAt(IF all = <<>> THEN "idle" ELSE "pop")
  /\ UNCHANGED <<taskVars, count, queueVars, strong, wakerVars, execVars, thread>>

(* Nothing to do without tasks; otherwise AtomicWaker::register begins: the *)
(* cell is locked, or a wake in progress makes the executor come back.      *)
PollBegin ==
  /\ sched.pc = "poll"
  /\ CASE all = <<>> -> sched' = SchedAt("idle") /\ UNCHANGED <<waking, notified>>
       [] all # <<>> /\ waking = {} ->
            sched' = SchedAt("register") /\ waking' = {"REGISTERING"} /\ UNCHANGED notified
       [] all # <<>> /\ waking # {} ->
            sched' = SchedAt("pop") /\ notified' = TRUE /\ UNCHANGED waking
  /\ UNCHANGED <<taskVars, count, queueVars, strong, slot, listening, thread>>

(* register stores the waker and unlocks; a wake that came meanwhile could  *)
(* not take it and is carried out here.                                     *)
RegisterEnd ==
  /\ sched.pc = "register"
  /\ Goto("pop")
  /\ waking' = {}
  /\ slot' = ("WAKING" \notin waking)
  /\ notified' = (notified \/ "WAKING" \in waking)
  /\ UNCHANGED <<taskVars, count, queueVars, strong, listening, thread>>

------------------------------------------------------------------------------
(* Queue::pop, by poll and by clear. *)

(* Pop::Empty: poll is over, and called again if it made progress; clear is *)
(* over too, and with it the scheduler's hold on the queue.                 *)
PopEmpty ==
  IF sched.clearing THEN sched' = SchedAt("dropped") /\ strong' = strong - 1
  ELSE sched' = SchedAt(IF sched.iteration > 0 THEN "poll" ELSE "idle") /\ UNCHANGED strong

(* The next node becomes the tail.  The link of a node outside the queue    *)
(* is overwritten before it is read again, so the model forgets it.         *)
Advance == tail' = next[tail] /\ next' = [next EXCEPT ![tail] = Null]

(* Pop::Value: the old tail is taken. *)
PopValue == sched' = [sched EXCEPT !.pc = "value", !.node = tail] /\ Advance

(* The tail's next node is loaded; the stub is stepped over. *)
PopNext ==
  /\ sched.pc = "pop"
  /\ CASE tail = Stub /\ next[tail] = Null -> PopEmpty /\ UNCHANGED <<tail, next>>
       [] tail = Stub /\ next[tail] # Null -> Advance /\ UNCHANGED <<sched, strong>>
       [] tail # Stub /\ next[tail] # Null -> PopValue /\ UNCHANGED strong
       [] tail # Stub /\ next[tail] = Null -> Goto("head") /\ UNCHANGED <<tail, next, strong>>
  /\ UNCHANGED <<taskVars, count, head, wakerVars, execVars, thread>>

(* Pop::Inconsistant when a push is unfinished: poll wakes the executor and *)
(* yields, clear tries again.                                               *)
PopHead ==
  /\ sched.pc = "head"
  /\ CASE head = tail -> Goto("stub") /\ UNCHANGED notified
       [] head # tail /\ sched.clearing -> Goto("pop") /\ UNCHANGED notified
       [] head # tail /\ ~sched.clearing -> sched' = SchedAt("idle") /\ notified' = TRUE
  /\ UNCHANGED <<taskVars, count, queueVars, strong, wakerVars, listening, thread>>

(* The stub is pushed behind the last node: swap, then link. *)
PopPushStub ==
  /\ sched.pc = "stub"
  /\ next' = [next EXCEPT ![Stub] = Null]
  /\ head' = Stub
  /\ sched' = [sched EXCEPT !.pc = "link", !.node = head]
  /\ UNCHANGED <<taskVars, count, tail, strong, wakerVars, execVars, thread>>

PopLinkStub ==
  /\ sched.pc = "link"
  /\ next' = [next EXCEPT ![sched.node] = Stub]
  /\ sched' = [sched EXCEPT !.pc = "reread", !.node = Null]
  /\ UNCHANGED <<taskVars, count, head, tail, strong, wakerVars, execVars, thread>>

(* A node pushed before the stub may not be linked yet: then the queue is   *)
(* empty for now.                                                           *)
PopReread ==
  /\ sched.pc = "reread"
  /\ IF next[tail] # Null THEN PopValue /\ UNCHANGED strong ELSE PopEmpty /\ UNCHANGED <<tail, next>>
  /\ UNCHANGED <<taskVars, count, head, wakerVars, execVars, thread>>

------------------------------------------------------------------------------
(* Running and removing tasks. *)

(* poll's counter, up to where it exceeds the length of any list. *)
NextIteration == Min({sched.iteration + 1, Cardinality(Task) + 1})

(* Faulty TakeTask: the task is polled again although it is done. *)
TakeTaskDone ==
  LET t == sched.node
  IN  /\ sched.pc = "value" /\ ~sched.clearing
      /\ queued' = [queued EXCEPT ![t] = FALSE]
      /\ sched' = [sched EXCEPT !.pc = "drive", !.iteration = NextIteration]
      /\ UNCHANGED <<all, future, done, count, queueVars, strong, wakerVars, execVars, thread>>

(* The count of a popped task goes to the waker it is polled with; a task   *)
(* that is done only gives it up.                                           *)
TakeTask ==
  LET t == sched.node
  IN  /\ sched.pc = "value" /\ ~sched.clearing
      /\ IF done[t]
         THEN /\ count' = [count EXCEPT ![t] = @ - 1]
              /\ GotoPop
              /\ UNCHANGED queued
         ELSE /\ queued' = [queued EXCEPT ![t] = FALSE]
              /\ sched' = [sched EXCEPT !.pc = "drive", !.iteration = NextIteration]
              /\ UNCHANGED count
      /\ UNCHANGED <<all, future, done, queueVars, strong, wakerVars, execVars, thread>>

(* The future gives a clone of its waker to a thread. *)
GiveWaker(w) ==
  /\ sched.pc = "drive" /\ thread[w].pc = "none"
  /\ thread' = [thread EXCEPT ![w] = [NoWaker EXCEPT !.pc = "hold", !.task = sched.node]]
  /\ count' = [count EXCEPT ![sched.node] = @ + 1]
  /\ UNCHANGED <<taskVars, queueVars, strong, wakerVars, execVars, sched>>

(* The future wakes itself (schedular_wake_ref) while it is polled.         *)
SelfWake ==
  LET t == sched.node
  IN  /\ sched.pc = "drive" /\ ~queued[t]
      /\ queued' = [queued EXCEPT ![t] = TRUE]
      /\ count' = [count EXCEPT ![t] = @ + 1]
      /\ PushNode(t)
      /\ notified' = (notified \/ (slot /\ waking = {}))
      /\ slot' = (slot /\ waking # {})
      /\ UNCHANGED <<all, future, done, tail, strong, waking, listening, sched, thread>>

(* pop_task_all: the task is never queued again, its future is dropped and  *)
(* the list's count with it (and the waker's, when the task has finished).  *)
PopTaskAll(t, counts) ==
  /\ queued' = [queued EXCEPT ![t] = TRUE]
  /\ done' = [done EXCEPT ![t] = TRUE]
  /\ future' = [future EXCEPT ![t] = IF done[t] THEN @ ELSE IF @ = "live" THEN "dropped" ELSE "twice"]
  /\ all' = SelectSeq(all, LAMBDA u : u # t)
  /\ count' = [count EXCEPT ![t] = @ - counts]

TaskReady ==
  /\ sched.pc = "drive"
  /\ PopTaskAll(sched.node, 2)
  /\ GotoPop
  /\ UNCHANGED <<queueVars, strong, wakerVars, execVars, thread>>

(* A pending task that is queued again already counts as yielded; after     *)
(* three of them, or once every task had its turn, the scheduler yields.    *)
TaskPending ==
  LET yielded == sched.yielded + (IF queued[sched.node] THEN 1 ELSE 0)
      yield == yielded > 2 \/ sched.iteration > Len(all)
  IN  /\ sched.pc = "drive"
      /\ count' = [count EXCEPT ![sched.node] = @ - 1]
      /\ sched' = IF yield THEN SchedAt("idle")
                  ELSE [sched EXCEPT !.pc = "pop", !.node = Null, !.yielded = yielded]
      /\ notified' = (notified \/ yield)
      /\ UNCHANGED <<taskVars, queueVars, strong, wakerVars, listening, thread>>

(* Schedular::clear, when the runtime is dropped: every future is dropped,  *)
(* then the queue is emptied.                                               *)
ClearBegin ==
  /\ sched.pc = "idle"
  /\ sched' = [SchedAt("clear") EXCEPT !.clearing = TRUE]
  /\ UNCHANGED <<taskVars, count, queueVars, strong, wakerVars, execVars, thread>>

ClearTask ==
  /\ sched.pc = "clear" /\ all # <<>>
  /\ PopTaskAll(Head(all), 1)
  /\ UNCHANGED <<queueVars, strong, wakerVars, execVars, sched, thread>>

ClearDrain ==
  /\ sched.pc = "clear" /\ all = <<>>
  /\ Goto("pop")
  /\ UNCHANGED <<taskVars, count, queueVars, strong, wakerVars, execVars, thread>>

ClearRelease ==
  /\ sched.pc = "value" /\ sched.clearing
  /\ count' = [count EXCEPT ![sched.node] = @ - 1]
  /\ GotoPop
  /\ UNCHANGED <<taskVars, queueVars, strong, wakerVars, execVars, thread>>

------------------------------------------------------------------------------
(* The threads that hold wakers. *)

ThreadAt(w, pc) == thread' = [thread EXCEPT ![w].pc = pc]

CloneWaker(w, other) ==
  /\ thread[w].pc = "hold" /\ thread[other].pc = "none"
  /\ thread' = [thread EXCEPT ![other] = thread[w]]
  /\ count' = [count EXCEPT ![thread[w].task] = @ + 1]
  /\ UNCHANGED <<taskVars, queueVars, strong, wakerVars, execVars, sched>>

DropWaker(w) ==
  /\ thread[w].pc = "hold"
  /\ thread' = [thread EXCEPT ![w] = NoWaker]
  /\ count' = [count EXCEPT ![thread[w].task] = @ - 1]
  /\ UNCHANGED <<taskVars, queueVars, strong, wakerVars, execVars, sched>>

(* Faulty WakeTask: the flag is set without looking at it. *)
WakeTaskBlindly(w) ==
  /\ thread[w].pc = "hold"
  /\ queued' = [queued EXCEPT ![thread[w].task] = TRUE]
  /\ ThreadAt(w, "upgrade")
  /\ UNCHANGED <<all, future, done, count, queueVars, strong, wakerVars, execVars, sched>>

(* schedular_wake: only who sets the flag queues the task. *)
WakeTask(w) ==
  LET t == thread[w].task
  IN  /\ thread[w].pc = "hold"
      /\ IF queued[t]
         THEN /\ thread' = [thread EXCEPT ![w] = NoWaker]
              /\ count' = [count EXCEPT ![t] = @ - 1]
              /\ UNCHANGED queued
         ELSE /\ queued' = [queued EXCEPT ![t] = TRUE]
              /\ ThreadAt(w, "upgrade")
              /\ UNCHANGED count
      /\ UNCHANGED <<all, future, done, queueVars, strong, wakerVars, execVars, sched>>

(* The queue is retained, unless it is gone with its scheduler. *)
UpgradeQueue(w) ==
  /\ thread[w].pc = "upgrade"
  /\ IF strong = 0
     THEN /\ thread' = [thread EXCEPT ![w] = NoWaker]
          /\ count' = [count EXCEPT ![thread[w].task] = @ - 1]
          /\ UNCHANGED strong
     ELSE /\ strong' = strong + 1
          /\ ThreadAt(w, "push")
          /\ UNCHANGED count
  /\ UNCHANGED <<taskVars, queueVars, wakerVars, execVars, sched>>

(* Queue::push, in two steps: swap the head, link the node before. *)
PushSwap(w) ==
  /\ thread[w].pc = "push"
  /\ next' = [next EXCEPT ![thread[w].task] = Null]
  /\ head' = thread[w].task
  /\ thread' = [thread EXCEPT ![w].pc = "link", ![w].prev = head]
  /\ UNCHANGED <<taskVars, count, tail, strong, wakerVars, execVars, sched>>

PushLink(w) ==
  /\ thread[w].pc = "link"
  /\ next' = [next EXCEPT ![thread[w].prev] = thread[w].task]
  /\ thread' = [thread EXCEPT ![w] = [NoWaker EXCEPT !.pc = "wake"]]
  /\ UNCHANGED <<taskVars, count, head, tail, strong, wakerVars, execVars, sched>>

(* AtomicWaker::take: only who finds the cell unlocked takes the waker. *)
TakeLock(w) ==
  /\ thread[w].pc = "wake"
  /\ waking' = waking \cup {"WAKING"}
  /\ IF waking = {}
     THEN ThreadAt(w, "take") /\ UNCHANGED strong
     ELSE thread' = [thread EXCEPT ![w] = NoWaker] /\ strong' = strong - 1
  /\ UNCHANGED <<taskVars, count, queueVars, slot, execVars, sched>>

TakeWaker(w) ==
  /\ thread[w].pc = "take"
  /\ slot' = FALSE /\ waking' = waking \ {"WAKING"}
  /\ IF slot
     THEN ThreadAt(w, "notify") /\ UNCHANGED strong
     ELSE thread' = [thread EXCEPT ![w] = NoWaker] /\ strong' = strong - 1
  /\ UNCHANGED <<taskVars, count, queueVars, execVars, sched>>

WakeExecutor(w) ==
  /\ thread[w].pc = "notify"
  /\ notified' = TRUE
  /\ thread' = [thread EXCEPT ![w] = NoWaker] /\ strong' = strong - 1
  /\ UNCHANGED <<taskVars, count, queueVars, wakerVars, listening, sched>>

------------------------------------------------------------------------------
(* The whole system. *)

Running ==
  \/ DrivePoll \/ PollBegin \/ RegisterEnd
  \/ PopNext \/ PopHead \/ PopPushStub \/ PopLinkStub \/ PopReread
  \/ TakeTask \/ TaskReady \/ TaskPending
  \/ ClearTask \/ ClearDrain \/ ClearRelease

(* A wake that set the flag, to its end. *)
Waking(w) ==
  UpgradeQueue(w) \/ PushSwap(w) \/ PushLink(w) \/ TakeLock(w) \/ TakeWaker(w) \/ WakeExecutor(w)

Next ==
  \/ Running \/ SelfWake \/ ClearBegin
  \/ \E t \in Task : Push(t)
  \/ \E w \in Thread :
       GiveWaker(w) \/ DropWaker(w) \/ WakeTask(w) \/ Waking(w)
         \/ \E other \in Thread : CloneWaker(w, other)

Spec == Init /\ [][Next]_vars

(* The executor polls a future that was woken, a poll ends, and a thread    *)
(* that began to wake a task goes on.                                       *)
FairSpec == Spec /\ WF_vars(Running) /\ \A w \in Thread : WF_vars(Waking(w))

------------------------------------------------------------------------------
(* Properties. *)

(* Nodes that follow n in the queue, n included. *)
Chain(n) ==
  LET after[k \in 0 .. Cardinality(Node)] ==
        IF k = 0 THEN {n} ELSE after[k - 1] \cup {next[m] : m \in after[k - 1] \ {Null}}
  IN  after[Cardinality(Node)] \ {Null}

(* Tasks in the queue: behind the tail, or behind a node not linked yet. *)
InQueue ==
  (Chain(tail) \cup UNION {Chain(thread[w].task) : w \in {v \in Thread : thread[v].pc = "link"}}
     \cup (IF sched.pc = "link" THEN Chain(Stub) ELSE {})) \ {Stub}

(* Owners of a task: the list, the queue while it exists, the polling        *)
(* thread, and wakers.                                                      *)
Owners(t) ==
  (IF t \in Range(all) THEN 1 ELSE 0) + (IF strong > 0 /\ t \in InQueue THEN 1 ELSE 0)
    + (IF sched.pc \in {"value", "drive"} /\ sched.node = t THEN 1 ELSE 0)
    + Cardinality({w \in Thread : thread[w].pc \in {"hold", "upgrade", "push"}
                                    /\ thread[w].task = t})

(* Tasks that were still in the queue when it was freed: a wake that         *)
(* retained the queue before clear emptied it may push afterwards, and       *)
(* dropping the queue does not pop.                                          *)
Leaked == IF strong = 0 THEN InQueue ELSE {}

(* A task's reference count is the number of its owners (the list of them   *)
(* in Schedular::poll), so it is never freed while one of them can reach it. *)
(* It is freed with the last of them, except that a leaked task keeps the    *)
(* count of the queue for ever; its future is dropped even so.               *)
CountsAreOwners ==
  \A t \in Task :
    /\ count[t] = Owners(t) + (IF t \in Leaked THEN 1 ELSE 0)
    /\ t \in Leaked => future[t] = "dropped"

(* Nobody writes the link of a freed node: the node before a node that is   *)
(* being pushed stays in the queue until it is linked (Queue::push).        *)
NoLinkToFreed ==
  /\ \A w \in Thread : thread[w].pc = "link" => thread[w].prev = Stub \/ count[thread[w].prev] > 0
  /\ sched.pc = "link" => sched.node = Stub \/ count[sched.node] > 0

(* The memory of a task lives as long as somebody can reach it: its owners, *)
(* or a push that has yet to link the node behind it.  It outlives them only *)
(* when the task is leaked in the queue of a scheduler that was cleared.     *)
TasksLiveAsLongAsUsed == CountsAreOwners /\ NoLinkToFreed

(* The assert in poll: a task taken from the queue that is not done has its *)
(* flag set, so it was queued once.                                         *)
PoppedIsQueued ==
  sched.pc = "value" /\ ~done[sched.node] => queued[sched.node]

LiveTasks == {t \in Task : future[t] = "live"}

Queue == INSTANCE TaskQueue WITH live <- LiveTasks, ready <- {t \in LiveTasks : queued[t]}

(* The scheduler implements the task queue: a task woken from any thread,   *)
(* at any moment of a poll, is polled again or dropped.                     *)
SchedularImplementsTaskQueue == Queue!Spec
=============================================================================
