---------------------------- MODULE WorkerProofs ----------------------------
(***************************************************************************)
(* What the runtime thread may rely on: no request is lost or duplicated,  *)
(* the workers implement CompileService, the pending signal covers the     *)
(* completion channel, and the usage counters are exact.                   *)
(*                                                                         *)
(* All of it follows from where the requests are (PlacesInv of module      *)
(* BackgroundCompilerProofs).  A request that is neither waiting nor       *)
(* decided is outstanding, so a step is a step of the service as soon as   *)
(* the waiting and the decided requests change as the service says.  The   *)
(* signal measures the completion channel and the workers about to send    *)
(* (SignalInv); the usage, the requests admitted and not released yet      *)
(* (UsageInv).                                                             *)
(***************************************************************************)
EXTENDS BackgroundCompilerProofs, SumTheorems

------------------------------------------------------------------------------
(* Counted as in Copies, a request is in one place. *)

(* A sequence without repetitions holds an element once. *)
LEMMA PositionsOnce ==
  ASSUME NEW s \in Seq(Job), IsInjective(s), NEW j
  PROVE  Cardinality(Positions(s, j)) = IF j \in Elements(s) THEN 1 ELSE 0
<1>1. CASE j \in Elements(s)
  <2>1. PICK i \in DOMAIN s : s[i] = j
    BY <1>1 DEF Elements
  <2>2. Positions(s, j) = {i}
    BY <2>1 DEF Positions, IsInjective
  <2> QED  BY <1>1, <2>2, FS_Singleton
<1>2. CASE j \notin Elements(s)
  <2>1. Positions(s, j) = {}
    BY <1>2 DEF Positions, Elements
  <2> QED  BY <1>2, <2>1, FS_EmptySet
<1> QED  BY <1>1, <1>2

(* A request in one place is counted once. *)
LEMMA PlacesCountedOnce ==
  ASSUME PlacesInv
  PROVE  RequestIsInOnePlace
<1> SUFFICES ASSUME NEW j \in Job  PROVE Copies(j) = 1
  BY DEF RequestIsInOnePlace
<1> DEFINE W == {w \in Worker : worker[w].job = j
                                /\ worker[w].pc \in {"compile", "send", "overflow"}}
<1>1. Cardinality(W) = IF j \in Carried THEN 1 ELSE 0
  <2>1. CASE j \in Carried
    <3>1. PICK w \in W : TRUE
      BY <2>1 DEF Carried
    <3>2. W = {w}
      BY <3>1 DEF PlacesInv
    <3> QED  BY <2>1, <3>2, FS_Singleton
  <2>2. CASE j \notin Carried
    <3>1. W = {}
      BY <2>2 DEF Carried
    <3> QED  BY <2>2, <3>1, FS_EmptySet
  <2> QED  BY <2>1, <2>2
<1>2. /\ Cardinality(Positions(queue, j)) = IF j \in Elements(queue) THEN 1 ELSE 0
      /\ Cardinality(Positions(channel, j)) = IF j \in Elements(channel) THEN 1 ELSE 0
      /\ Cardinality(Positions(completions, j)) = IF j \in Elements(completions) THEN 1 ELSE 0
      /\ Cardinality(Positions(overflow, j)) = IF j \in Elements(overflow) THEN 1 ELSE 0
  BY PlacesFacts, PositionsOnce
<1>3. runtime.job = j <=> j \in InHand
  BY DEF InHand
<1>4. Copies(j) = (IF j \in fresh THEN 1 ELSE 0) + (IF j \in decided THEN 1 ELSE 0)
                   + (IF j \in InHand THEN 1 ELSE 0)
                   + (IF j \in Elements(queue) THEN 1 ELSE 0)
                   + (IF j \in Elements(channel) THEN 1 ELSE 0)
                   + (IF j \in Elements(completions) THEN 1 ELSE 0)
                   + (IF j \in Elements(overflow) THEN 1 ELSE 0)
                   + (IF j \in Carried THEN 1 ELSE 0)
  BY <1>1, <1>2, <1>3 DEF Copies
<1>5. /\ j \in fresh \cup decided \cup InHand \cup Elements(queue) \cup Elements(channel)
            \cup Elements(completions) \cup Elements(overflow) \cup Carried
      /\ IsPartition(fresh, decided, InHand, Elements(queue), Elements(channel),
                     Elements(completions), Elements(overflow), Carried)
  BY PlacesFacts DEF IsPartition
<1> QED  BY <1>4, <1>5 DEF IsPartition

(* Every request is in exactly one place at every moment, for any number of *)
(* requests and workers and any capacities.                                 *)
THEOREM RequestsStayInOnePlace == Spec => []RequestIsInOnePlace
BY PlacesInvariant, PlacesCountedOnce, PTL

------------------------------------------------------------------------------
(* The workers implement CompileService. *)

Waiting == fresh \cup Elements(queue) \cup InHand

Outstanding == Elements(channel) \cup Elements(completions) \cup Elements(overflow) \cup Carried

(* What is neither waiting nor decided is outstanding. *)
Accounted ==
  /\ Outstanding = Job \ (Waiting \cup decided)
  /\ Waiting \subseteq Job /\ decided \subseteq Job /\ Waiting \cap decided = {}

LEMMA PlacesAreAccounted ==
  ASSUME PlacesInv
  PROVE  Accounted
BY PlacesFacts DEF Waiting, Outstanding, Accounted, IsPartition

(* A step that leaves the waiting requests alone applies some completions,  *)
(* or none.                                                                 *)
LEMMA AppliesOrStutters ==
  ASSUME Accounted, Accounted', Waiting' = Waiting,
         NEW S \in SUBSET Outstanding, decided' = decided \cup S
  PROVE  [Service!ServiceNext]_Service!serviceVars
<1>1. Outstanding' = Outstanding \ S /\ S \in SUBSET Job
  BY DEF Accounted
<1>2. CASE S = {}
  <2>1. Outstanding' = Outstanding /\ decided' = decided
    BY <1>1, <1>2
  <2> QED  BY <2>1 DEF Service!serviceVars, Waiting, Outstanding
<1>3. CASE S # {}
  <2>1. Service!Apply(S)
    BY <1>1, <1>3 DEF Service!Apply, Waiting, Outstanding
  <2> QED  BY <1>1, <2>1 DEF Service!ServiceNext
<1> QED  BY <1>2, <1>3

(* A step that keeps what is waiting and what is outstanding is a stutter of
   the service. *)
LEMMA Stutters ==
  ASSUME Accounted, Accounted', Waiting' = Waiting, decided' = decided
  PROVE  [Service!ServiceNext]_Service!serviceVars
<1>1. {} \in SUBSET Outstanding /\ decided' = decided \cup {}
  OBVIOUS
<1> QED  BY <1>1, AppliesOrStutters

LEMMA RollbackKeepsWaiting ==
  ASSUME PlacesInv, runtime.pc \in {"start", "admit", "send"}, Rollback, fresh' = fresh
  PROVE  Waiting' = Waiting
<1>1. queue' = <<runtime.job>> \o queue
  BY DEF Rollback
<1>2. runtime.job \in Job /\ InHand = {runtime.job}
  BY HandFacts
<1>3. Elements(queue') = Elements(queue) \cup {runtime.job}
  BY <1>1, <1>2, PlacesFacts, FrontedElements
<1>4. InHand' = {}
  BY RolledBack
<1> QED  BY <1>2, <1>3, <1>4 DEF Waiting

LEMMA DispatchKeepsWaiting ==
  ASSUME PlacesInv, DispatchNext
  PROVE  Waiting' = Waiting
<1>1. runtime.pc = "idle" /\ fresh' = fresh
  BY DEF DispatchNext, IsIdle
<1>2. InHand = {}
  BY <1>1, HandFacts
<1>3. CASE queue' = queue /\ runtime' = runtime
  BY <1>1, <1>3 DEF Waiting, InHand
<1>4. CASE queue # <<>> /\ queue' = Tail(queue) /\ runtime' = At("start", Head(queue))
  <2>1. /\ Head(queue) \in Elements(queue) /\ Head(queue) \in Job
        /\ Elements(queue') = Elements(queue) \ {Head(queue)}
    BY <1>4, PlacesFacts, HeadAndTail
  <2>2. InHand' = {Head(queue)}
    BY <1>4, <2>1 DEF At, InHand
  <2> QED  BY <1>1, <1>2, <2>1, <2>2 DEF Waiting
<1> QED  BY <1>3, <1>4 DEF DispatchNext

LEMMA SubmitKeepsWaiting ==
  ASSUME PlacesInv, NEW j \in Job, Submit(j)
  PROVE  Waiting' = Waiting /\ decided' = decided
<1>1. /\ j \in fresh /\ fresh' = fresh \ {j} /\ runtime' = runtime /\ decided' = decided
      /\ queue' = Append(queue, j) \/ queue' = <<j>> \o queue
  BY DEF Submit
<1>2. Elements(queue') = Elements(queue) \cup {j}
  <2>1. queue \in Seq(Job) /\ IsInjective(queue) /\ j \notin Elements(queue)
    BY <1>1, PlacesFacts DEF IsPartition
  <2>2. CASE queue' = Append(queue, j)
    BY <2>1, <2>2, AppendedElements
  <2>3. CASE queue' = <<j>> \o queue
    BY <2>1, <2>3, FrontedElements
  <2> QED  BY <1>1, <2>2, <2>3
<1> QED  BY <1>1, <1>2 DEF Waiting, InHand

(* Taking the lead out of the queue, and delivering results, are the service's
   steps. *)
LEMMA SendImplements ==
  ASSUME PlacesInv, Accounted, Accounted', Send
  PROVE  [Service!ServiceNext]_Service!serviceVars
<1>1. runtime.pc = "send" /\ fresh' = fresh /\ decided' = decided
  BY DEF Send
<1>2. runtime.job \in Job /\ InHand = {runtime.job} /\ runtime.job \notin Elements(queue)
  BY <1>1, HandFacts
<1>3. CASE queue' = queue /\ runtime' = At("idle", NoJob)
  <2>1. InHand' = {}
    BY <1>3, WorkerAssumption DEF InHand, At
  <2>2. runtime.job \notin fresh
    BY <1>2, PlacesFacts DEF IsPartition
  <2>3. runtime.job \in Waiting /\ Waiting' = Waiting \ {runtime.job}
    BY <1>1, <1>2, <1>3, <2>1, <2>2 DEF Waiting
  <2>4. Outstanding' = Outstanding \cup {runtime.job}
    BY <1>1, <2>3 DEF Accounted
  <2>5. Service!HandOver(runtime.job)
    BY <1>1, <2>3, <2>4 DEF Service!HandOver, Waiting, Outstanding
  <2> QED  BY <1>2, <2>5 DEF Service!ServiceNext
<1>4. CASE Rollback
  BY <1>1, <1>4, RollbackKeepsWaiting, Stutters
<1> QED  BY <1>3, <1>4 DEF Send

LEMMA DrainImplements ==
  ASSUME PlacesInv, Accounted, Accounted', DrainCompletions, fresh' = fresh, queue' = queue
  PROVE  [Service!ServiceNext]_Service!serviceVars
<1>1. PICK S \in SUBSET Elements(completions) : decided' = decided \cup S
  BY CompletionsDrained
<1>2. S \in SUBSET Outstanding
  BY DEF Outstanding
<1>3. InHand' = InHand
  <2>1. CASE runtime' = runtime
    BY <2>1 DEF InHand
  <2>2. CASE runtime.pc = "drain" /\ runtime' = At("stopped", NoJob)
    BY <2>2, HandFacts, WorkerAssumption DEF At, InHand
  <2> QED  BY <2>1, <2>2, CompletionsDrained
<1>4. Waiting' = Waiting
  BY <1>3 DEF Waiting
<1> QED  BY <1>1, <1>2, <1>4, AppliesOrStutters

(* Every step of the workers is a step of the service or a stutter. *)
LEMMA StepImplements ==
  ASSUME PlacesInv, Accounted, Accounted', [Next]_vars
  PROVE  [Service!ServiceNext]_Service!serviceVars
<1>1. ASSUME NEW j \in Job, Submit(j)  PROVE [Service!ServiceNext]_Service!serviceVars
  BY <1>1, SubmitKeepsWaiting, Stutters
<1>2. CASE DispatchNext
  <2>1. PICK S \in SUBSET Elements(overflow) : decided' = decided \cup S
    BY <1>2, OverflowDrained, WorkerAssumption DEF DispatchNext
  <2>2. S \in SUBSET Outstanding
    BY DEF Outstanding
  <2> QED  BY <1>2, <2>1, <2>2, DispatchKeepsWaiting, AppliesOrStutters
<1>3. CASE StartWorkers
  <2>1. runtime'.job = runtime.job /\ UNCHANGED <<fresh, queue, decided>>
    BY <1>3 DEF StartWorkers, At
  <2>2. Waiting' = Waiting
    BY <2>1 DEF Waiting, InHand
  <2> QED  BY <2>1, <2>2, Stutters
<1>4. CASE StartFails
  <2>1. runtime.pc = "start" /\ Rollback /\ UNCHANGED <<fresh, decided>>
    BY <1>4 DEF StartFails
  <2> QED  BY <2>1, RollbackKeepsWaiting, Stutters
<1>5. CASE Admit
  <2>1. runtime.pc = "admit" /\ UNCHANGED <<fresh, decided>>
    BY <1>5 DEF Admit
  <2>2. CASE runtime' = At("send", runtime.job) /\ queue' = queue
    <3>1. Waiting' = Waiting
      BY <2>1, <2>2 DEF Waiting, InHand, At
    <3> QED  BY <2>1, <3>1, Stutters
  <2>3. CASE Rollback
    BY <2>1, <2>3, RollbackKeepsWaiting, Stutters
  <2> QED  BY <1>5, <2>2, <2>3 DEF Admit
<1>6. CASE Send
  BY <1>6, SendImplements
<1>7. CASE PollCompletions \/ ShutdownDrain
  BY <1>7, DrainImplements DEF PollCompletions, ShutdownDrain
<1>8. CASE Shutdown
  <2>1. /\ runtime.pc = "idle" /\ runtime' = At("join", NoJob)
        /\ UNCHANGED <<fresh, queue, decided>>
    BY <1>8 DEF Shutdown, IsIdle
  <2>2. InHand = {} /\ InHand' = {}
    BY <2>1, HandFacts, WorkerAssumption DEF InHand, At
  <2>3. Waiting' = Waiting
    BY <2>1, <2>2 DEF Waiting
  <2> QED  BY <2>1, <2>3, Stutters
<1>9. CASE Joined
  <2>1. /\ runtime.pc = "join" /\ runtime' = At("drain", NoJob)
        /\ UNCHANGED <<fresh, queue>> /\ DrainOverflow(Len(overflow))
    BY <1>9 DEF Joined
  <2>2. Len(overflow) \in Nat
    BY PlacesFacts
  <2>3. PICK S \in SUBSET Elements(overflow) : decided' = decided \cup S
    BY <2>1, <2>2, OverflowDrained
  <2>4. S \in SUBSET Outstanding
    BY DEF Outstanding
  <2>5. InHand = {} /\ InHand' = {}
    BY <2>1, HandFacts, WorkerAssumption DEF InHand, At
  <2>6. Waiting' = Waiting
    BY <2>1, <2>5 DEF Waiting
  <2> QED  BY <2>3, <2>4, <2>6, AppliesOrStutters
<1>10. ASSUME NEW w \in Worker, RunWorker(w)  PROVE [Service!ServiceNext]_Service!serviceVars
  <2>1. UNCHANGED <<fresh, queue, decided, runtime>>
    BY <1>10 DEF RunWorker, Receive, Exit, Compile, SendCompletion, PushOverflow, ReleaseJob,
                 ReleaseSnapshots, ReleaseIr, hostVars
  <2>2. Waiting' = Waiting
    BY <2>1 DEF Waiting, InHand
  <2> QED  BY <2>1, <2>2, Stutters
<1>11. CASE UNCHANGED vars
  <2>1. UNCHANGED <<fresh, queue, decided, runtime>>
    BY <1>11 DEF vars, hostVars
  <2>2. Waiting' = Waiting
    BY <2>1 DEF Waiting, InHand
  <2> QED  BY <2>1, <2>2, Stutters
<1> QED  BY <1>1, <1>2, <1>3, <1>4, <1>5, <1>6, <1>7, <1>8, <1>9, <1>10, <1>11 DEF Next

LEMMA StartImplements ==
  ASSUME Init
  PROVE  Service!ServiceInit
<1>1. Elements(<<>>) = {}
  BY DEF Elements
<1>2. InHand = {} /\ Carried = {}
  BY WorkerAssumption DEF Init, At, InHand, Carried
<1> QED  BY <1>1, <1>2 DEF Init, Service!ServiceInit

(* The workers, their channels and the rollbacks implement CompileService:  *)
(* a request is handed over once and its completion is applied once,        *)
(* whatever the interleaving and the capacities.                            *)
THEOREM WorkersRefineService == Spec => WorkersImplementService
<1>1. Init => Service!ServiceInit
  BY StartImplements
<1>2. PlacesInv => Accounted
  BY PlacesAreAccounted
<1>3. PlacesInv /\ Accounted /\ Accounted' /\ [Next]_vars
        => [Service!ServiceNext]_Service!serviceVars
  BY StepImplements
<1> QED  BY <1>1, <1>2, <1>3, PlacesInvariant, PTL
            DEF Spec, WorkersImplementService, Service!ServiceSpec

------------------------------------------------------------------------------
(* The pending signal. *)

(* The workers at one place of their loop. *)
InStage(p) == {w \in Worker : worker[w].pc = p}

(* Workers that raised the signal and did not send yet. *)
Sending == InStage("send")

(* The signal counts the completions in the channel and those about to be   *)
(* sent, so that a drain never takes more than was signalled.               *)
SignalInv == pending = Len(completions) + Cardinality(Sending)

LEMMA StageType ==
  ASSUME NEW p
  PROVE  IsFiniteSet(InStage(p)) /\ Cardinality(InStage(p)) \in Nat
<1>1. IsFiniteSet(InStage(p))
  BY FS_Subset, WorkerAssumption DEF InStage
<1> QED  BY <1>1, FS_CardinalityType

(* A stage changes by at most the worker that takes the step. *)
LEMMA StageAfter ==
  ASSUME NEW p, NEW w \in Worker, \A v \in Worker : v # w => worker'[v] = worker[v]
  PROVE  /\ worker[w].pc # p /\ worker'[w].pc # p => InStage(p)' = InStage(p)
         /\ worker[w].pc # p /\ worker'[w].pc = p
              => Cardinality(InStage(p)') = Cardinality(InStage(p)) + 1
         /\ worker[w].pc = p /\ worker'[w].pc # p
              => /\ Cardinality(InStage(p)) > 0
                 /\ Cardinality(InStage(p)') = Cardinality(InStage(p)) - 1
<1>1. worker[w].pc # p /\ worker'[w].pc # p => InStage(p)' = InStage(p)
  BY DEF InStage
<1>2. ASSUME worker[w].pc # p, worker'[w].pc = p
      PROVE  Cardinality(InStage(p)') = Cardinality(InStage(p)) + 1
  <2>1. w \notin InStage(p) /\ InStage(p)' = InStage(p) \cup {w}
    BY <1>2 DEF InStage
  <2> QED  BY <2>1, StageType, FS_AddElement
<1>3. ASSUME worker[w].pc = p, worker'[w].pc # p
      PROVE  /\ Cardinality(InStage(p)) > 0
             /\ Cardinality(InStage(p)') = Cardinality(InStage(p)) - 1
  <2>1. w \in InStage(p) /\ InStage(p)' = InStage(p) \ {w}
    BY <1>3 DEF InStage
  <2>2. Cardinality(InStage(p)) # 0
    BY <2>1, StageType, FS_EmptySet
  <2> QED  BY <2>1, <2>2, StageType, FS_RemoveElement
<1> QED  BY <1>1, <1>2, <1>3

LEMMA SendingType == Cardinality(Sending) \in Nat
BY StageType DEF Sending

(* How a step changes the workers that are about to signal. *)
LEMMA SendingAfter ==
  ASSUME NEW w \in Worker, \A v \in Worker : v # w => worker'[v] = worker[v]
  PROVE  /\ worker[w].pc # "send" /\ worker'[w].pc # "send" => Sending' = Sending
         /\ worker[w].pc # "send" /\ worker'[w].pc = "send"
              => Cardinality(Sending') = Cardinality(Sending) + 1
         /\ worker[w].pc = "send" /\ worker'[w].pc # "send"
              => /\ Cardinality(Sending) > 0
                 /\ Cardinality(Sending') = Cardinality(Sending) - 1
BY StageAfter DEF Sending

(* Every step of a worker's loop changes one worker. *)
LEMMA OneWorkerSteps ==
  ASSUME PlacesInv, NEW w \in Worker, NEW from, NEW to, WorkerStep(w, from, to)
  PROVE  /\ worker[w].pc = from /\ worker'[w] = to
         /\ \A v \in Worker : v # w => worker'[v] = worker[v]
<1>1. worker \in [Worker -> WorkerState]
  BY DEF PlacesInv, PlacesTypeOK
<1> QED  BY <1>1 DEF WorkerStep

LEMMA WorkerKeepsSignal ==
  ASSUME PlacesInv, SignalInv, NEW w \in Worker, RunWorker(w)
  PROVE  SignalInv'
<1>1. /\ pending \in Nat /\ completions \in Seq(Job) /\ Len(completions) \in Nat
      /\ pending = Len(completions) + Cardinality(Sending) /\ Cardinality(Sending) \in Nat
  BY PlacesFacts, SendingType DEF SignalInv
<1>2. ASSUME NEW from, NEW to, WorkerStep(w, from, to), from # "send", to.pc # "send",
             pending' = pending, completions' = completions
      PROVE  SignalInv'
  <2>1. Sending' = Sending
    BY <1>2, OneWorkerSteps, SendingAfter
  <2> QED  BY <1>2, <2>1 DEF SignalInv
<1>3. CASE Receive(w)
  BY <1>2, <1>3 DEF Receive, At, mailVars
<1>4. CASE Exit(w)
  BY <1>2, <1>4 DEF Exit, At, mailVars
<1>5. CASE Compile(w)
  <2>1. /\ WorkerStep(w, "compile", At("send", worker[w].job))
        /\ pending' = pending + 1 /\ completions' = completions
    BY <1>5 DEF Compile
  <2>2. /\ worker[w].pc = "compile" /\ worker'[w].pc = "send"
        /\ \A v \in Worker : v # w => worker'[v] = worker[v]
    BY <2>1, OneWorkerSteps DEF At
  <2>3. Cardinality(Sending') = Cardinality(Sending) + 1
    BY <2>2, SendingAfter
  <2> QED  BY <1>1, <2>1, <2>3 DEF SignalInv
<1>6. CASE SendCompletion(w)
  <2>1. CASE WorkerStep(w, "send", At("release", worker[w].job))
             /\ completions' = Append(completions, worker[w].job) /\ pending' = pending
    <3>1. /\ worker[w].pc = "send" /\ worker'[w].pc # "send"
          /\ \A v \in Worker : v # w => worker'[v] = worker[v]
      BY <2>1, OneWorkerSteps DEF At
    <3>2. Cardinality(Sending') = Cardinality(Sending) - 1
      BY <3>1, SendingAfter
    <3>3. Len(completions') = Len(completions) + 1
      BY <1>1, <2>1
    <3> QED  BY <1>1, <2>1, <3>2, <3>3 DEF SignalInv
  <2>2. CASE WorkerStep(w, "send", At("overflow", worker[w].job)) /\ completions' = completions
             /\ pending' = IF pending > 0 THEN pending - 1 ELSE 0
    <3>1. /\ worker[w].pc = "send" /\ worker'[w].pc # "send"
          /\ \A v \in Worker : v # w => worker'[v] = worker[v]
      BY <2>2, OneWorkerSteps DEF At
    <3>2. Cardinality(Sending) > 0 /\ Cardinality(Sending') = Cardinality(Sending) - 1
      BY <3>1, SendingAfter
    <3> QED  BY <1>1, <2>2, <3>2 DEF SignalInv
  <2> QED  BY <1>6, <2>1, <2>2 DEF SendCompletion
<1>7. CASE PushOverflow(w)
  BY <1>2, <1>7 DEF PushOverflow, At
<1>8. CASE ReleaseJob(w)
  BY <1>2, <1>8 DEF ReleaseJob, At, mailVars
<1>9. CASE ReleaseSnapshots(w)
  BY <1>2, <1>9 DEF ReleaseSnapshots, At, mailVars
<1>10. CASE ReleaseIr(w)
  BY <1>2, <1>10 DEF ReleaseIr, At, mailVars
<1> QED  BY <1>3, <1>4, <1>5, <1>6, <1>7, <1>8, <1>9, <1>10 DEF RunWorker

LEMMA NextKeepsSignal ==
  ASSUME PlacesInv, SignalInv, [Next]_vars
  PROVE  SignalInv'
<1>1. ASSUME UNCHANGED <<pending, completions, worker>>  PROVE SignalInv'
  BY <1>1 DEF SignalInv, Sending, InStage
<1>2. ASSUME NEW j \in Job, Submit(j)  PROVE SignalInv'
  BY <1>1, <1>2 DEF Submit, mailVars
<1>3. CASE DispatchNext \/ StartWorkers \/ Admit \/ Send \/ Shutdown \/ Joined
  BY <1>1, <1>3 DEF DispatchNext, StartWorkers, Admit, Send, Shutdown, Joined, mailVars
<1>4. CASE StartFails
  <2>1. /\ UNCHANGED <<pending, completions>> /\ ~started
        /\ worker' = [w \in Worker |-> At("exited", NoJob)]
    BY <1>4 DEF StartFails, mailVars
  <2>2. Sending = {} /\ Sending' = {}
    BY <2>1 DEF Sending, InStage, At, PlacesInv, HandsInv
  <2> QED  BY <2>1, <2>2 DEF SignalInv
<1>5. CASE PollCompletions \/ ShutdownDrain
  <2>1. DrainCompletions /\ worker' = worker
    BY <1>5 DEF PollCompletions, ShutdownDrain
  <2>2. PICK n \in 0 .. Len(completions) :
              /\ Len(completions') = Len(completions) - n
              /\ pending' = IF n =< pending THEN pending - n ELSE 0
    BY <2>1, CompletionsDrained
  <2>3. Sending' = Sending /\ Cardinality(Sending) \in Nat /\ Len(completions) \in Nat
    <3>1. Sending' = Sending
      BY <2>1, Zenon DEF Sending, InStage
    <3>2. Cardinality(Sending) \in Nat
      BY SendingType, Zenon
    <3>3. Len(completions) \in Nat
      BY PlacesFacts
    <3> QED  BY <3>1, <3>2, <3>3, Zenon
  <2>4. pending = Len(completions) + Cardinality(Sending)
    BY DEF SignalInv
  <2>5. pending' = Len(completions') + Cardinality(Sending)
    BY <2>2, <2>3, <2>4
  <2> QED  BY <2>3, <2>5 DEF SignalInv
<1>6. CASE UNCHANGED vars
  BY <1>1, <1>6 DEF vars, mailVars
<1> QED  BY <1>2, <1>3, <1>4, <1>5, <1>6, WorkerKeepsSignal DEF Next

LEMMA SignalStart ==
  ASSUME Init
  PROVE  SignalInv
<1>1. Sending = {}
  BY DEF Init, At, Sending, InStage
<1> QED  BY <1>1, FS_EmptySet DEF Init, SignalInv

(* The pending signal never misses a completion in the channel. *)
THEOREM SignalCoversCompletions == Spec => []PendingCoversChannel
<1>1. Init => SignalInv
  BY SignalStart
<1>2. PlacesInv /\ SignalInv /\ [Next]_vars => SignalInv'
  BY NextKeepsSignal
<1>3. PlacesInv /\ SignalInv => PendingCoversChannel
  <2> SUFFICES ASSUME PlacesInv, SignalInv  PROVE Len(completions) =< pending
    BY DEF PendingCoversChannel
  <2>1. Len(completions) \in Nat /\ Cardinality(Sending) \in Nat
    BY PlacesFacts, SendingType
  <2> QED  BY <2>1 DEF SignalInv
<1> QED  BY <1>1, <1>2, <1>3, PlacesInvariant, PTL DEF Spec

------------------------------------------------------------------------------
(* The usage counters. *)

Weight == [j \in Job |-> RequestBytes(j)]

(* The stages in which a worker has a request in hand. *)
IsStages(stages) == "idle" \notin stages /\ "exited" \notin stages

UsageInv ==
  /\ usage \in [jobs : Nat, snapshots : Nat, ir : Nat]
  /\ UsageIsExact

LEMMA StagesFacts ==
  /\ IsStages(JobStages) /\ IsStages(SnapshotStages) /\ IsStages(IrStages)
  /\ JobStages \subseteq SnapshotStages /\ SnapshotStages \subseteq IrStages
  /\ "release" \in JobStages
  /\ "release_snapshots" \in SnapshotStages \ JobStages
  /\ "release_ir" \in IrStages \ SnapshotStages
BY DEF IsStages, JobStages, SnapshotStages, IrStages

(* What UsageInv says, in terms of Weight. *)
LEMMA UsageFacts ==
  UsageInv <=>
    /\ usage \in [jobs : Nat, snapshots : Nat, ir : Nat]
    /\ usage.jobs = Cardinality(CountedIn(JobStages))
    /\ usage.snapshots = SumFunctionOnSet(Weight, CountedIn(SnapshotStages))
    /\ usage.ir = IrFactor * SumFunctionOnSet(Weight, CountedIn(IrStages))
    /\ usage.snapshots =< MaxSnapshotBytes /\ usage.ir =< MaxIrBytes
BY Zenon DEF UsageInv, UsageIsExact, BytesOf, Weight

(* The bytes of a request are a natural number. *)
LEMMA WeightType == \A j \in Job : Weight[j] = RequestBytes(j) /\ Weight[j] \in Nat
<1> SUFFICES ASSUME NEW j \in Job  PROVE RequestBytes(j) \in Nat
  BY DEF Weight
<1>1. SnapshotBytes[j] \in Nat /\ InlineBytes[j] \in Nat
  BY WorkerAssumption
<1> QED  BY <1>1 DEF RequestBytes

LEMMA CountedType ==
  ASSUME PlacesInv, NEW stages, IsStages(stages)
  PROVE  /\ CountedIn(stages) \subseteq Job /\ IsFiniteSet(CountedIn(stages))
         /\ Cardinality(CountedIn(stages)) \in Nat
         /\ SumFunctionOnSet(Weight, CountedIn(stages)) \in Nat
<1>1. Elements(channel) \subseteq Job
  BY PlacesFacts DEF IsPartition
<1>2. HeldIn(stages) \subseteq Job
  BY DEF HeldIn, IsStages, PlacesInv, HandsInv
<1>3. (IF runtime.pc = "send" THEN {runtime.job} ELSE {}) \subseteq Job
  BY HandFacts
<1>4. CountedIn(stages) \subseteq Job
  BY <1>1, <1>2, <1>3 DEF CountedIn
<1>5. IsFiniteSet(CountedIn(stages))
  BY <1>4, FS_Subset, WorkerAssumption
<1>6. \A j \in CountedIn(stages) : Weight[j] \in Nat
  BY <1>4, WeightType
<1> HIDE DEF CountedIn
<1> QED  BY <1>4, <1>5, <1>6, FS_CardinalityType, SumType

(* A request before its admission, and one being received, is not held. *)
LEMMA HeldIsApart ==
  ASSUME PlacesInv, NEW stages, IsStages(stages)
  PROVE  \A j \in HeldIn(stages) : j \notin Elements(channel) /\ j \notin InHand
<1> SUFFICES ASSUME NEW v \in Worker, worker[v].pc \in stages
             PROVE  worker[v].job \notin Elements(channel) /\ worker[v].job \notin InHand
  BY DEF HeldIn
<1>1. worker[v].pc \notin {"idle", "exited"}
  BY DEF IsStages
<1>2. worker[v].pc \in {"compile", "send", "overflow"} \cup Released
  BY <1>1 DEF PlacesInv, PlacesTypeOK, WorkerState, Released
<1>3. worker[v].job \in Carried \cup decided \cup Elements(completions) \cup Elements(overflow)
  BY <1>2 DEF PlacesInv, Carried
<1>4. worker[v].job \in Job
  BY <1>1 DEF PlacesInv, HandsInv
<1> QED  BY <1>3, <1>4, PlacesFacts DEF IsPartition

(* What the workers hold changes by at most the request of the worker that  *)
(* takes the step.                                                          *)
LEMMA HeldAfter ==
  ASSUME PlacesInv, NEW w \in Worker, \A v \in Worker : v # w => worker'[v] = worker[v],
         NEW stages, IsStages(stages)
  PROVE  /\ worker[w].pc \notin stages /\ worker'[w].pc \notin stages
              => HeldIn(stages)' = HeldIn(stages)
         /\ worker[w].pc \in stages /\ worker'[w].pc \in stages
              /\ worker'[w].job = worker[w].job => HeldIn(stages)' = HeldIn(stages)
         /\ worker[w].pc \notin stages /\ worker'[w].pc \in stages
              => HeldIn(stages)' = HeldIn(stages) \cup {worker'[w].job}
         /\ worker[w].pc \in stages /\ worker'[w].pc \notin stages
              => /\ worker[w].job \in HeldIn(stages)
                 /\ HeldIn(stages)' = HeldIn(stages) \ {worker[w].job}
<1>1. \A v \in Worker : worker[v].pc \in stages => worker[v].job \in Job
  BY DEF PlacesInv, HandsInv, IsStages
<1>2. \A v \in Worker : v # w /\ worker[v].pc \in stages => worker[v].job # worker[w].job
  BY <1>1 DEF PlacesInv
<1>3. \A x : x \in HeldIn(stages) <=> \E v \in Worker : worker[v].pc \in stages /\ worker[v].job = x
  BY Zenon DEF HeldIn
<1>4. \A x : x \in HeldIn(stages)' <=>
        \E v \in Worker : worker'[v].pc \in stages /\ worker'[v].job = x
  BY Zenon DEF HeldIn
<1>5. \A x : x \in HeldIn(stages)' <=>
        \/ worker'[w].pc \in stages /\ worker'[w].job = x
        \/ \E v \in Worker : v # w /\ worker[v].pc \in stages /\ worker[v].job = x
  BY <1>4
<1>6. \A x : x \in HeldIn(stages) <=>
        \/ worker[w].pc \in stages /\ worker[w].job = x
        \/ \E v \in Worker : v # w /\ worker[v].pc \in stages /\ worker[v].job = x
  BY <1>3
<1>7. worker[w].pc \notin stages /\ worker'[w].pc \notin stages => HeldIn(stages)' = HeldIn(stages)
  BY <1>5, <1>6
<1>8. worker[w].pc \in stages /\ worker'[w].pc \in stages /\ worker'[w].job = worker[w].job
        => HeldIn(stages)' = HeldIn(stages)
  BY <1>5, <1>6
<1>9. worker[w].pc \notin stages /\ worker'[w].pc \in stages
        => HeldIn(stages)' = HeldIn(stages) \cup {worker'[w].job}
  BY <1>5, <1>6
<1>10. worker[w].pc \in stages /\ worker'[w].pc \notin stages
         => worker[w].job \in HeldIn(stages) /\ HeldIn(stages)' = HeldIn(stages) \ {worker[w].job}
  BY <1>2, <1>5, <1>6
<1> QED  BY <1>7, <1>8, <1>9, <1>10, Zenon

(* Steps that neither admit nor release. *)
LEMMA UsageKept ==
  ASSUME UsageInv, usage' = usage, bodies' = bodies, CountedIn(JobStages)' = CountedIn(JobStages),
         CountedIn(SnapshotStages)' = CountedIn(SnapshotStages),
         CountedIn(IrStages)' = CountedIn(IrStages)
  PROVE  UsageInv'
<1>1. Weight' = Weight
  BY DEF Weight, RequestBytes
<1> QED  BY <1>1, Zenon DEF UsageInv, UsageIsExact, BytesOf, Weight

(* A request joins those a counter counts. *)
LEMMA BytesWith ==
  ASSUME PlacesInv, NEW stages, IsStages(stages), NEW j \in Job, j \notin CountedIn(stages),
         \A i \in CountedIn(stages) : Weight'[i] = Weight[i], Weight'[j] \in Nat,
         CountedIn(stages)' = CountedIn(stages) \cup {j}
  PROVE  /\ Cardinality(CountedIn(stages)') = Cardinality(CountedIn(stages)) + 1
         /\ SumFunctionOnSet(Weight', CountedIn(stages)')
              = Weight'[j] + SumFunctionOnSet(Weight, CountedIn(stages))
<1> DEFINE S == CountedIn(stages)
<1>1. S \subseteq Job /\ IsFiniteSet(S) /\ \A i \in S : Weight[i] \in Nat
  BY CountedType, WeightType
<1>2. CountedIn(stages)' = S \cup {j} /\ j \notin S /\ \A i \in S : Weight'[i] = Weight[i]
  OBVIOUS
<1> HIDE DEF S
<1>3. Cardinality(S \cup {j}) = Cardinality(S) + 1
  BY <1>1, <1>2, FS_AddElement
<1>4. SumFunctionOnSet(Weight', S) = SumFunctionOnSet(Weight, S)
  BY <1>1, <1>2, SumEqual
<1>5. \A i \in S : Weight'[i] \in Nat
  BY <1>1, <1>2
<1>6. SumFunctionOnSet(Weight', S \cup {j}) = Weight'[j] + SumFunctionOnSet(Weight', S)
  BY <1>1, <1>2, <1>5, SumAdd
<1> QED  BY <1>2, <1>3, <1>4, <1>6, Zenon DEF S

(* A request leaves those a counter counts. *)
LEMMA BytesWithout ==
  ASSUME PlacesInv, NEW stages, IsStages(stages), NEW j \in CountedIn(stages),
         bodies' = bodies, CountedIn(stages)' = CountedIn(stages) \ {j}
  PROVE  /\ Cardinality(CountedIn(stages)') = Cardinality(CountedIn(stages)) - 1
         /\ Cardinality(CountedIn(stages)') \in Nat
         /\ SumFunctionOnSet(Weight', CountedIn(stages)') \in Nat
         /\ RequestBytes(j) \in Nat
         /\ SumFunctionOnSet(Weight, CountedIn(stages))
              = RequestBytes(j) + SumFunctionOnSet(Weight', CountedIn(stages)')
<1> DEFINE S == CountedIn(stages)
<1>1. S \subseteq Job /\ IsFiniteSet(S) /\ \A i \in S : Weight[i] \in Nat
  BY CountedType, WeightType
<1>2. CountedIn(stages)' = S \ {j} /\ j \in S
  OBVIOUS
<1>3. Weight' = Weight
  BY DEF Weight, RequestBytes
<1> HIDE DEF S
<1>4. Weight[j] = RequestBytes(j) /\ RequestBytes(j) \in Nat
  BY <1>1, <1>2, WeightType
<1>5. SumFunctionOnSet(Weight, S) = Weight[j] + SumFunctionOnSet(Weight, S \ {j})
  BY <1>1, <1>2, SumRemove
<1>6. IsFiniteSet(S \ {j}) /\ Cardinality(S \ {j}) = Cardinality(S) - 1
  BY <1>1, <1>2, FS_RemoveElement
<1>7. SumFunctionOnSet(Weight, S \ {j}) \in Nat /\ Cardinality(S \ {j}) \in Nat
  BY <1>1, <1>6, SumType, FS_CardinalityType
<1> QED  BY <1>2, <1>3, <1>4, <1>5, <1>6, <1>7, Zenon DEF S

(* A request is admitted. *)
LEMMA UsageAdded ==
  ASSUME PlacesInv, UsageInv, NEW j \in Job, NEW bytes \in Nat,
         \A stages \in {JobStages, SnapshotStages, IrStages} :
           /\ j \notin CountedIn(stages) /\ CountedIn(stages)' = CountedIn(stages) \cup {j}
           /\ \A i \in CountedIn(stages) : Weight'[i] = Weight[i],
         Weight'[j] = bytes, WithinUsage(bytes), usage' = AddUsage(bytes)
  PROVE  UsageInv'
<1> DEFINE n == Cardinality(CountedIn(JobStages))
           snapshots == SumFunctionOnSet(Weight, CountedIn(SnapshotStages))
           ir == SumFunctionOnSet(Weight, CountedIn(IrStages))
<1>1. n \in Nat /\ snapshots \in Nat /\ ir \in Nat
  BY CountedType, StagesFacts
<1>2. Cardinality(CountedIn(JobStages)') = n + 1
  BY BytesWith, StagesFacts
<1>3. SumFunctionOnSet(Weight', CountedIn(SnapshotStages)') = bytes + snapshots
  BY BytesWith, StagesFacts
<1>4. SumFunctionOnSet(Weight', CountedIn(IrStages)') = bytes + ir
  BY BytesWith, StagesFacts
<1>5. /\ usage \in [jobs : Nat, snapshots : Nat, ir : Nat]
      /\ usage.jobs = n /\ usage.snapshots = snapshots /\ usage.ir = IrFactor * ir
  BY UsageFacts
<1>6. usage' = [jobs |-> n + 1, snapshots |-> snapshots + bytes,
                ir |-> IrFactor * ir + IrFactor * bytes]
  BY <1>5 DEF AddUsage
<1>7. snapshots + bytes =< MaxSnapshotBytes /\ IrFactor * ir + IrFactor * bytes =< MaxIrBytes
  BY <1>5 DEF WithinUsage
<1> HIDE DEF n, snapshots, ir
<1>8. /\ IrFactor * ir + IrFactor * bytes = IrFactor * (bytes + ir)
      /\ IrFactor * ir + IrFactor * bytes \in Nat
      /\ snapshots + bytes = bytes + snapshots /\ snapshots + bytes \in Nat /\ n + 1 \in Nat
  BY <1>1, WorkerAssumption
<1>9. /\ usage' \in [jobs : Nat, snapshots : Nat, ir : Nat]
      /\ usage'.jobs = n + 1 /\ usage'.snapshots = bytes + snapshots
      /\ usage'.ir = IrFactor * (bytes + ir)
      /\ usage'.snapshots =< MaxSnapshotBytes /\ usage'.ir =< MaxIrBytes
  BY <1>6, <1>7, <1>8
<1> QED  BY <1>2, <1>3, <1>4, <1>9, Zenon DEF UsageInv, UsageIsExact, BytesOf, Weight

(* A counter is lowered for a request, the others stand. *)
LEMMA JobReleased ==
  ASSUME PlacesInv, UsageInv, bodies' = bodies, NEW j \in CountedIn(JobStages),
         CountedIn(JobStages)' = CountedIn(JobStages) \ {j},
         CountedIn(SnapshotStages)' = CountedIn(SnapshotStages),
         CountedIn(IrStages)' = CountedIn(IrStages),
         usage' = [usage EXCEPT !.jobs = @ - 1]
  PROVE  UsageInv'
<1>1. /\ Cardinality(CountedIn(JobStages)') = Cardinality(CountedIn(JobStages)) - 1
      /\ Cardinality(CountedIn(JobStages)') \in Nat
  BY BytesWithout, StagesFacts
<1>2. Weight' = Weight
  BY DEF Weight, RequestBytes
<1>3. /\ usage \in [jobs : Nat, snapshots : Nat, ir : Nat]
      /\ usage.jobs = Cardinality(CountedIn(JobStages))
  BY UsageFacts
<1>4. /\ usage' \in [jobs : Nat, snapshots : Nat, ir : Nat]
      /\ usage'.jobs = Cardinality(CountedIn(JobStages)')
      /\ usage'.snapshots = usage.snapshots /\ usage'.ir = usage.ir
  BY <1>1, <1>3
<1> QED  BY <1>2, <1>4, Zenon DEF UsageInv, UsageIsExact, BytesOf, Weight

LEMMA SnapshotsReleased ==
  ASSUME PlacesInv, UsageInv, bodies' = bodies, NEW j \in CountedIn(SnapshotStages),
         CountedIn(SnapshotStages)' = CountedIn(SnapshotStages) \ {j},
         CountedIn(JobStages)' = CountedIn(JobStages),
         CountedIn(IrStages)' = CountedIn(IrStages),
         usage' = [usage EXCEPT !.snapshots = @ - RequestBytes(j)]
  PROVE  UsageInv'
<1> DEFINE rest == SumFunctionOnSet(Weight', CountedIn(SnapshotStages)')
<1>1. /\ rest \in Nat /\ RequestBytes(j) \in Nat
      /\ SumFunctionOnSet(Weight, CountedIn(SnapshotStages)) = RequestBytes(j) + rest
  BY BytesWithout, StagesFacts
<1>2. Weight' = Weight
  BY DEF Weight, RequestBytes
<1>3. /\ usage \in [jobs : Nat, snapshots : Nat, ir : Nat]
      /\ usage.snapshots = RequestBytes(j) + rest /\ usage.snapshots =< MaxSnapshotBytes
  BY <1>1, UsageFacts
<1> HIDE DEF rest
<1>4. /\ usage' \in [jobs : Nat, snapshots : Nat, ir : Nat]
      /\ usage'.jobs = usage.jobs /\ usage'.snapshots = rest /\ usage'.ir = usage.ir
      /\ usage'.snapshots =< MaxSnapshotBytes
  BY <1>1, <1>3, WorkerAssumption
<1> QED  BY <1>2, <1>4, Zenon DEF UsageInv, UsageIsExact, BytesOf, Weight, rest

LEMMA IrReleased ==
  ASSUME PlacesInv, UsageInv, bodies' = bodies, NEW j \in CountedIn(IrStages),
         CountedIn(IrStages)' = CountedIn(IrStages) \ {j},
         CountedIn(JobStages)' = CountedIn(JobStages),
         CountedIn(SnapshotStages)' = CountedIn(SnapshotStages),
         usage' = [usage EXCEPT !.ir = @ - IrFactor * RequestBytes(j)]
  PROVE  UsageInv'
<1> DEFINE rest == SumFunctionOnSet(Weight', CountedIn(IrStages)')
<1>1. /\ rest \in Nat /\ RequestBytes(j) \in Nat
      /\ SumFunctionOnSet(Weight, CountedIn(IrStages)) = RequestBytes(j) + rest
  BY BytesWithout, StagesFacts
<1>2. Weight' = Weight
  BY DEF Weight, RequestBytes
<1>3. /\ usage \in [jobs : Nat, snapshots : Nat, ir : Nat]
      /\ usage.ir = IrFactor * (RequestBytes(j) + rest) /\ usage.ir =< MaxIrBytes
  BY <1>1, UsageFacts
<1> HIDE DEF rest
<1>4. /\ IrFactor * (RequestBytes(j) + rest) = IrFactor * RequestBytes(j) + IrFactor * rest
      /\ IrFactor * RequestBytes(j) \in Nat /\ IrFactor * rest \in Nat
  BY <1>1, WorkerAssumption
<1>5. /\ usage' \in [jobs : Nat, snapshots : Nat, ir : Nat]
      /\ usage'.jobs = usage.jobs /\ usage'.snapshots = usage.snapshots
      /\ usage'.ir = IrFactor * rest /\ usage'.ir =< MaxIrBytes
  <2>1. usage.ir - IrFactor * RequestBytes(j) = IrFactor * rest /\ IrFactor * rest =< MaxIrBytes
    BY <1>3, <1>4, WorkerAssumption
  <2> QED  BY <1>3, <1>4, <2>1
<1> QED  BY <1>2, <1>5, Zenon DEF UsageInv, UsageIsExact, BytesOf, Weight, rest

(* The admission of a request is undone. *)
LEMMA UsageRemoved ==
  ASSUME PlacesInv, UsageInv, bodies' = bodies, NEW j,
         \A stages \in {JobStages, SnapshotStages, IrStages} :
           j \in CountedIn(stages) /\ CountedIn(stages)' = CountedIn(stages) \ {j},
         usage' = SubUsage(RequestBytes(j))
  PROVE  UsageInv'
<1> DEFINE n == Cardinality(CountedIn(JobStages)')
           snapshots == SumFunctionOnSet(Weight', CountedIn(SnapshotStages)')
           ir == SumFunctionOnSet(Weight', CountedIn(IrStages)')
           bytes == RequestBytes(j)
<1>1. n \in Nat /\ n = Cardinality(CountedIn(JobStages)) - 1
  BY BytesWithout, StagesFacts
<1>2. /\ snapshots \in Nat /\ bytes \in Nat
      /\ SumFunctionOnSet(Weight, CountedIn(SnapshotStages)) = bytes + snapshots
  BY BytesWithout, StagesFacts
<1>3. ir \in Nat /\ SumFunctionOnSet(Weight, CountedIn(IrStages)) = bytes + ir
  BY BytesWithout, StagesFacts
<1>4. /\ usage.jobs = Cardinality(CountedIn(JobStages)) /\ usage.snapshots = bytes + snapshots
      /\ usage.ir = IrFactor * (bytes + ir)
      /\ usage.snapshots =< MaxSnapshotBytes /\ usage.ir =< MaxIrBytes
  BY <1>2, <1>3, UsageFacts
<1>5. usage' = [jobs |-> usage.jobs - 1, snapshots |-> usage.snapshots - bytes,
                ir |-> usage.ir - IrFactor * bytes]
  BY DEF SubUsage
<1>6. Cardinality(CountedIn(JobStages)) \in Nat
  BY CountedType, StagesFacts
<1> HIDE DEF n, snapshots, ir, bytes
<1>7. /\ IrFactor * (bytes + ir) = IrFactor * bytes + IrFactor * ir
      /\ IrFactor * bytes \in Nat /\ IrFactor * ir \in Nat
  BY <1>2, <1>3, WorkerAssumption
<1>8. /\ usage.jobs - 1 = n /\ usage.snapshots - bytes = snapshots
      /\ usage.ir - IrFactor * bytes = IrFactor * ir
      /\ snapshots =< MaxSnapshotBytes /\ IrFactor * ir =< MaxIrBytes
  BY <1>1, <1>2, <1>3, <1>4, <1>6, <1>7, WorkerAssumption
<1>9. /\ usage' \in [jobs : Nat, snapshots : Nat, ir : Nat]
      /\ usage'.jobs = n /\ usage'.snapshots = snapshots /\ usage'.ir = IrFactor * ir
      /\ usage'.snapshots =< MaxSnapshotBytes /\ usage'.ir =< MaxIrBytes
  BY <1>1, <1>2, <1>5, <1>7, <1>8
<1> QED  BY <1>9, Zenon DEF UsageInv, UsageIsExact, BytesOf, Weight, n, snapshots, ir

LEMMA HostKeepsUsage ==
  ASSUME PlacesInv, UsageInv, usage' = usage, bodies' = bodies, channel' = channel, worker' = worker,
         runtime.pc # "send", runtime'.pc # "send"
  PROVE  UsageInv'
<1>1. ASSUME NEW stages  PROVE CountedIn(stages)' = CountedIn(stages)
  BY DEF CountedIn, HeldIn
<1> QED  BY <1>1, UsageKept

LEMMA StartFailsKeepsUsage ==
  ASSUME PlacesInv, UsageInv, StartFails
  PROVE  UsageInv'
<1>1. /\ UNCHANGED <<channel, bodies, usage>> /\ ~started /\ runtime.pc = "start"
      /\ runtime' = At("idle", NoJob) /\ worker' = [w \in Worker |-> At("exited", NoJob)]
  BY DEF StartFails, Rollback
<1>2. runtime'.pc # "send" /\ \A w \in Worker : worker'[w].pc = "exited" /\ worker[w].pc = "idle"
  BY <1>1 DEF At, PlacesInv, HandsInv
<1>3. ASSUME NEW stages, IsStages(stages)  PROVE CountedIn(stages)' = CountedIn(stages)
  <2>1. HeldIn(stages) = {} /\ HeldIn(stages)' = {}
    BY <1>2, <1>3 DEF HeldIn, IsStages
  <2> QED  BY <1>1, <1>2, <2>1 DEF CountedIn
<1> QED  BY <1>1, <1>3, StagesFacts, UsageKept

LEMMA AdmitKeepsUsage ==
  ASSUME PlacesInv, UsageInv, Admit
  PROVE  UsageInv'
<1> DEFINE j == runtime.job
           kept == IF WithinUsage(RequestBytes(j)) THEN bodies ELSE bodies \ {j}
           bytes == SnapshotBytes[j] + (IF j \in kept THEN InlineBytes[j] ELSE 0)
<1>1. /\ runtime.pc = "admit" /\ bodies' = kept /\ UNCHANGED <<channel, worker>>
  BY DEF Admit
<1>2. j \in Job /\ InHand = {j} /\ j \notin Elements(channel)
  BY <1>1, HandFacts
<1>3. ASSUME NEW stages, IsStages(stages)
      PROVE  /\ j \notin CountedIn(stages) /\ CountedIn(stages) \subseteq Job
             /\ runtime'.pc = "send" /\ runtime'.job = j
                  => CountedIn(stages)' = CountedIn(stages) \cup {j}
             /\ runtime'.pc # "send" => CountedIn(stages)' = CountedIn(stages)
  <2>1. j \notin HeldIn(stages)
    BY <1>2, <1>3, HeldIsApart
  <2>2. HeldIn(stages)' = HeldIn(stages)
    BY <1>1 DEF HeldIn
  <2>3. CountedIn(stages) = Elements(channel) \cup HeldIn(stages)
    BY <1>1 DEF CountedIn
  <2>4. CountedIn(stages) \subseteq Job
    BY <1>3, CountedType
  <2> QED  BY <1>1, <1>2, <2>1, <2>2, <2>3, <2>4 DEF CountedIn
<1>4. /\ \A i \in Job : Weight'[i] = SnapshotBytes[i] + (IF i \in kept THEN InlineBytes[i] ELSE 0)
      /\ \A i \in Job : Weight[i] = SnapshotBytes[i] + (IF i \in bodies THEN InlineBytes[i] ELSE 0)
  BY <1>1 DEF Weight, RequestBytes
<1>5. \A i \in Job : i # j => (i \in kept <=> i \in bodies)
  OBVIOUS
<1>6. \A i \in Job : SnapshotBytes[i] \in Nat /\ InlineBytes[i] \in Nat
  BY WorkerAssumption
<1>7. /\ Weight'[j] = bytes /\ bytes \in Nat
      /\ \A i \in Job : i # j => Weight'[i] = Weight[i]
  <2> HIDE DEF kept
  <2>1. Weight'[j] = bytes /\ bytes \in Nat
    BY <1>2, <1>4, <1>6
  <2> QED  BY <1>4, <1>5, <2>1
<1>8. ASSUME NEW stages, IsStages(stages)
      PROVE  \A i \in CountedIn(stages) : Weight'[i] = Weight[i]
  BY <1>3, <1>7, <1>8
<1>9. CASE WithinUsage(bytes) /\ usage' = AddUsage(bytes) /\ runtime' = At("send", j)
  <2>1. runtime'.pc = "send" /\ runtime'.job = j
    BY <1>9 DEF At
  <2> HIDE DEF bytes, kept
  <2>2. \A stages \in {JobStages, SnapshotStages, IrStages} :
          /\ j \notin CountedIn(stages) /\ CountedIn(stages)' = CountedIn(stages) \cup {j}
          /\ \A i \in CountedIn(stages) : Weight'[i] = Weight[i]
    BY <1>3, <1>8, <2>1, StagesFacts
  <2> HIDE DEF j
  <2> QED  BY <1>2, <1>7, <1>9, <2>2, UsageAdded
<1>10. CASE Rollback /\ usage' = usage
  <2>1. runtime'.pc # "send"
    BY <1>10 DEF Rollback, At
  <2>2. ASSUME NEW stages, IsStages(stages)
        PROVE  /\ CountedIn(stages)' = CountedIn(stages)
               /\ SumFunctionOnSet(Weight', CountedIn(stages)')
                    = SumFunctionOnSet(Weight, CountedIn(stages))
    <3>1. CountedIn(stages)' = CountedIn(stages)
      BY <1>3, <2>1, <2>2
    <3>2. /\ IsFiniteSet(CountedIn(stages))
          /\ \A i \in CountedIn(stages) : Weight[i] \in Nat /\ Weight'[i] = Weight[i]
      BY <1>8, <2>2, CountedType, WeightType
    <3>3. SumFunctionOnSet(Weight', CountedIn(stages)) = SumFunctionOnSet(Weight, CountedIn(stages))
      BY <3>2, SumEqual
    <3> QED  BY <3>1, <3>3, Zenon
  <2>3. /\ CountedIn(JobStages)' = CountedIn(JobStages)
        /\ SumFunctionOnSet(Weight', CountedIn(SnapshotStages)')
             = SumFunctionOnSet(Weight, CountedIn(SnapshotStages))
        /\ SumFunctionOnSet(Weight', CountedIn(IrStages)')
             = SumFunctionOnSet(Weight, CountedIn(IrStages))
    BY <2>2, StagesFacts
  <2> QED  BY <1>10, <2>3, Zenon DEF UsageInv, UsageIsExact, BytesOf, Weight
<1> QED  BY <1>9, <1>10 DEF Admit

LEMMA SendKeepsUsage ==
  ASSUME PlacesInv, UsageInv, Send
  PROVE  UsageInv'
<1> DEFINE j == runtime.job
<1>1. runtime.pc = "send" /\ UNCHANGED <<bodies, worker>>
  BY DEF Send
<1>2. j \in Job /\ InHand = {j} /\ j \notin Elements(channel)
  BY <1>1, HandFacts
<1>3. ASSUME NEW stages, IsStages(stages)
      PROVE  /\ j \notin HeldIn(stages) /\ HeldIn(stages)' = HeldIn(stages)
             /\ CountedIn(stages) = Elements(channel) \cup HeldIn(stages) \cup {j}
  <2>1. j \notin HeldIn(stages)
    BY <1>2, <1>3, HeldIsApart
  <2> QED  BY <1>1, <2>1 DEF HeldIn, CountedIn
<1>4. CASE channel' = Append(channel, j) /\ runtime' = At("idle", NoJob) /\ usage' = usage
  <2>1. Elements(channel') = Elements(channel) \cup {j}
    BY <1>2, <1>4, PlacesFacts, AppendedElements
  <2>2. runtime'.pc # "send"
    BY <1>4 DEF At
  <2>3. ASSUME NEW stages, IsStages(stages)  PROVE CountedIn(stages)' = CountedIn(stages)
    BY <1>3, <2>1, <2>2, <2>3 DEF CountedIn
  <2> QED  BY <1>1, <1>4, <2>3, StagesFacts, UsageKept
<1>5. CASE usage' = SubUsage(RequestBytes(j)) /\ Rollback /\ channel' = channel
  <2>1. runtime'.pc # "send"
    BY <1>5 DEF Rollback, At
  <2>2. ASSUME NEW stages, IsStages(stages)
        PROVE  j \in CountedIn(stages) /\ CountedIn(stages)' = CountedIn(stages) \ {j}
    BY <1>2, <1>3, <1>5, <2>1, <2>2 DEF CountedIn
  <2>3. \A stages \in {JobStages, SnapshotStages, IrStages} :
          j \in CountedIn(stages) /\ CountedIn(stages)' = CountedIn(stages) \ {j}
    BY <2>2, StagesFacts
  <2> HIDE DEF j
  <2> QED  BY <1>1, <1>5, <2>3, UsageRemoved
<1> QED  BY <1>4, <1>5 DEF Send

(* What the counters count after a worker's step that leaves the channel. *)
LEMMA CountedAfter ==
  ASSUME PlacesInv, NEW w \in Worker, NEW from, NEW to, WorkerStep(w, from, to),
         channel' = channel, runtime' = runtime, NEW stages, IsStages(stages)
  PROVE  /\ from \notin stages /\ to.pc \notin stages => CountedIn(stages)' = CountedIn(stages)
         /\ from \in stages /\ to.pc \in stages /\ to.job = worker[w].job
              => CountedIn(stages)' = CountedIn(stages)
         /\ from \in stages /\ to.pc \notin stages
              => /\ worker[w].job \in CountedIn(stages)
                 /\ CountedIn(stages)' = CountedIn(stages) \ {worker[w].job}
<1>1. /\ worker[w].pc = from /\ worker'[w] = to
      /\ \A v \in Worker : v # w => worker'[v] = worker[v]
  BY OneWorkerSteps
<1>2. HeldIn(stages)' = HeldIn(stages) => CountedIn(stages)' = CountedIn(stages)
  BY DEF CountedIn
<1>3. from \notin stages /\ to.pc \notin stages => HeldIn(stages)' = HeldIn(stages)
  BY <1>1, HeldAfter
<1>4. from \in stages /\ to.pc \in stages /\ to.job = worker[w].job
        => HeldIn(stages)' = HeldIn(stages)
  BY <1>1, HeldAfter
<1>5. ASSUME from \in stages, to.pc \notin stages
      PROVE  /\ worker[w].job \in CountedIn(stages)
             /\ CountedIn(stages)' = CountedIn(stages) \ {worker[w].job}
  <2>1. /\ worker[w].job \in HeldIn(stages)
        /\ HeldIn(stages)' = HeldIn(stages) \ {worker[w].job}
    BY <1>1, <1>5, HeldAfter
  <2>2. /\ worker[w].job \notin Elements(channel)
        /\ ~(runtime.pc = "send" /\ runtime.job = worker[w].job)
    BY <2>1, HeldIsApart, HandFacts
  <2> QED  BY <2>1, <2>2 DEF CountedIn
<1> QED  BY <1>2, <1>3, <1>4, <1>5

(* A worker that stays on one side of the stages, with its request, leaves them
   as they are. *)
LEMMA CountedKept ==
  ASSUME PlacesInv, NEW w \in Worker, NEW from, NEW to, WorkerStep(w, from, to),
         channel' = channel, runtime' = runtime, NEW stages, IsStages(stages),
         \/ from \notin stages /\ to.pc \notin stages
         \/ from \in stages /\ to.pc \in stages /\ to.job = worker[w].job
  PROVE  CountedIn(stages)' = CountedIn(stages)
BY CountedAfter

LEMMA WorkerKeepsUsage ==
  ASSUME PlacesInv, UsageInv, NEW w \in Worker, RunWorker(w)
  PROVE  UsageInv'
<1> DEFINE j == worker[w].job
<1>1. runtime' = runtime /\ bodies' = bodies
  BY DEF RunWorker, Receive, Exit, Compile, SendCompletion, PushOverflow, ReleaseJob,
         ReleaseSnapshots, ReleaseIr, hostVars
<1>2. ASSUME NEW from, NEW to, WorkerStep(w, from, to), channel' = channel, usage' = usage,
             \/ from \in JobStages /\ to.pc \in JobStages /\ to.job = j
             \/ from \notin IrStages /\ to.pc \notin IrStages
      PROVE  UsageInv'
  <2>1. ASSUME NEW S, IsStages(S), JobStages \subseteq S, S \subseteq IrStages
        PROVE  CountedIn(S)' = CountedIn(S)
    <3>1. CASE from \in JobStages /\ to.pc \in JobStages /\ to.job = j
      <4>1. from \in S /\ to.pc \in S
        BY <2>1, <3>1, Zenon
      <4> QED  BY <1>1, <1>2, <2>1, <3>1, <4>1, CountedKept, Zenon
    <3>2. CASE from \notin IrStages /\ to.pc \notin IrStages
      <4>1. from \notin S /\ to.pc \notin S
        BY <2>1, <3>2, Zenon
      <4> QED  BY <1>1, <1>2, <2>1, <4>1, CountedKept, Zenon
    <3> QED  BY <1>2, <3>1, <3>2, Zenon
  <2>2. /\ JobStages \subseteq JobStages /\ JobStages \subseteq IrStages
        /\ IrStages \subseteq IrStages
    BY StagesFacts
  <2>3. /\ CountedIn(JobStages)' = CountedIn(JobStages)
        /\ CountedIn(SnapshotStages)' = CountedIn(SnapshotStages)
        /\ CountedIn(IrStages)' = CountedIn(IrStages)
    BY <2>1, <2>2, StagesFacts, Zenon
  <2> QED  BY <1>1, <1>2, <2>3, UsageKept
<1>3. CASE Receive(w)
  <2>1. /\ channel # <<>> /\ WorkerStep(w, "idle", At("compile", Head(channel)))
        /\ channel' = Tail(channel) /\ usage' = usage
    BY <1>3 DEF Receive
  <2>2. /\ worker[w].pc = "idle" /\ worker'[w].pc = "compile" /\ worker'[w].job = Head(channel)
        /\ \A v \in Worker : v # w => worker'[v] = worker[v]
    BY <2>1, OneWorkerSteps, SMTT(30) DEF At
  <2>3. /\ Head(channel) \in Elements(channel)
        /\ Elements(channel') = Elements(channel) \ {Head(channel)}
    BY <2>1, PlacesFacts, HeadAndTail
  <2>4. ASSUME NEW stages, IsStages(stages), "compile" \in stages
        PROVE  CountedIn(stages)' = CountedIn(stages)
    <3>1. HeldIn(stages)' = HeldIn(stages) \cup {Head(channel)}
      BY <2>2, <2>4, HeldAfter DEF IsStages
    <3> QED  BY <1>1, <2>3, <3>1 DEF CountedIn
  <2>5. "compile" \in JobStages
    BY DEF JobStages
  <2> QED  BY <1>1, <2>1, <2>4, <2>5, StagesFacts, UsageKept
<1>4. CASE Exit(w)
  <2>1. "idle" \notin IrStages /\ "exited" \notin IrStages
    BY StagesFacts DEF IsStages
  <2> QED  BY <1>2, <1>4, <2>1 DEF Exit, At
<1>5. CASE Compile(w)
  BY <1>2, <1>5 DEF Compile, At, JobStages
<1>6. CASE SendCompletion(w)
  BY <1>2, <1>6 DEF SendCompletion, At, JobStages
<1>7. CASE PushOverflow(w)
  BY <1>2, <1>7 DEF PushOverflow, At, JobStages
<1>8. CASE ReleaseJob(w)
  <2> DEFINE to == At("release_snapshots", j)
  <2>1. /\ WorkerStep(w, "release", to) /\ channel' = channel
        /\ usage' = [usage EXCEPT !.jobs = @ - 1]
    BY <1>8 DEF ReleaseJob
  <2>2. to.pc = "release_snapshots" /\ to.job = j
    BY DEF At
  <2> HIDE DEF to
  <2>3. j \in CountedIn(JobStages) /\ CountedIn(JobStages)' = CountedIn(JobStages) \ {j}
    BY <1>1, <2>1, <2>2, StagesFacts, CountedAfter
  <2>4. /\ CountedIn(SnapshotStages)' = CountedIn(SnapshotStages)
        /\ CountedIn(IrStages)' = CountedIn(IrStages)
    BY <1>1, <2>1, <2>2, StagesFacts, CountedAfter
  <2> HIDE DEF j
  <2> QED  BY <1>1, <2>1, <2>3, <2>4, JobReleased
<1>9. CASE ReleaseSnapshots(w)
  <2> DEFINE to == At("release_ir", j)
  <2>1. /\ WorkerStep(w, "release_snapshots", to) /\ channel' = channel
        /\ usage' = [usage EXCEPT !.snapshots = @ - RequestBytes(j)]
    BY <1>9 DEF ReleaseSnapshots
  <2>2. to.pc = "release_ir" /\ to.job = j
    BY DEF At
  <2> HIDE DEF to
  <2>3. /\ j \in CountedIn(SnapshotStages)
        /\ CountedIn(SnapshotStages)' = CountedIn(SnapshotStages) \ {j}
    BY <1>1, <2>1, <2>2, StagesFacts, CountedAfter
  <2>4. /\ CountedIn(JobStages)' = CountedIn(JobStages)
        /\ CountedIn(IrStages)' = CountedIn(IrStages)
    BY <1>1, <2>1, <2>2, StagesFacts, CountedAfter
  <2> HIDE DEF j
  <2> QED  BY <1>1, <2>1, <2>3, <2>4, SnapshotsReleased
<1>10. CASE ReleaseIr(w)
  <2> DEFINE to == At("idle", NoJob)
  <2>1. /\ WorkerStep(w, "release_ir", to) /\ channel' = channel
        /\ usage' = [usage EXCEPT !.ir = @ - IrFactor * RequestBytes(j)]
    BY <1>10 DEF ReleaseIr
  <2>2. to.pc = "idle"
    BY DEF At
  <2>3. "idle" \notin IrStages
    BY StagesFacts DEF IsStages
  <2> HIDE DEF to
  <2>4. j \in CountedIn(IrStages) /\ CountedIn(IrStages)' = CountedIn(IrStages) \ {j}
    BY <1>1, <2>1, <2>2, <2>3, StagesFacts, CountedAfter
  <2>5. /\ CountedIn(JobStages)' = CountedIn(JobStages)
        /\ CountedIn(SnapshotStages)' = CountedIn(SnapshotStages)
    BY <1>1, <2>1, <2>2, <2>3, StagesFacts, CountedAfter
  <2> HIDE DEF j
  <2> QED  BY <1>1, <2>1, <2>4, <2>5, IrReleased
<1> QED  BY <1>3, <1>4, <1>5, <1>6, <1>7, <1>8, <1>9, <1>10 DEF RunWorker

LEMMA NextKeepsUsage ==
  ASSUME PlacesInv, UsageInv, [Next]_vars
  PROVE  UsageInv'
<1>1. ASSUME NEW j \in Job, Submit(j)  PROVE UsageInv'
  BY <1>1, HostKeepsUsage DEF Submit, IsIdle
<1>2. CASE DispatchNext
  BY <1>2, HostKeepsUsage DEF DispatchNext, IsIdle, At
<1>3. CASE StartWorkers \/ Shutdown \/ Joined
  BY <1>3, HostKeepsUsage, SMTT(30) DEF StartWorkers, Shutdown, Joined, IsIdle, At
<1>4. CASE PollCompletions \/ ShutdownDrain
  <2>1. /\ DrainCompletions /\ UNCHANGED <<channel, worker, bodies, usage>>
        /\ runtime.pc \in {"idle", "drain"}
    BY <1>4 DEF PollCompletions, ShutdownDrain, IsIdle
  <2>2. runtime'.pc # "send"
    BY <2>1, CompletionsDrained DEF At
  <2> QED  BY <2>1, <2>2, HostKeepsUsage
<1>5. CASE UNCHANGED vars
  <2>1. UNCHANGED <<channel, worker, bodies, usage, runtime>>
    BY <1>5 DEF vars, hostVars
  <2>2. ASSUME NEW stages  PROVE CountedIn(stages)' = CountedIn(stages)
    BY <2>1 DEF CountedIn, HeldIn
  <2> QED  BY <2>1, <2>2, UsageKept
<1> QED  BY <1>1, <1>2, <1>3, <1>4, <1>5, StartFailsKeepsUsage, AdmitKeepsUsage, SendKeepsUsage,
            WorkerKeepsUsage DEF Next

LEMMA UsageStart ==
  ASSUME Init
  PROVE  UsageInv
<1>1. Elements(<<>>) = {}
  BY DEF Elements
<1>2. ASSUME NEW stages, IsStages(stages)  PROVE CountedIn(stages) = {}
  <2>1. HeldIn(stages) = {}
    BY <1>2 DEF Init, At, HeldIn, IsStages
  <2> QED  BY <1>1, <2>1 DEF Init, At, CountedIn
<1>3. /\ CountedIn(JobStages) = {} /\ CountedIn(SnapshotStages) = {} /\ CountedIn(IrStages) = {}
  BY <1>2, StagesFacts
<1>4. usage = [jobs |-> 0, snapshots |-> 0, ir |-> 0]
  BY DEF Init
<1>5. /\ IrFactor * 0 = 0 /\ 0 =< MaxSnapshotBytes /\ 0 =< MaxIrBytes
  BY WorkerAssumption
<1> QED  BY <1>3, <1>4, <1>5, SumEmpty, FS_EmptySet, UsageFacts

(* UsageInv is an invariant: what the account holds is what the requests
   between admission and release weigh. *)
THEOREM UsageInvariant == Spec => []UsageInv
<1>1. Init => UsageInv
  BY UsageStart
<1>2. PlacesInv /\ UsageInv /\ [Next]_vars => UsageInv'
  BY NextKeepsUsage
<1> QED  BY <1>1, <1>2, PlacesInvariant, PTL DEF Spec

(* Each usage counter is the number, or the bytes, of the requests admitted *)
(* and not yet taken off it, within the limits, for any interleaving of     *)
(* admissions with the workers' releases of one counter after the other.    *)
THEOREM UsageStaysExact == Spec => []UsageIsExact
<1>1. UsageInv => UsageIsExact
  BY DEF UsageInv
<1> QED  BY <1>1, UsageInvariant, PTL

(* The state keeps its type: in particular, no counter of the account goes
   below zero, where fetch_sub would wrap. *)
THEOREM WorkersStayTyped == Spec => []WorkersTypeOK
<1>1. PlacesInv /\ UsageInv => WorkersTypeOK
  BY DEF WorkersTypeOK, PlacesInv, UsageInv
<1> QED  BY <1>1, PlacesInvariant, UsageInvariant, PTL
=============================================================================
