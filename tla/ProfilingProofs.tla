--------------------------- MODULE ProfilingProofs ---------------------------
(***************************************************************************)
(* What the policies do with the measurements.  For every width of the       *)
(* integers, every profile and every length of the trial: an approved        *)
(* compile pays for itself, and a loss was slow in every run.  For every     *)
(* interval, every number of rejections, every load and whatever the         *)
(* compilers and the tables do: the earliest scheduled retry never comes     *)
(* after the end of the backoff.                                             *)
(***************************************************************************)
EXTENDS TierPolicy, Promotion, TLAPS

-----------------------------------------------------------------------------
(* Arithmetic                                                                *)

\* Multiplication by a natural number is monotonic.
LEMMA TimesMonotonic ==
  ASSUME NEW a \in Nat, NEW b \in Nat, NEW c \in Nat, a <= b
  PROVE  a * c <= b * c
PROOF OBVIOUS

\* A common factor cancels in a strict inequality.
LEMMA FactorCancels ==
  ASSUME NEW a \in Nat, NEW b \in Nat, NEW c \in Nat, a * c < b * c
  PROVE  a < b
<1> SUFFICES ASSUME ~ (a < b) PROVE FALSE
  OBVIOUS
<1>1. b <= a
  OBVIOUS
<1>2. b * c <= a * c
  BY <1>1, TimesMonotonic
<1>3. a * c \in Nat /\ b * c \in Nat
  OBVIOUS
<1> QED BY <1>2, <1>3

\* Quotient and remainder, as naturals.
LEMMA Division ==
  ASSUME NEW a \in Nat, NEW b \in Nat \ {0}
  PROVE  /\ a \div b \in Nat /\ a % b \in Nat
         /\ a = b * (a \div b) + (a % b) /\ a % b < b
PROOF OBVIOUS

\* Rounded up, a quotient is the least number of savings that covers the cost,
\* and it does not saturate when some representable number of runs does.
LEMMA CeilDivIsLeast ==
  ASSUME NEW cost \in Nat, NEW s \in Nat \ {0}, NEW runs \in 0..MaxU64, cost < s * runs
  PROVE  LET n == CeilDiv(cost, s)
         IN  /\ n \in Nat /\ n <= runs /\ n * s >= cost
             /\ n = 0 \/ (n - 1) * s < cost
<1> DEFINE d == cost \div s
           r == cost % s
<1>0. MaxU64 \in Nat
  BY PolicyAssumption
<1>1. d \in Nat /\ r \in Nat /\ cost = s * d + r /\ r < s
  BY Division
<1> HIDE DEF d, r
<1>2. d * s <= cost /\ d * s \in Nat /\ d * s = s * d
  BY <1>1
<1>3. d * s < runs * s
  BY <1>0, <1>2
<1>4. d < runs
  BY <1>0, <1>1, <1>3, FactorCancels
<1>5. (d + 1) * s = d * s + s /\ (d - 1) * s = d * s - s
  BY <1>1
<1>6. CASE r = 0
  <2>1. CeilDiv(cost, s) = d
    BY <1>6 DEF CeilDiv, d, r
  <2>2. cost = d * s
    BY <1>1, <1>2, <1>6
  <2> QED BY <1>0, <1>1, <1>2, <1>4, <1>5, <2>1, <2>2
<1>7. CASE r # 0
  <2>1. CeilDiv(cost, s) = d + 1
    BY <1>0, <1>1, <1>4, <1>7 DEF CeilDiv, SatAdd, d, r
  <2>2. cost = d * s + r
    BY <1>1, <1>2
  <2> QED BY <1>0, <1>1, <1>2, <1>4, <1>5, <1>7, <2>1, <2>2
<1> QED BY <1>6, <1>7

-----------------------------------------------------------------------------
(* The price of a compile                                                    *)

\* An approved profile saves more than its exact cost.
LEMMA ApprovedSaves ==
  ASSUME NEW q \in Profile, Evaluate(q) = "optimize"
  PROVE  /\ Saving(q) \in Nat \ {0} /\ Cost(q) = q.compile + q.install
         /\ Cost(q) \in Nat /\ Cost(q) < Saving(q) * q.executions
<1>0. /\ MaxU64 \in Nat /\ q.executions \in 0..MaxU64 /\ q.compile \in Nat /\ q.install \in Nat
      /\ q.baseline \in Nat /\ q.optimized \in Nat
  BY PolicyAssumption DEF Profile
<1>1. /\ q.executions # 0 /\ Saving(q) # 0
      /\ ~ (SatMul(Saving(q), q.executions) <= Cost(q))
  BY DEF Evaluate
<1>2. Saving(q) \in Nat
  <2>1. q.baseline \div q.executions \in Nat /\ q.optimized \div q.executions \in Nat
    BY <1>0, <1>1, Division
  <2> QED BY <2>1 DEF Saving, SatSub
<1>3. Saving(q) * q.executions \in Nat
  BY <1>0, <1>2
<1>4. SatMul(Saving(q), q.executions) \in Nat
      /\ SatMul(Saving(q), q.executions) <= MaxU64
      /\ SatMul(Saving(q), q.executions) <= Saving(q) * q.executions
  BY <1>0, <1>3 DEF SatMul
<1>5. Cost(q) \in Nat /\ (Cost(q) = MaxU64 \/ Cost(q) = q.compile + q.install)
  BY <1>0 DEF Cost, SatAdd
<1>6. Cost(q) < SatMul(Saving(q), q.executions)
  BY <1>1, <1>4, <1>5
<1> QED BY <1>0, <1>1, <1>2, <1>3, <1>4, <1>5, <1>6

\* An approved profile has paid for its compile.
LEMMA ApprovedPays ==
  ASSUME NEW q \in Profile, Evaluate(q) = "optimize"
  PROVE  PaysFor(q)
<1>1. q.executions \in 0..MaxU64
  BY DEF Profile
<1>2. /\ Saving(q) \in Nat \ {0} /\ Cost(q) = q.compile + q.install
      /\ Cost(q) \in Nat /\ Cost(q) < Saving(q) * q.executions
  BY ApprovedSaves
<1>3. LET n == CeilDiv(Cost(q), Saving(q))
      IN  /\ n \in Nat /\ n <= q.executions /\ n * Saving(q) >= Cost(q)
          /\ n = 0 \/ (n - 1) * Saving(q) < Cost(q)
  BY <1>1, <1>2, CeilDivIsLeast
<1>4. Saving(q) * q.executions > Cost(q)
  BY <1>1, <1>2, PolicyAssumption
<1> QED BY <1>2, <1>3, <1>4 DEF PaysFor, BreakEven

\* A saturated product is an unsigned integer.
LEMMA SatMulType ==
  ASSUME NEW a \in Nat, NEW b \in Nat
  PROVE  SatMul(a, b) \in 0..MaxU64
<1>1. MaxU64 \in Nat /\ a * b \in Nat
  BY PolicyAssumption
<1> QED BY <1>1 DEF SatMul

\* The assumed profile of a function that ran is a profile.
LEMMA ModelledIsProfile ==
  ASSUME NEW q \in Profile, q.executions # 0
  PROVE  Modelled(q) \in Profile
<1> DEFINE run == q.baseline \div q.executions
           i == SatMul(SatMul(run, 2), q.executions)
           o == SatMul(SatMul(run, 3) \div 4, q.executions)
<1>1. MaxU64 \in Nat /\ q.baseline \in Nat /\ q.executions \in Nat \ {0}
  BY PolicyAssumption DEF Profile
<1>2. run \in Nat
  BY <1>1, Division
<1> HIDE DEF run
<1>3. SatMul(run, 2) \in Nat /\ SatMul(run, 3) \in Nat
  <2>1. SatMul(run, 2) \in 0..MaxU64 /\ SatMul(run, 3) \in 0..MaxU64
    BY <1>2, SatMulType
  <2> QED BY <1>1, <2>1
<1>4. SatMul(run, 3) \div 4 \in Nat
  BY <1>3, Division
<1>5. i \in 0..MaxU64 /\ o \in 0..MaxU64
  BY <1>1, <1>3, <1>4, SatMulType
<1>6. Modelled(q) = [q EXCEPT !.interpreter = i, !.optimized = o, !.helpers = 0]
  BY DEF Modelled, run
<1> HIDE DEF i, o
<1>7. Modelled(q) = [bytecodes |-> q.bytecodes, helpers |-> 0, compile |-> q.compile,
                     install |-> q.install, executions |-> q.executions,
                     interpreter |-> i, baseline |-> q.baseline, optimized |-> o]
  BY <1>6 DEF Profile
<1>8. /\ q.bytecodes \in 0..MaxU64 /\ q.compile \in 0..MaxU64 /\ q.install \in 0..MaxU64
      /\ q.executions \in 0..MaxU64 /\ q.baseline \in 0..MaxU64 /\ 0 \in 0..MaxU64
  BY <1>1 DEF Profile
<1> QED BY <1>5, <1>7, <1>8 DEF Profile

\* Whatever profile Profitability::evaluate or evaluate_trial approves, the
\* compile has paid for itself, saturation included.
THEOREM ApprovedCompilePays == PolicySpec => []OptimizePays
<1> DEFINE Inv == profile \in Profile
<1>1. PolicyInit => Inv
  BY PolicyAssumption DEF PolicyInit
<1>2. Inv /\ [PolicyNext]_policyVars => Inv'
  BY DEF PolicyNext, RecordBaseline, RecordOptimized, policyVars
<1>3. Inv => OptimizePays
  <2> SUFFICES ASSUME profile \in Profile PROVE OptimizePays
    OBVIOUS
  <2>1. ASSUME EvaluateTrial(profile) = "optimize" PROVE PaysFor(Modelled(profile))
    <3>1. Evaluate(Modelled(profile)) = "optimize"
      BY <2>1 DEF EvaluateTrial
    <3>2. profile.executions # 0
      <4>1. Modelled(profile).executions = profile.executions
        BY DEF Modelled, Profile
      <4> QED BY <3>1, <4>1 DEF Evaluate
    <3> QED BY <3>1, <3>2, ModelledIsProfile, ApprovedPays, Zenon
  <2> QED BY <2>1, ApprovedPays DEF OptimizePays
<1> QED BY <1>1, <1>2, <1>3, PTL DEF PolicySpec

-----------------------------------------------------------------------------
(* The trial                                                                 *)

TrialType == [baseRuns : Nat, baseNs : Nat, optRuns : Nat, optMin : Nat,
              verdict : {"none", "loss", "win", "kept"}]

\* The recorded minimum is no longer than any optimized run.
MinimumIsLeast ==
  /\ trial \in TrialType
  /\ sample \in Nat \cup {NoSample}
  /\ sample # NoSample => trial.optRuns > 0 /\ trial.optMin <= sample

\* A recorded run keeps the minimum below it and below every earlier run.
LEMMA RecordedRunIsLeast ==
  ASSUME NEW t \in TrialType, NEW ns \in Nat
  PROVE  LET u == RecordedRun(t, ns)
         IN  /\ u \in TrialType /\ u.optRuns = t.optRuns + 1
             /\ u.optMin <= ns /\ (t.optRuns > 0 => u.optMin <= t.optMin)
             /\ u.baseRuns = t.baseRuns /\ u.baseNs = t.baseNs /\ u.verdict = t.verdict
<1> DEFINE m == IF t.optRuns = 0 \/ ns < t.optMin THEN ns ELSE t.optMin
<1>1. t.optRuns \in Nat /\ t.optMin \in Nat
  BY DEF TrialType
<1>2. m \in Nat /\ m <= ns /\ (t.optRuns > 0 => m <= t.optMin)
  BY <1>1
<1> HIDE DEF m
<1>3. RecordedRun(t, ns) = [t EXCEPT !.optRuns = @ + 1, !.optMin = m]
  BY DEF RecordedRun, m
<1>4. RecordedRun(t, ns) = [baseRuns |-> t.baseRuns, baseNs |-> t.baseNs,
                            optRuns |-> t.optRuns + 1, optMin |-> m, verdict |-> t.verdict]
  BY <1>3 DEF TrialType
<1>5. /\ t.baseRuns \in Nat /\ t.baseNs \in Nat /\ t.optRuns + 1 \in Nat
      /\ t.verdict \in {"none", "loss", "win", "kept"}
  BY <1>1 DEF TrialType
<1>6. RecordedRun(t, ns) \in TrialType
  BY <1>2, <1>4, <1>5 DEF TrialType
<1> QED BY <1>2, <1>4, <1>6

\* The classification changes nothing but the verdict, once.
LEMMA ClassifiedDecides ==
  ASSUME NEW t \in TrialType
  PROVE  LET u == Classified(t)
         IN  /\ u \in TrialType /\ u.optRuns = t.optRuns /\ u.optMin = t.optMin
             /\ t.verdict # "none" => u.verdict = t.verdict
             /\ (t.verdict = "none" /\ u.verdict = "loss") =>
                  t.optRuns >= TrialWindow /\ 4 * t.optMin * t.baseRuns >= 5 * t.baseNs
BY PolicyAssumption DEF Classified, TrialType

\* What one optimized run does to the trial and to the remembered run.
LEMMA OptimizedRun ==
  ASSUME MinimumIsLeast, NEW ns \in Elapsed, NEW b \in BOOLEAN, RecordOptimized(ns, b)
  PROVE  /\ MinimumIsLeast'
         /\ trial.verdict # "none" => trial'.verdict = trial.verdict
         /\ (trial.verdict = "none" /\ trial'.verdict = "loss") =>
              /\ trial'.optRuns >= TrialWindow
              /\ 4 * trial'.optMin * trial.baseRuns >= 5 * trial.baseNs
<1> DEFINE t == RecordedRun(trial, ns)
<1>1. ns \in Nat /\ trial \in TrialType /\ sample \in Nat \cup {NoSample}
  BY PolicyAssumption DEF MinimumIsLeast
<1>2. /\ t \in TrialType /\ t.optRuns = trial.optRuns + 1
      /\ t.optMin <= ns /\ (trial.optRuns > 0 => t.optMin <= trial.optMin)
      /\ t.baseRuns = trial.baseRuns /\ t.baseNs = trial.baseNs /\ t.verdict = trial.verdict
  BY <1>1, RecordedRunIsLeast
<1>3. /\ trial' = IF b /\ t.verdict = "none" THEN [t EXCEPT !.verdict = "kept"] ELSE Classified(t)
      /\ sample' \in {ns} \cup {sample}
  BY DEF RecordOptimized
<1> HIDE DEF t
<1>4. /\ trial' \in TrialType /\ trial'.optRuns = t.optRuns /\ trial'.optMin = t.optMin
      /\ t.verdict # "none" => trial'.verdict = t.verdict
      /\ (t.verdict = "none" /\ trial'.verdict = "loss") =>
           t.optRuns >= TrialWindow /\ 4 * t.optMin * t.baseRuns >= 5 * t.baseNs
  <2>1. CASE b /\ t.verdict = "none"
    BY <1>2, <1>3, <2>1 DEF TrialType
  <2>2. CASE ~ (b /\ t.verdict = "none")
    BY <1>2, <1>3, <2>2, ClassifiedDecides
  <2> QED BY <2>1, <2>2
<1>5. t.optRuns > 0 /\ t.optMin \in Nat
  BY <1>1, <1>2 DEF TrialType
<1>6. sample' \in Nat \cup {NoSample} /\ (sample' # NoSample => t.optMin <= sample')
  <2>1. CASE sample' = ns
    BY <1>1, <1>2, <2>1
  <2>2. CASE sample' = sample
    BY <1>1, <1>2, <1>5, <2>2 DEF MinimumIsLeast, TrialType, NoSample
  <2> QED BY <1>3, <2>1, <2>2
<1>7. MinimumIsLeast'
  BY <1>4, <1>5, <1>6 DEF MinimumIsLeast
<1> QED BY <1>2, <1>4, <1>7

\* Along every trial the recorded minimum bounds every optimized run.
LEMMA MinimumInvariant == PolicySpec => []MinimumIsLeast
<1>1. PolicyInit => MinimumIsLeast
  BY DEF PolicyInit, MinimumIsLeast, TrialType, NewTrial, NoSample
<1>2. MinimumIsLeast /\ [PolicyNext]_policyVars => MinimumIsLeast'
  <2> SUFFICES ASSUME MinimumIsLeast, [PolicyNext]_policyVars PROVE MinimumIsLeast'
    OBVIOUS
  <2>1. ASSUME NEW ns \in Elapsed, RecordBaseline(ns) PROVE MinimumIsLeast'
    <3>1. ns \in Nat /\ MaxU64 \in Nat /\ trial \in TrialType
      BY PolicyAssumption DEF MinimumIsLeast
    <3>2. SatAdd(trial.baseNs, ns) \in Nat /\ trial.baseRuns + 1 \in Nat
      BY <3>1 DEF SatAdd, TrialType
    <3>3. trial' = [baseRuns |-> trial.baseRuns + 1, baseNs |-> SatAdd(trial.baseNs, ns),
                    optRuns |-> trial.optRuns, optMin |-> trial.optMin, verdict |-> trial.verdict]
      BY <2>1, <3>1 DEF RecordBaseline, TrialType
    <3>4. trial.optRuns \in Nat /\ trial.optMin \in Nat
          /\ trial.verdict \in {"none", "loss", "win", "kept"}
      BY <3>1 DEF TrialType
    <3>5. trial' \in TrialType /\ trial'.optRuns = trial.optRuns /\ trial'.optMin = trial.optMin
      BY <3>2, <3>3, <3>4 DEF TrialType
    <3>6. sample' = sample
      BY <2>1 DEF RecordBaseline
    <3> QED BY <3>5, <3>6 DEF MinimumIsLeast, NoSample
  <2>2. ASSUME NEW ns \in Elapsed, NEW b \in BOOLEAN, RecordOptimized(ns, b) PROVE MinimumIsLeast'
    BY <2>2, OptimizedRun
  <2>3. CASE UNCHANGED policyVars
    BY <2>3 DEF policyVars, MinimumIsLeast
  <2> QED BY <2>1, <2>2, <2>3 DEF PolicyNext
<1> QED BY <1>1, <1>2, PTL DEF PolicySpec

\* classify_tier2_trial never condemns code that was once fast enough.
THEOREM LossIsNeverOneSlowRun == PolicySpec => LossMeansEveryRunWasSlow
<1> DEFINE Step == /\ (trial.verdict = "none" /\ trial'.verdict = "loss") =>
                        /\ trial'.optRuns >= TrialWindow
                        /\ sample' # NoSample => 4 * sample' * trial.baseRuns >= 5 * trial.baseNs
                   /\ trial.verdict # "none" => trial'.verdict = trial.verdict
<1>1. MinimumIsLeast /\ MinimumIsLeast' /\ [PolicyNext]_policyVars => [Step]_policyVars
  <2> SUFFICES ASSUME MinimumIsLeast, MinimumIsLeast', PolicyNext PROVE Step
    OBVIOUS
  <2>1. ASSUME NEW ns \in Elapsed, RecordBaseline(ns) PROVE Step
    BY <2>1 DEF RecordBaseline, MinimumIsLeast, TrialType
  <2>2. ASSUME NEW ns \in Elapsed, NEW b \in BOOLEAN, RecordOptimized(ns, b) PROVE Step
    <3>1. /\ trial.verdict # "none" => trial'.verdict = trial.verdict
          /\ (trial.verdict = "none" /\ trial'.verdict = "loss") =>
               /\ trial'.optRuns >= TrialWindow
               /\ 4 * trial'.optMin * trial.baseRuns >= 5 * trial.baseNs
      BY <2>2, OptimizedRun
    <3>2. ASSUME sample' # NoSample,
                 4 * trial'.optMin * trial.baseRuns >= 5 * trial.baseNs
          PROVE  4 * sample' * trial.baseRuns >= 5 * trial.baseNs
      <4>1. /\ trial'.optMin \in Nat /\ sample' \in Nat /\ trial'.optMin <= sample'
            /\ trial.baseRuns \in Nat /\ trial.baseNs \in Nat
        BY <3>2 DEF MinimumIsLeast, TrialType
      <4>2. (4 * trial'.optMin) * trial.baseRuns <= (4 * sample') * trial.baseRuns
        BY <4>1, TimesMonotonic
      <4> QED BY <3>2, <4>1, <4>2
    <3> QED BY <3>1, <3>2
  <2> QED BY <2>1, <2>2 DEF PolicyNext
<1> QED BY <1>1, MinimumInvariant, PTL DEF PolicySpec, LossMeansEveryRunWasSlow

-----------------------------------------------------------------------------
(* The backoff schedule of a caller                                          *)

\* The schedule of a state of the backend.
Scheduled(q) ==
  /\ {"wait", "next", "rejections"} \subseteq DOMAIN q
  /\ q.wait \in 0..(NoRetry - 1) /\ q.next \in 0..NoRetry /\ q.rejections \in Nat
  /\ q.wait > 0 => q.next <= q.wait

\* The schedule depends on three fields only.
LEMMA SameSchedule ==
  ASSUME NEW q, NEW r, Scheduled(q), DOMAIN r = DOMAIN q,
         r.wait = q.wait, r.next = q.next, r.rejections = q.rejections
  PROVE  Scheduled(r)
BY DEF Scheduled

\* A tick shortens the backoff and the time to the retry together.
LEMMA TickKeeps ==
  ASSUME NEW q, Scheduled(q)
  PROVE  Scheduled(Tick(q))
<1>1. {"wait", "next", "rejections"} \subseteq DOMAIN q
  BY DEF Scheduled
<1>2. /\ DOMAIN Tick(q) = DOMAIN q /\ Tick(q).rejections = q.rejections
      /\ Tick(q).wait = Past(q.wait)
      /\ Tick(q).next = (IF q.next = NoRetry THEN q.next ELSE Past(q.next))
  BY <1>1, Zenon DEF Tick
<1> QED BY <1>2, BackoffAssumption DEF Scheduled, Past

\* A refused price sets the backoff and schedules a retry for its end.
LEMMA RejectedKeeps ==
  ASSUME NEW q, Scheduled(q), NEW r \in Rejected(q)
  PROVE  Scheduled(r)
<1> DEFINE n == q.rejections + 1
<1>1. /\ {"wait", "next", "rejections"} \subseteq DOMAIN q
      /\ q.next \in 0..NoRetry /\ q.rejections \in Nat /\ n \in Nat /\ MaxRejections \in Nat
  BY BackoffAssumption DEF Scheduled
<1>2. CASE n >= MaxRejections
  <2>1. PICK b \in {q.base, "demoted"} :
          r = [q EXCEPT !.rejections = n, !.wait = 1, !.next = Least(@, 1),
                        !.blacklisted = TRUE, !.base = b]
    BY <1>2, Zenon DEF Rejected
  <2>2. DOMAIN r = DOMAIN q /\ r.wait = 1 /\ r.next = Least(q.next, 1) /\ r.rejections = n
    BY <1>1, <2>1, Zenon
  <2> QED BY <1>1, <2>2, BackoffAssumption DEF Scheduled, Least
<1>3. CASE ~ (n >= MaxRejections)
  <2>1. r = [q EXCEPT !.rejections = n, !.wait = 2^n, !.next = Least(@, 2^n)]
    BY <1>3, Zenon DEF Rejected
  <2>2. 2^n \in 1..(NoRetry - 1)
    BY <1>1, <1>3, BackoffAssumption
  <2>3. DOMAIN r = DOMAIN q /\ r.wait = 2^n /\ r.next = Least(q.next, 2^n) /\ r.rejections = n
    BY <1>1, <2>1, Zenon
  <2> QED BY <1>1, <2>2, <2>3, BackoffAssumption DEF Scheduled, Least
<1> QED BY <1>2, <1>3

\* Queueing and settling leave the schedule; approval ends the backoff.
LEMMA QueuedKeeps ==
  ASSUME NEW q, Scheduled(q)
  PROVE  Scheduled(Queued(q)) /\ Scheduled(Approved(q)) /\ Scheduled(Settled(q))
<1>1. {"wait", "next", "rejections"} \subseteq DOMAIN q
  BY DEF Scheduled
<1>2. /\ DOMAIN Queued(q) = DOMAIN q /\ Queued(q).wait = q.wait
      /\ Queued(q).next = q.next /\ Queued(q).rejections = q.rejections
  BY <1>1, Zenon DEF Queued
<1>3. /\ DOMAIN Settled(q) = DOMAIN q /\ Settled(q).wait = q.wait
      /\ Settled(q).next = q.next /\ Settled(q).rejections = q.rejections
  BY <1>1, Zenon DEF Settled
<1>4. /\ DOMAIN Approved(q) = DOMAIN q /\ Approved(q).wait = 0
      /\ Approved(q).next = q.next /\ Approved(q).rejections = 0
  BY <1>1, Zenon DEF Approved
<1>5. Scheduled(Approved(q))
  BY <1>1, <1>4, BackoffAssumption DEF Scheduled
<1>6. Scheduled(Queued(q))
  BY <1>2, SameSchedule, Zenon
<1>7. Scheduled(Settled(q))
  BY <1>3, SameSchedule, Zenon
<1> QED BY <1>5, <1>6, <1>7

\* An offer leaves the schedule, whether the coordinator takes it or not.
LEMMA OfferedKeeps ==
  ASSUME NEW q, Scheduled(q), NEW r \in Offered(q)
  PROVE  Scheduled(r)
<1>1. CASE r = Queued(q)
  BY <1>1, QueuedKeeps, Zenon
<1>2. CASE r = [q EXCEPT !.refused = TRUE]
  <2>1. DOMAIN r = DOMAIN q /\ r.wait = q.wait /\ r.next = q.next /\ r.rejections = q.rejections
    BY <1>2, Zenon DEF Scheduled
  <2> QED BY <2>1, SameSchedule, Zenon
<1> QED BY <1>1, <1>2, Zenon DEF Offered

\* A scan comes to one of five decisions.
LEMMA GateDecides ==
  ASSUME NEW q
  PROVE  Gate(q) \in {"transient", "defer", "settle", "stay", "open"}
BY DEF Gate

\* No outcome of a scan leaves a backoff without its retry.
LEMMA ScannedKeeps ==
  ASSUME NEW q, Scheduled(q), NEW r \in Scanned(q)
  PROVE  Scheduled(r)
<1>1. CASE ~ IsReady(q) \/ q.deferred = ScanInputs(q)
  BY <1>1, Zenon DEF Scanned
<1>2. CASE ~ (~ IsReady(q) \/ q.deferred = ScanInputs(q))
  <2>1. CASE Gate(q) = "transient"
    <3>1. r = [q EXCEPT !.deferred = NoInputs]
      BY <1>2, <2>1, Zenon DEF Scanned
    <3>2. DOMAIN r = DOMAIN q /\ r.wait = q.wait /\ r.next = q.next /\ r.rejections = q.rejections
      BY <3>1, Zenon DEF Scheduled
    <3> QED BY <3>2, SameSchedule, Zenon
  <2>2. CASE Gate(q) = "defer"
    <3>1. r = [q EXCEPT !.deferred = ScanInputs(q)]
      BY <1>2, <2>2, Zenon DEF Scanned
    <3>2. DOMAIN r = DOMAIN q /\ r.wait = q.wait /\ r.next = q.next /\ r.rejections = q.rejections
      BY <3>1, Zenon DEF Scheduled
    <3> QED BY <3>2, SameSchedule, Zenon
  <2>3. CASE Gate(q) = "settle"
    <3>1. r = Settled(q)
      BY <1>2, <2>3, Zenon DEF Scanned
    <3> QED BY <3>1, QueuedKeeps, Zenon
  <2>4. CASE Gate(q) = "open"
    <3>1. r \in Offered(q) \cup Offered(Approved(q)) \cup Rejected(q)
      BY <1>2, <2>4, Zenon DEF Scanned
    <3>2. Scheduled(Approved(q))
      BY QueuedKeeps, Zenon
    <3> QED BY <3>1, <3>2, OfferedKeeps, RejectedKeeps, Zenon
  <2>5. CASE Gate(q) = "stay"
    BY <1>2, <2>5, Zenon DEF Scanned
  <2> QED BY <2>1, <2>2, <2>3, <2>4, <2>5, GateDecides, Zenon
<1> QED BY <1>1, <1>2

\* Finished compiles do not touch the schedule.
LEMMA DrainedKeeps ==
  ASSUME NEW q, Scheduled(q), NEW r \in Drained(q)
  PROVE  Scheduled(r)
<1>1. PICK o \in OptOutcomes(q), b \in CalleeBaseOutcomes(q), c \in CalleeOptOutcomes(q) :
        r = Landed(q, o, b, c)
  BY DEF Drained
<1>2. DOMAIN r = DOMAIN q /\ r.wait = q.wait /\ r.next = q.next /\ r.rejections = q.rejections
  BY <1>1, Zenon DEF Scheduled, Landed
<1> QED BY <1>2, SameSchedule, Zenon

\* A whole maintenance keeps the schedule, before it is rescheduled.
LEMMA MaintainedKeeps ==
  ASSUME NEW q, Scheduled(q), NEW r \in Maintained(q)
  PROVE  Scheduled(r)
<1> DEFINE s == [q EXCEPT !.ticks = 0, !.lastFeedback = version]
<1>1. DOMAIN s = DOMAIN q /\ s.wait = q.wait /\ s.next = q.next /\ s.rejections = q.rejections
  BY Zenon DEF Scheduled
<1>2. Scheduled(s)
  BY <1>1, SameSchedule, Zenon
<1>3. PICK d \in Drained(Tick(s)) : r \in Scanned([d EXCEPT !.lastInstalled = d.installed])
  BY Zenon DEF Maintained
<1> HIDE DEF s
<1>4. Scheduled(Tick(s))
  BY <1>2, TickKeeps, Zenon
<1>5. Scheduled(d)
  BY <1>3, <1>4, DrainedKeeps, Zenon
<1> DEFINE e == [d EXCEPT !.lastInstalled = d.installed]
<1>6. DOMAIN e = DOMAIN d /\ e.wait = d.wait /\ e.next = d.next /\ e.rejections = d.rejections
  BY <1>5, Zenon DEF Scheduled
<1>7. Scheduled(e)
  BY <1>5, <1>6, SameSchedule, Zenon
<1> HIDE DEF e
<1>8. r \in Scanned(e)
  BY <1>3, Zenon DEF e
<1> QED BY <1>7, <1>8, ScannedKeeps, Zenon

\* The schedule that maintenance_if_due computes afresh is the backoff itself.
LEMMA RescheduledKeeps ==
  ASSUME NEW q, Scheduled(q)
  PROVE  Scheduled(Rescheduled(q))
<1>1. /\ {"wait", "next", "rejections"} \subseteq DOMAIN q
      /\ q.wait \in 0..(NoRetry - 1) /\ q.rejections \in Nat
  BY DEF Scheduled
<1>2. /\ DOMAIN Rescheduled(q) = DOMAIN q /\ Rescheduled(q).wait = q.wait
      /\ Rescheduled(q).next = (IF q.wait > 0 THEN q.wait ELSE NoRetry)
      /\ Rescheduled(q).rejections = q.rejections
  BY <1>1, Zenon DEF Rescheduled
<1> QED BY <1>1, <1>2, BackoffAssumption DEF Scheduled

\* A counted run of the baseline does not touch the schedule.
LEMMA RanKeeps ==
  ASSUME NEW q, Scheduled(q), NEW r \in Ran(q)
  PROVE  Scheduled(r)
<1>1. PICK w \in WarmAfter(q), t \in TreeAfter(q) : r = Counted(q, w, t)
  BY DEF Ran
<1>2. DOMAIN r = DOMAIN q /\ r.wait = q.wait /\ r.next = q.next /\ r.rejections = q.rejections
  BY <1>1, Zenon DEF Scheduled, Counted
<1> QED BY <1>2, SameSchedule, Zenon

\* A callback keeps the schedule, whether maintenance is due or not.
LEMMA IfDueKeeps ==
  ASSUME NEW q, Scheduled(q), NEW r \in IfDue(q)
  PROVE  Scheduled(r)
<1> DEFINE t == [q EXCEPT !.ticks = @ + 1]
<1>1. DOMAIN t = DOMAIN q /\ t.wait = q.wait /\ t.next = q.next /\ t.rejections = q.rejections
  BY Zenon DEF Scheduled
<1>2. Scheduled(t)
  BY <1>1, SameSchedule, Zenon
<1>3. r = Tick(t) \/ \E m \in Maintained(t) : r = Rescheduled(m)
  BY Zenon DEF IfDue
<1> HIDE DEF t
<1> QED BY <1>2, <1>3, TickKeeps, MaintainedKeeps, RescheduledKeeps, Zenon

-----------------------------------------------------------------------------
\* Whatever maintenance does and whenever it runs, a caller that backs off has
\* a retry scheduled no later than the end of its backoff.
THEOREM RetriesAreScheduled == PromotionSpec => []RetryIsScheduled
<1>1. PromotionInit => Scheduled(p)
  BY BackoffAssumption DEF PromotionInit, Scheduled
<1>2. Scheduled(p) /\ [PromotionNext]_promotionVars => Scheduled(p)'
  <2> SUFFICES ASSUME Scheduled(p), [PromotionNext]_promotionVars PROVE Scheduled(p')
    BY DEF Scheduled
  <2>0. {"wait", "next", "rejections"} \subseteq DOMAIN p
    BY DEF Scheduled
  <2>1. CASE Callback
    <3>1. PICK q \in {p} \cup Ran(p) : p' \in IfDue(q)
      BY <2>1, Zenon DEF Callback
    <3>2. ASSUME q \in Ran(p) PROVE Scheduled(q)
      BY <3>2, RanKeeps, Zenon
    <3> QED BY <3>1, <3>2, IfDueKeeps, Zenon
  <2>2. CASE Poll
    BY <2>2, MaintainedKeeps, Zenon DEF Poll
  <2>3. CASE SubmitSnapshot
    <3> DEFINE q == [p EXCEPT !.held = TRUE]
    <3>1. DOMAIN q = DOMAIN p /\ q.wait = p.wait /\ q.next = p.next /\ q.rejections = p.rejections
      BY <2>0, Zenon
    <3>2. Scheduled(q)
      BY <3>1, SameSchedule, Zenon
    <3>3. p' \in Maintained(q)
      BY <2>3, Zenon DEF SubmitSnapshot
    <3> HIDE DEF q
    <3> QED BY <3>2, <3>3, MaintainedKeeps, Zenon
  <2>4. CASE RetryAllowed \/ CalleeLosesCode
    <3>1. /\ DOMAIN p' = DOMAIN p /\ p'.wait = p.wait
          /\ p'.next = p.next /\ p'.rejections = p.rejections
      BY <2>0, <2>4, Zenon DEF RetryAllowed, CalleeLosesCode
    <3> QED BY <3>1, SameSchedule, Zenon
  <2>5. CASE RecordFeedback
    BY <2>5, TickKeeps, Zenon DEF RecordFeedback
  <2>6. CASE RecordProperty
    <3>1. Scheduled(Tick(p))
      BY TickKeeps, Zenon
    <3>2. p' = [Tick(p) EXCEPT !.shapes = 1]
      BY <2>6, Zenon DEF RecordProperty
    <3>3. /\ DOMAIN p' = DOMAIN Tick(p) /\ p'.wait = Tick(p).wait
          /\ p'.next = Tick(p).next /\ p'.rejections = Tick(p).rejections
      BY <3>1, <3>2, Zenon DEF Scheduled
    <3> QED BY <3>1, <3>3, SameSchedule, Zenon
  <2>7. CASE Retire
    <3> DEFINE q == [p EXCEPT !.held = FALSE, !.deferred = NoInputs, !.ticks = 0,
                              !.base = "retired", !.opt = "retired",
                              !.lastFeedback = version, !.lastInstalled = p.installed]
    <3>1. DOMAIN q = DOMAIN p /\ q.wait = p.wait /\ q.next = p.next /\ q.rejections = p.rejections
      BY <2>0, Zenon
    <3>2. Scheduled(q)
      BY <3>1, SameSchedule, Zenon
    <3>3. p' = Tick(q)
      BY <2>7, Zenon DEF Retire
    <3> HIDE DEF q
    <3> QED BY <3>2, <3>3, TickKeeps, Zenon
  <2>8. CASE UNCHANGED promotionVars
    BY <2>8, Zenon DEF promotionVars
  <2> QED BY <2>1, <2>2, <2>3, <2>4, <2>5, <2>6, <2>7, <2>8 DEF PromotionNext
<1>3. Scheduled(p) => RetryIsScheduled
  BY DEF Scheduled, RetryIsScheduled
<1> QED BY <1>1, <1>2, <1>3, PTL DEF PromotionSpec
=============================================================================
