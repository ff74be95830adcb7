------------------------------ MODULE TierPolicy ------------------------------
(***************************************************************************)
(* The arithmetic of tier decisions: what an optimizing compile must save to *)
(* be worth its cost (Profitability), in saturating unsigned integers, and   *)
(* the bounded trial that decides once whether installed optimized code is a *)
(* loss (ProductionProfile, classify_tier2_trial).                           *)
(*                                                                         *)
(* `profile` is an input of the pure functions; `trial` is the measured      *)
(* profile of one function with optimized code.                              *)
(***************************************************************************)
EXTENDS Integers

CONSTANTS MaxU64,         \* the largest unsigned integer
          Profiles,       \* the profiles to be priced
          TrialWindow,    \* optimized runs of a trial (8 in the code)
          TrialRuns,      \* runs a price needs (8 in the code)
          Elapsed,        \* durations of a run
          MaxRuns         \* bound on the runs of each tier

Profile ==
  [bytecodes : 0..MaxU64, helpers : 0..MaxU64, compile : 0..MaxU64, install : 0..MaxU64,
   executions : 0..MaxU64, interpreter : 0..MaxU64, baseline : 0..MaxU64, optimized : 0..MaxU64]

ASSUME PolicyAssumption ==
  /\ MaxU64 \in Nat \ {0} /\ Profiles \subseteq Profile
  /\ TrialWindow \in Nat \ {0} /\ TrialRuns \in Nat /\ Elapsed \subseteq Nat /\ MaxRuns \in Nat

VARIABLES profile,   \* the profile that is priced
          trial,     \* the measured profile of a function
          sample     \* history: the duration of some optimized run of the trial

policyVars == <<profile, trial, sample>>

-----------------------------------------------------------------------------
(* Saturating arithmetic.                                                    *)

\* Faulty variant: the sum wraps.
WrapAdd(a, b) == (a + b) % (MaxU64 + 1)

SatAdd(a, b) == IF a + b > MaxU64 THEN MaxU64 ELSE a + b
SatMul(a, b) == IF a * b > MaxU64 THEN MaxU64 ELSE a * b
SatSub(a, b) == IF a < b THEN 0 ELSE a - b
CeilDiv(a, b) == IF b = 0 THEN MaxU64
                 ELSE IF a % b = 0 THEN a \div b ELSE SatAdd(a \div b, 1)

-----------------------------------------------------------------------------
(* Profitability.                                                            *)

Cost(q) == SatAdd(q.compile, q.install)
Saving(q) == SatSub(q.baseline \div q.executions, q.optimized \div q.executions)

\* A quarter or more of the bytecodes call helpers.
IsHelperDominated(q) ==
  q.bytecodes # 0 /\ SatMul(q.helpers, 1000) >= SatMul(q.bytecodes, 250)

\* The decision of Profitability::default(), the only policy the backend builds.
\* (A policy with a fixed tier returns that tier; only unit tests build one.)
Evaluate(q) ==
  IF q.executions = 0 \/ q.interpreter = 0 THEN "interpret"
  ELSE IF q.baseline \div q.executions >= q.interpreter \div q.executions THEN "interpret"
  ELSE IF IsHelperDominated(q) THEN "baseline"
  ELSE IF Saving(q) = 0 \/ SatMul(Saving(q), q.executions) <= Cost(q) THEN "baseline"
  ELSE "optimize"

BreakEven(q) == CeilDiv(Cost(q), Saving(q))

\* The profile that prices a first compile: no optimized run exists, so a
\* saving of a quarter is assumed.
Modelled(q) ==
  LET run == q.baseline \div q.executions
  IN  [q EXCEPT !.interpreter = SatMul(SatMul(run, 2), q.executions),
                !.optimized = SatMul(SatMul(run, 3) \div 4, q.executions),
                !.helpers = 0]

EvaluateTrial(q) ==
  IF q.executions < TrialRuns \/ q.baseline = 0 \/ q.bytecodes = 0
  THEN "baseline" ELSE Evaluate(Modelled(q))

-----------------------------------------------------------------------------
(* The trial of installed optimized code.                                    *)

NoSample == -1
NewTrial == [baseRuns |-> 0, baseNs |-> 0, optRuns |-> 0, optMin |-> 0, verdict |-> "none"]

PolicyInit ==
  /\ profile \in Profiles
  /\ trial = NewTrial
  /\ sample = NoSample

RecordBaseline(ns) ==
  /\ trial.baseRuns < MaxRuns
  /\ trial' = [trial EXCEPT !.baseRuns = @ + 1, !.baseNs = SatAdd(@, ns)]
  /\ UNCHANGED <<profile, sample>>

\* Faulty variant: the trial compares its last run, not its fastest.
RecordedLast(t, ns) == [t EXCEPT !.optRuns = @ + 1, !.optMin = ns]

RecordedRun(t, ns) ==
  [t EXCEPT !.optRuns = @ + 1,
            !.optMin = IF t.optRuns = 0 \/ ns < @ THEN ns ELSE @]

\* A loss is a fastest run a quarter slower than the average baseline run.
Classified(t) ==
  IF t.verdict # "none" \/ t.optRuns < TrialWindow \/ t.baseRuns = 0 THEN t
  ELSE [t EXCEPT !.verdict = IF 4 * t.optMin * t.baseRuns >= 5 * t.baseNs THEN "loss" ELSE "win"]

\* A run of the optimized code ends; a natively recursive function is never
\* classified, its trial just ends.
RecordOptimized(ns, recursive) ==
  /\ trial.optRuns < MaxRuns
  /\ LET t == RecordedRun(trial, ns)
     IN  trial' = IF recursive /\ t.verdict = "none" THEN [t EXCEPT !.verdict = "kept"]
                  ELSE Classified(t)
  /\ sample' \in {ns} \cup {sample}
  /\ UNCHANGED profile

PolicyNext == \E ns \in Elapsed : RecordBaseline(ns) \/ \E b \in BOOLEAN : RecordOptimized(ns, b)

PolicySpec == PolicyInit /\ [][PolicyNext]_policyVars

-----------------------------------------------------------------------------
(* Properties                                                                *)

\* In exact arithmetic, the runs counted so far at the saving of each outweigh
\* the cost, and the reported break-even is the least number of runs that does,
\* and has been passed.
PaysFor(q) ==
  /\ Saving(q) * q.executions > q.compile + q.install
  /\ BreakEven(q) <= q.executions
  /\ BreakEven(q) * Saving(q) >= q.compile + q.install
  /\ BreakEven(q) = 0 \/ (BreakEven(q) - 1) * Saving(q) < q.compile + q.install

\* A compile is only approved when it pays: at the measured saving, and before
\* there is one, at the saving that evaluate_trial assumes.  Sums and products
\* saturate, so an overflowing cost must never look cheap.
OptimizePays ==
  /\ Evaluate(profile) = "optimize" => PaysFor(profile)
  /\ EvaluateTrial(profile) = "optimize" => PaysFor(Modelled(profile))

\* Optimized code is judged a loss only if each of its runs was a quarter
\* slower than the average baseline run, so one slow run never condemns it; and
\* only a full window of runs is judged, once.
LossMeansEveryRunWasSlow ==
  [][/\ (trial.verdict = "none" /\ trial'.verdict = "loss") =>
          /\ trial'.optRuns >= TrialWindow
          /\ sample' # NoSample => 4 * sample' * trial.baseRuns >= 5 * trial.baseNs
     /\ trial.verdict # "none" => trial'.verdict = trial.verdict]_policyVars
=============================================================================
