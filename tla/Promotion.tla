------------------------------ MODULE Promotion ------------------------------
(***************************************************************************)
(* How the production backend promotes one hot function, the caller, to the  *)
(* optimizing tier.  Callbacks tick a clock; a callback that finds something *)
(* changed runs maintenance, which applies finished compiles and then scans  *)
(* the caller: wait for a callee or for feedback, price the compile, back    *)
(* off, or queue it.  A deferral is cached with the inputs it was decided    *)
(* from, and the scan is skipped while those inputs are equal.               *)
(*                                                                         *)
(* The feedback is FeedbackTable's.  The coordinator and the compilers are   *)
(* abstracted to the states of four compiles: the baseline and the optimized *)
(* one of the caller and of its callee.  Clocks are relative: `wait` and     *)
(* `next` count the ticks that are left.  A load adds the facts about the    *)
(* caller's bytecode and the compiles the coordinator allows it.             *)
(***************************************************************************)
EXTENDS FeedbackTable

CONSTANTS Caller, Callee,
          Interval,        \* HOT_MAINTENANCE_INTERVAL (64 in the code)
          MaxRejections,   \* rejected prices before a trial is funded (5 in the code)
          ElementSamples,  \* baseline runs of the element-loop gate (8 in the code)
          NoRetry,         \* next_profitability_retry of no retry (u64::MAX in the code)
          MaxLosses        \* bound on how often the callee loses its code

VARIABLE p    \* the backend's state about the caller, see PromotionInit

promotionVars == <<p, feedbackVars>>


\* Every backoff ends before the retry that never comes.
ASSUME BackoffAssumption ==
  /\ MaxRejections \in Nat \ {0} /\ NoRetry \in Nat
  /\ \A n \in 0..MaxRejections : 2^n \in 1..(NoRetry - 1)

NoInputs == [feedback |-> -1]
body == load.body     \* facts about the caller's bytecode

\* The caller's baseline is installed, and with it all the code of the callee or
\* none.
Installs == IF load.ready THEN 3 ELSE 1

PromotionInit ==
  /\ FeedbackInit
  /\ p = [held |-> TRUE,             \* optimizing_snapshots has the caller
          base |-> "installed", opt |-> "cold", attempts |-> 0,
          calleeBase |-> IF load.ready THEN "installed" ELSE "none",
          calleeOpt |-> IF load.ready THEN "installed" ELSE "cold", losses |-> 0,
          installed |-> Installs,            \* installs so far, of any artifact
          samples |-> 0,             \* baseline_executions.min(8)
          warm |-> FALSE,            \* baseline_executions >= 16
          tree |-> "unknown",        \* what the baseline's profile says of recursion
          shapes |-> 0,              \* ShapeFeedbackTable::version
          deferred |-> NoInputs,     \* tier2_deferred
          lastFeedback |-> 0, lastInstalled |-> Installs, ticks |-> 0,
          rejections |-> 0, wait |-> 0, next |-> NoRetry,
          blacklisted |-> FALSE,     \* profitability_blacklisted
          disabled |-> FALSE,        \* feedback_disabled
          refused |-> FALSE]         \* history: the coordinator just refused the compile

-----------------------------------------------------------------------------
(* The scan of the caller.                                                   *)

Least(a, b) == IF a < b THEN a ELSE b
Past(n) == IF n = 0 THEN 0 ELSE n - 1
Tick(q) == [q EXCEPT !.wait = Past(@), !.next = IF @ = NoRetry THEN @ ELSE Past(@),
                     !.refused = FALSE]

\* ready_for_tier2.
IsReady(q) ==
  /\ q.held /\ ~ q.disabled /\ q.wait = 0
  /\ q.base = "installed" \/ q.blacklisted
  /\ q.opt = "cold"

\* Tier2ScanInputs.
ScanInputs(q) ==
  [feedback |-> version, shapes |-> q.shapes, installed |-> q.installed, samples |-> q.samples]

Site == <<Caller, 1>>
HasCode(q) == q.calleeBase = "installed" \/ q.calleeOpt = "installed"

\* The site calls one other function with stable types (call_specialization_at).
IsTyped == /\ Site \in DOMAIN tab.signatures /\ IsSpecializable(tab.signatures[Site])
           /\ tab.signatures[Site].targets.obs # {Caller}
IsDirect(q) == IsTyped /\ q.calleeOpt = "installed" /\ body.direct

\* The site is linked to another function with a native entry (native_call_ready).
IsNativeCall(q) ==
  /\ Site \in DOMAIN tab.signatures /\ IsLinkable(tab.signatures[Site])
  /\ tab.signatures[Site].targets.obs # {Caller}
  /\ body.recursive /\ q.calleeOpt = "installed"

\* A typed call in a loop: wait for the callee's code if that will help.
\* "transient" is a wait for a compile whose end changes no scan input.
CalleeStatus(q) ==
  IF ~ body.loopCall \/ ~ IsTyped \/ IsDirect(q) THEN "ready"
  ELSE IF HasCode(q) /\ body.inlines /\ IsLinkable(tab.signatures[Site])
       THEN IF q.calleeOpt = "flight" /\ body.direct THEN "transient" ELSE "ready"
       ELSE IF body.recursive /\ q.calleeOpt \in {"cold", "flight"} THEN "transient"
       ELSE IF HasCode(q) THEN "ready" ELSE "unresolved"

PropertyPending(q) == body.field /\ q.shapes = 0

\* An element loop passes with complete baseline runs, an object argument and
\* numeric returns.
IsElementLoop(q) ==
  /\ body.elements /\ q.samples >= ElementSamples
  /\ <<Caller>> \in DOMAIN tab.calls /\ CallIsMono(tab.calls[<<Caller>>])
  /\ \E i \in DOMAIN tab.calls[<<Caller>>].slots :
       "object" \in tab.calls[<<Caller>>].slots[i].obs
  /\ Exits(Caller) # {}
  /\ \A c \in Exits(Caller) : c.obs # {} /\ c.obs \subseteq {"int32", "float64"}

HasStableValue ==
  \E k \in DOMAIN tab.types :
    k[1] = Caller /\ k[3] = "value" /\ State(tab.types[k]) = "mono"

\* A numeric function waits for a complete signature.
NumericPending(q) ==
  /\ body.numeric
  /\ <<Caller>> \in DOMAIN tab.calls \/ HasStableValue
  /\ ~ IsBounded(Caller) /\ ~ IsElementLoop(q)

\* A function that only calls itself, with a bounded signature that a native
\* entry can be planned for (native_call_shape), and such a function whose
\* recursion is deep enough (native_call_admitted).
IsSelfCall ==
  /\ body.selfCall /\ IsBounded(Caller)
  /\ Site \in DOMAIN tab.signatures /\ IsLinkable(tab.signatures[Site])
  /\ tab.signatures[Site].targets.obs = {Caller}
IsAdmitted(q) == IsSelfCall /\ q.tree = "deep"

\* The decision of a scan that looks.  Bytecode that the optimizer cannot
\* translate goes back to the interpreter after a warmup, exception regions stay
\* on their baseline, and so does recursion while it is being profiled.  (The
\* first two are decided before tier2_deferred is read; such bytecode is never
\* deferred.)
Gate(q) ==
  IF body.untranslatable THEN IF q.blacklisted \/ q.warm THEN "settle" ELSE "stay"
  ELSE IF body.exceptions THEN "stay"
  ELSE IF CalleeStatus(q) = "transient" THEN "transient"
  ELSE IF CalleeStatus(q) = "unresolved" \/ PropertyPending(q) THEN "defer"
  ELSE IF IsSelfCall /\ q.tree = "unknown" /\ q.base = "installed" THEN "stay"
  ELSE IF body.callOnly /\ ~ IsDirect(q) /\ ~ IsNativeCall(q) /\ ~ IsAdmitted(q) THEN "settle"
  ELSE IF NumericPending(q) THEN "defer" ELSE "open"

\* Stable call, property or element feedback funds a trial by itself.
IsStableIC(q) ==
  \/ IsTyped \/ (body.field /\ q.shapes > 0) \/ IsAdmitted(q)
  \/ \E k \in DOMAIN tab.arrays : k[1] = Caller /\ CanSpecialize(tab.arrays[k])

\* Faulty variant: the backoff is capped, and no trial is ever funded.
RejectedForever(q) ==
  LET n == Least(q.rejections + 1, MaxRejections)
  IN  {[q EXCEPT !.rejections = n, !.wait = 2^n, !.next = Least(@, 2^n)]}

\* The price is refused: back off twice as long each time, then fund one trial
\* and, where entering the baseline may cost more than running it, demote it.
Rejected(q) ==
  LET n == q.rejections + 1
  IN  IF n >= MaxRejections
      THEN {[q EXCEPT !.rejections = n, !.wait = 1, !.next = Least(@, 1),
                      !.blacklisted = TRUE, !.base = b] : b \in {q.base, "demoted"}}
      ELSE {[q EXCEPT !.rejections = n, !.wait = 2^n, !.next = Least(@, 2^n)]}

\* The compile is queued with the current feedback; the snapshot moves to
\* tier2_sources.
Queued(q) == [q EXCEPT !.held = FALSE, !.opt = "flight", !.deferred = NoInputs,
                       !.attempts = @ + 1]

\* The coordinator may refuse the request (it is shut down, the function is
\* retired, or a limit is reached): then the snapshot is put back and nothing
\* else changes.
Offered(q) == {Queued(q), [q EXCEPT !.refused = TRUE]}

\* The price is right: the backoff is forgotten.
Approved(q) == [q EXCEPT !.rejections = 0, !.wait = 0]

\* A function that only calls, or that cannot be translated, goes back to the
\* interpreter for good.
Settled(q) == [q EXCEPT !.held = FALSE, !.disabled = TRUE,
                        !.blacklisted = TRUE, !.base = "demoted"]

\* What one scan may make of the caller.  Timing decides whether it pays.
Scanned(q) ==
  IF ~ IsReady(q) \/ q.deferred = ScanInputs(q) THEN {q}
  ELSE LET gate == Gate(q) IN
       CASE gate = "transient" -> {[q EXCEPT !.deferred = NoInputs]}
         [] gate = "defer"     -> {[q EXCEPT !.deferred = ScanInputs(q)]}
         [] gate = "settle"    -> {Settled(q)}
         [] gate = "stay"      -> {q}
         [] gate = "open"      ->
              IF IsStableIC(q) \/ q.blacklisted THEN Offered(q)
              ELSE Offered(Approved(q)) \cup Rejected(q)

-----------------------------------------------------------------------------
(* Maintenance and the callbacks that run it.                                *)

CallsCallee == "signature" \in load.events /\ Callee \in load.callees

\* What a drain may find finished, and the callee's own scan that precedes the
\* caller's (it matters to a caller that calls; for the others the callee stands
\* for any function that installs code).  The coordinator blacklists the caller
\* after its last attempt.
OptOutcomes(q) ==
  IF q.opt # "flight" THEN {q.opt}
  ELSE {"flight", "installed", IF q.attempts >= load.attempts THEN "blacklisted" ELSE "backoff"}
CalleeBaseOutcomes(q) == IF q.calleeBase = "none" THEN {"none", "installed"} ELSE {q.calleeBase}
CalleeOptOutcomes(q) ==
  CASE q.calleeOpt = "flight" -> {"flight", "installed", "failed"}
    [] q.calleeOpt = "cold" /\ q.calleeBase = "installed" /\ CallsCallee -> {"cold", "flight"}
    [] OTHER -> {q.calleeOpt}

New(old, now) == IF old # "installed" /\ now = "installed" THEN 1 ELSE 0
Landed(q, o, b, c) ==
  [q EXCEPT !.opt = o, !.calleeBase = b, !.calleeOpt = c,
            !.installed = @ + New(q.opt, o) + New(q.calleeBase, b) + New(q.calleeOpt, c)]
Drained(q) ==
  {Landed(q, o, b, c) :
     o \in OptOutcomes(q), b \in CalleeBaseOutcomes(q), c \in CalleeOptOutcomes(q)}

Maintained(q) ==
  UNION {Scanned([d EXCEPT !.lastInstalled = d.installed]) :
           d \in Drained(Tick([q EXCEPT !.ticks = 0, !.lastFeedback = version]))}

IsDue(q) == \/ q.ticks >= Interval \/ q.next = 0
            \/ version # q.lastFeedback \/ q.installed # q.lastInstalled

\* Only a retry in the future makes the next maintenance due.
Rescheduled(q) == [q EXCEPT !.next = IF q.wait > 0 THEN q.wait ELSE NoRetry]

\* maintenance_if_due; a completion that waits, as one always may, makes
\* maintenance due too.
IfDue(q) ==
  LET t == [q EXCEPT !.ticks = @ + 1]
  IN  {Rescheduled(m) : m \in Maintained(t)} \cup (IF IsDue(t) THEN {} ELSE {Tick(t)})

\* What another baseline run may change, past the first threshold: it is the 16th
\* (`warm'); or it tells of a recursive function that there are many calls for
\* each entry from outside (`deep'), or that there are not, once enough entries
\* were seen to tell (`shallow').  Entries are not unseen.
WarmAfter(q) ==
  {q.warm} \cup (IF body.untranslatable /\ q.samples >= ElementSamples THEN {TRUE} ELSE {})
TreeAfter(q) ==
  {q.tree} \cup (IF body.selfCall /\ q.samples >= ElementSamples
                 THEN {"deep", "shallow"} \cup (IF q.tree = "deep" THEN {"unknown"} ELSE {})
                 ELSE {})

\* A run of the baseline is counted.
Counted(q, w, t) ==
  [q EXCEPT !.samples = Least(@ + 1, ElementSamples), !.warm = w, !.tree = t]
Ran(q) == {Counted(q, w, t) : w \in WarmAfter(q), t \in TreeAfter(q)}

\* record_hot, acquire_entry, or native_exit after a run of the baseline.
Callback ==
  /\ UNCHANGED feedbackVars
  /\ p' \in UNION {IfDue(q) : q \in {p} \cup (IF p.base = "installed" THEN Ran(p) ELSE {})}

\* The embedder's poll, or another function's snapshot or retirement.
Poll == p' \in Maintained(p) /\ UNCHANGED feedbackVars

\* A hot caller without a snapshot asks for one and hands it in.
SubmitSnapshot ==
  /\ ~ p.held /\ ~ p.disabled /\ p.opt = "cold"
  /\ p.base = "installed" \/ p.blacklisted
  /\ p' \in Maintained([p EXCEPT !.held = TRUE])
  /\ UNCHANGED feedbackVars

\* The coordinator's own backoff after a failed compile is over.
RetryAllowed ==
  /\ p.opt = "backoff" /\ p' = [p EXCEPT !.opt = "cold"] /\ UNCHANGED feedbackVars

\* The callee is demoted, evicted or invalidated.
CalleeLosesCode ==
  /\ p.losses < MaxLosses /\ CallsCallee
  /\ \/ p.calleeBase = "installed" /\ p' = [p EXCEPT !.calleeBase = "none", !.losses = @ + 1]
     \/ p.calleeOpt = "installed" /\ p' = [p EXCEPT !.calleeOpt = "cold", !.losses = @ + 1]
  /\ UNCHANGED feedbackVars

\* record_feedback: the clock ticks and one table changes.
RecordFeedback == ~ p.disabled /\ p' = Tick(p) /\ FeedbackObserves
RecordProperty ==
  /\ ~ p.disabled /\ Caller \in alive /\ body.field /\ p.shapes = 0
  /\ p' = [Tick(p) EXCEPT !.shapes = 1] /\ UNCHANGED feedbackVars

\* function_retire of the caller: its feedback and its candidacy are forgotten.
Retire ==
  /\ ForgetFunction(Caller)
  /\ p' = Tick([p EXCEPT !.held = FALSE, !.deferred = NoInputs, !.ticks = 0,
                         !.base = "retired", !.opt = "retired",
                         !.lastFeedback = version, !.lastInstalled = p.installed])

PromotionNext == \/ Callback \/ Poll \/ SubmitSnapshot \/ RetryAllowed
                 \/ CalleeLosesCode \/ RecordFeedback \/ RecordProperty \/ Retire

PromotionSpec == PromotionInit /\ [][PromotionNext]_promotionVars /\ []<><<Callback>>_promotionVars

-----------------------------------------------------------------------------
(* Properties                                                                *)

\* While the caller backs off, the scheduled retry comes no later than the end
\* of its backoff, so quiet native code does not stretch a short backoff to a
\* full maintenance interval.
RetryIsScheduled == p.wait > 0 => p.next <= p.wait

IsCandidate == p.held /\ ~ p.disabled /\ p.opt = "cold" /\ (p.base = "installed" \/ p.blacklisted)

\* A candidate that nothing holds back is eventually offered to the coordinator,
\* however often its price is refused and whatever maintenance skipped, as long
\* as the script keeps calling; and after the coordinator refused it, it is
\* offered again.
CandidateIsQueued ==
  (IsCandidate /\ Gate(p) = "open") ~> (~ IsCandidate \/ Gate(p) # "open" \/ p.refused)
=============================================================================
