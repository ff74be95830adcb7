--------------------------- MODULE EntryCacheProofs ---------------------------
(***************************************************************************)
(* Proofs about EntryCache for any functions, call depth and last epoch.   *)
(* That a cached handle is admissible is inductive only together with the  *)
(* same fact about the handles of active calls, which are cached when the  *)
(* calls return, and with the fact that no handle is newer than the epoch, *)
(* so that advancing it outdates all of them at once.  Pins, timers and    *)
(* grants rest on that invariant and each adds one of its own.  The lemmas *)
(* about them take what they need of finite sets as an assumption,         *)
(* Counting, which the last section proves with the library's theorems.    *)
(***************************************************************************)
EXTENDS EntryCache, TLAPS

\* A leaf is left to the SMT solver, which takes its time in a large module,
\* unless it names another prover.
USE SMTT(30)

Call == [fn : Function, gen : Nat, art : Nat, tier : Tier, epoch : Nat, left : Nat, flag : BOOLEAN,
         fast : BOOLEAN, osr : BOOLEAN, kind : {"none", "done", "deopt", "other"},
         at : {"hot", "entry", "acquire", "run", "store"}]

CallsTypeOK ==
  /\ frames \in Seq(Call)
  /\ gen \in [Function -> Nat]
  /\ code \in [Function -> [Tier -> Nat]]
  /\ tiers \in [Function -> Tier \cup {"none"}]
  /\ disabled \subseteq Function
  /\ epoch \in 0 .. MaxEpoch /\ mirror = epoch
  /\ installs \in Nat
  /\ cached.art \in Nat /\ cached.gen \in Nat /\ cached.epoch \in Nat /\ cached.left \in Nat
  /\ cached.tier \in Tier /\ cached.flag \in BOOLEAN
  /\ cached.art # NoArt => cached.fn \in Function /\ cached.epoch # 0

NotNewer(h) == epoch # 0 => h.epoch <= epoch

Admissible(h) ==
  h.art # NoArt /\ h.epoch = epoch /\ epoch # 0 /\ h.gen = gen[h.fn] =>
    /\ h.art = code[h.fn][h.tier] /\ h.tier = AdmittedTier(h.fn) /\ h.tier = tiers[h.fn]
    /\ h.fn \in disabled => h.fn \in off

GrantOK(h) == h.left # 0 => (h.flag <=> h.tier = "opt")

HandleOK(h) == NotNewer(h) /\ Admissible(h) /\ GrantOK(h)

EntryInv ==
  /\ CallsTypeOK
  /\ HandleOK(cached)
  /\ \A i \in 1 .. Len(frames) :
       /\ HandleOK(frames[i])
       /\ frames[i].at \in {"run", "store"} => frames[i].art # NoArt

(* The backend either outdates every handle or leaves alone what makes one  *)
(* admissible.                                                              *)
BackendMoves ==
  /\ epoch' \in 0 .. MaxEpoch /\ mirror' = epoch'
  /\ code' \in [Function -> [Tier -> Nat]] /\ disabled' \subseteq Function /\ installs' \in Nat
  /\ gen' \in [Function -> Nat] /\ tiers' \in [Function -> Tier \cup {"none"}]
  /\ \/ epoch' # 0 => epoch # 0 /\ epoch < epoch'
     \/ /\ UNCHANGED <<epoch, code, gen, tiers>>
        /\ \A f \in disabled' : f \in disabled \cup off' \/ \A t \in Tier : code[f][t] = NoArt
        /\ off \subseteq off'

(* Where a handle comes from: from nowhere, or from one there was. *)
Blank(h) == h.art = NoArt /\ h.epoch = 0 /\ h.left = 0

Inherits(h, g) ==
  /\ h.fn = g.fn /\ h.art = g.art /\ h.tier = g.tier /\ h.epoch = g.epoch
  /\ h.left # 0 => g.left # 0 /\ h.flag = g.flag
  /\ h.gen = gen[h.fn] => g.gen = gen[g.fn]

HasOrigin(h) == Blank(h) \/ Inherits(h, cached) \/ \E j \in 1 .. Len(frames) : Inherits(h, frames[j])

CallsMove ==
  /\ frames' \in Seq(Call)
  /\ \A i \in 1 .. Len(frames') :
       HasOrigin(frames'[i]) /\ (frames'[i].at \in {"run", "store"} => frames'[i].art # NoArt)

CachedMoves ==
  /\ cached'.art \in Nat /\ cached'.gen \in Nat /\ cached'.epoch \in Nat /\ cached'.left \in Nat
  /\ cached'.tier \in Tier /\ cached'.flag \in BOOLEAN
  /\ cached'.art # NoArt => cached'.fn \in Function /\ cached'.epoch # 0

(* What the proofs use of finite sets, and induction over Nat for a set.    *)
Counting ==
  /\ IsFiniteSet({}) /\ Cardinality({}) = 0
  /\ \A n \in Int : IsFiniteSet(1 .. n)
  /\ \A S : IsFiniteSet(S) => Cardinality(S) \in Nat /\ (Cardinality(S) = 0 => S = {})
  /\ \A S : IsFiniteSet(S) => \A T \in SUBSET S : IsFiniteSet(T) /\ Cardinality(T) <= Cardinality(S)
  /\ \A S, x : IsFiniteSet(S) =>
       /\ Cardinality(S \cup {x}) = IF x \in S THEN Cardinality(S) ELSE Cardinality(S) + 1
       /\ Cardinality(S \ {x}) = IF x \in S THEN Cardinality(S) - 1 ELSE Cardinality(S)
       /\ IsFiniteSet(S \cup {x}) /\ IsFiniteSet(S \ {x})
  /\ \A N : 0 \in N /\ (\A n \in Nat : n \in N => n + 1 \in N) => Nat \subseteq N

(* Pins.  What holds a pin is counted call by call. *)

HeldBy(a) == {i \in 1 .. Len(frames) : frames[i].art = a}

HoldingCalls(a) == Cardinality(HeldBy(a))

CodeIsBounded == code \in [Function -> [Tier -> 0 .. MaxArt]] /\ installs \in 0 .. MaxArt

(* A call holds a handle from its entry to its return, and not before. *)
CallHolds(c) == c.art \in 0 .. MaxArt /\ (c.at \notin {"run", "store"} => c.art = NoArt)

PinInv ==
  /\ pins \in [Artifact -> Int]
  /\ \A a \in Artifact : pins[a] = HoldingCalls(a) + (IF cached.art = a THEN 1 ELSE 0)
  /\ CodeIsBounded
  /\ cached.art \in 0 .. MaxArt
  /\ \A i \in 1 .. Len(frames) : CallHolds(frames[i])

(* Timers.  Only the innermost call can be elsewhere than in native code,   *)
(* so timers come and go at the end.                                        *)

Timer == [fn : Function, gen : Nat, tier : Tier]

TimerOf(c) == [fn |-> c.fn, gen |-> c.gen, tier |-> c.tier]

Announced(c) == c.at = "run" /\ ~c.fast

IsTimedBy(times, calls, timed) ==
  /\ Len(times) = Cardinality(timed)
  /\ \A i \in timed : times[Cardinality({j \in timed : j <= i})] = TimerOf(calls[i])

TimerInv ==
  /\ starts \in Seq(Timer)
  /\ IsTimedBy(starts, frames, Timed)
  /\ \A i \in 1 .. Len(frames) - 1 : frames[i].at = "run"
  /\ frames # <<>> /\ Top.at \in {"hot", "entry", "acquire"} => Top.gen = gen[Top.fn]
  /\ frames # <<>> /\ Top.at = "acquire" => ~Top.fast

(* The last timer goes with the innermost timed call. *)
EndsWith(times, last, calls, timed) ==
  /\ times # <<>> /\ times[Len(times)] = last
  /\ SubSeq(times, 1, Len(times) - 1) \in Seq(Timer)
  /\ IsTimedBy(SubSeq(times, 1, Len(times) - 1), calls, timed)

(* The parts of TimerInv that are not about the timers. *)
CallsInOrder ==
  /\ \A i \in 1 .. Len(frames) - 1 : frames[i].at = "run"
  /\ frames # <<>> /\ Top.at \in {"hot", "entry", "acquire"} => Top.gen = gen[Top.fn]
  /\ frames # <<>> /\ Top.at = "acquire" => ~Top.fast

(* Grants.  Executions granted and not used are summed call by call.        *)

(* `g` holds the sums of `base` and the grants of the first calls. *)
IsTotal(g, calls, base, m) ==
  g = [n \in 0 .. m |-> IF n = 0 THEN base ELSE g[n - 1] + calls[n].left]

Total(calls, base) ==
  LET sum[i \in 0 .. Len(calls)] == IF i = 0 THEN base ELSE sum[i - 1] + calls[i].left
  IN sum[Len(calls)]

StepsUp(g, calls, base, m) ==
  g[0] = base /\ \A n \in 1 .. m : g[n] = g[n - 1] + calls[n].left

Shares(calls, others, k) ==
  \A i \in 1 .. k : others[i] = calls[i] /\ calls[i].left \in Nat

GrowAlike(g, h, b, c, k) == g[k] \in Int /\ h[k] \in Int /\ h[k] - c = g[k] - b

Differ(u, v, p, q, b, c) == u \in Int /\ v \in Int /\ v - c = u - b - p + q

(* What a step may do with the grants. *)
GrantsStep ==
  /\ TopAt("entry") /\ TopAt("run")' /\ Len(frames') = Len(frames) /\ Top'.fast => GrantsLeft' < GrantsLeft
  /\ GrantsLeft' > GrantsLeft => TopAt("store") /\ ~Top.fast

------------------------------------------------------------------------------
(* The innermost call is one of the calls. *)
LEMMA TopIsCall ==
  ASSUME CallsTypeOK, frames # <<>>
  PROVE  Len(frames) \in 1 .. Len(frames) /\ Top \in Call
BY DEF CallsTypeOK, Top

(* Changing the innermost call leaves the others alone. *)
LEMMA WithTopProperties ==
  ASSUME CallsTypeOK, frames # <<>>, NEW c \in Call
  PROVE  /\ WithTop(c) \in Seq(Call) /\ Len(WithTop(c)) = Len(frames)
         /\ \A i \in 1 .. Len(frames) : WithTop(c)[i] = IF i = Len(frames) THEN c ELSE frames[i]
<1>1. frames \in Seq(Call) /\ Len(frames) \in 1 .. Len(frames)
  BY TopIsCall, Zenon DEF CallsTypeOK
<1> QED BY <1>1 DEF WithTop

LEMMA FirstPart ==
  ASSUME NEW T, NEW s \in Seq(T), NEW m \in 0 .. Len(s)
  PROVE  /\ SubSeq(s, 1, m) \in Seq(T) /\ Len(SubSeq(s, 1, m)) = m
         /\ \A k \in 1 .. m : SubSeq(s, 1, m)[k] = s[k]
<1>1. m \in Nat /\ Len(s) \in Nat /\ \A k \in 1 .. m : s[k] \in T
  OBVIOUS
<1> QED BY <1>1

(* So does its end. *)
LEMMA BelowProperties ==
  ASSUME CallsTypeOK, frames # <<>>
  PROVE  /\ Below \in Seq(Call) /\ Len(Below) = Len(frames) - 1
         /\ \A i \in 1 .. Len(Below) : i \in 1 .. Len(frames) /\ Below[i] = frames[i]
<1>1. frames \in Seq(Call) /\ Len(frames) \in Nat \ {0}
  BY TopIsCall DEF CallsTypeOK
<1>2. Below \in Seq(Call) /\ Len(Below) = Len(frames) - 1
  <2> DEFINE m == Len(frames) - 1
  <2>1. m \in 0 .. Len(frames)
    BY <1>1
  <2> HIDE DEF m
  <2>2. SubSeq(frames, 1, m) \in Seq(Call) /\ Len(SubSeq(frames, 1, m)) = m
    BY <1>1, <2>1, FirstPart
  <2> QED BY <2>2 DEF Below, m
<1>3. \A i \in 1 .. Len(frames) - 1 : Below[i] = frames[i]
  BY <1>1 DEF Below
<1> QED BY <1>1, <1>2, <1>3

(* An invalidation, the exhausting one included, outdates every handle. *)
LEMMA InvalidationOutdates ==
  ASSUME EntryInv, NEW n \in Nat \ {0}, InvalidateEntryCache(n)
  PROVE  /\ epoch' \in 0 .. MaxEpoch /\ mirror' = epoch'
         /\ epoch' # 0 => epoch # 0 /\ epoch < epoch'
BY EntryAssumption DEF EntryInv, CallsTypeOK, InvalidateEntryCache, Advanced

(* What maintenance does, whatever it installs or takes away. *)
LEMMA MaintenanceOutdates ==
  ASSUME EntryInv, NEW n \in Nat, NEW lost, NEW dis \in SUBSET Function, MaintenanceAfter(n, lost, dis)
  PROVE  /\ epoch' \in 0 .. MaxEpoch /\ mirror' = epoch'
         /\ epoch' # 0 => epoch # 0 /\ epoch < epoch'
         /\ code' \in [Function -> [Tier -> Nat]] /\ disabled' \subseteq Function /\ installs' \in Nat
<1>1. n + 1 \in Nat \ {0}
  OBVIOUS
<1>2. PICK more \in SUBSET (InstalledPairs \ lost) :
        \/ code' = Without(lost \cup more) /\ disabled' = dis /\ UNCHANGED installs
        \/ /\ code' = Without(lost \cup more) /\ UNCHANGED installs
           /\ \E p \in more : disabled' = dis \cup {p[1]}
        \/ /\ installs' = installs + 1
           /\ \E p \in (Function \X Tier) \ lost :
                code' = [Without(lost \cup more) EXCEPT ![p[1]][p[2]] = installs + 1]
           /\ disabled' = dis
  BY Zenon DEF MaintenanceAfter
<1>3. Without(lost \cup more) \in [Function -> [Tier -> Nat]]
  BY Zenon DEF Without, NoArt, EntryInv, CallsTypeOK
<1>4. \A p \in more : p[1] \in Function
  BY DEF InstalledPairs
<1>5. code' \in [Function -> [Tier -> Nat]]
  <2>1. CASE code' = Without(lost \cup more)
    BY <1>3, <2>1, Zenon
  <2>2. CASE \E p \in (Function \X Tier) \ lost :
               code' = [Without(lost \cup more) EXCEPT ![p[1]][p[2]] = installs + 1]
    <3>1. PICK f \in Function, t \in Tier : code' = [Without(lost \cup more) EXCEPT ![f][t] = installs + 1]
      BY <2>2, Zenon
    <3>2. installs + 1 \in Nat
      BY DEF EntryInv, CallsTypeOK
    <3> QED BY <1>3, <3>1, <3>2, Zenon
  <2> QED BY <1>2, <2>1, <2>2, Zenon
<1>6. disabled' \subseteq Function
  BY <1>2, <1>4
<1>7. installs' \in Nat
  BY <1>2 DEF EntryInv, CallsTypeOK
<1> QED BY <1>1, <1>5, <1>6, <1>7, InvalidationOutdates, Zenon DEF MaintenanceAfter

(* A handle that came from one there was is as good as that one. *)
LEMMA OriginIsEnough ==
  ASSUME EntryInv, BackendMoves, NEW h, HasOrigin(h), h.fn \in Function \/ h.art = NoArt,
         h.epoch \in Nat
  PROVE  HandleOK(h)'
<1>1. PICK g : HandleOK(g) /\ (Blank(h) \/ Inherits(h, g))
  BY DEF EntryInv, HasOrigin
<1>2. NotNewer(h)'
  BY <1>1 DEF HandleOK, NotNewer, Blank, Inherits, BackendMoves, EntryInv, CallsTypeOK
<1>3. Admissible(h)'
  <2> SUFFICES ASSUME h.art # NoArt, h.epoch = epoch', epoch' # 0, h.gen = gen'[h.fn]
               PROVE  (/\ h.art = code[h.fn][h.tier] /\ h.tier = AdmittedTier(h.fn) /\ h.tier = tiers[h.fn]
                       /\ h.fn \in disabled => h.fn \in off)'
    BY Zenon DEF Admissible
  <2>1. Inherits(h, g) /\ h.fn \in Function
    BY <1>1 DEF Blank
  <2>2. epoch # 0 => h.epoch <= epoch
    BY <1>1, <2>1, Zenon DEF HandleOK, NotNewer, Inherits
  <2>3. /\ UNCHANGED <<epoch, code, gen, tiers>>
        /\ \A f \in disabled' : f \in disabled \cup off' \/ \A t \in Tier : code[f][t] = NoArt
        /\ off \subseteq off'
    BY <2>2 DEF BackendMoves, EntryInv, CallsTypeOK
  <2>4. /\ h.art = code[h.fn][h.tier] /\ h.tier = AdmittedTier(h.fn) /\ h.tier = tiers[h.fn]
        /\ h.fn \in disabled => h.fn \in off
    BY <1>1, <2>1, <2>3, Zenon DEF HandleOK, Admissible, Inherits
  <2>5. AdmittedTier(h.fn)' = AdmittedTier(h.fn) /\ AdmittedTier(h.fn) \in Tier
    BY <2>3, Zenon DEF AdmittedTier, Tier
  <2>6. h.fn \in disabled' => h.fn \in off'
    BY <2>1, <2>3, <2>4, <2>5, Zenon
  <2> QED BY <2>3, <2>4, <2>5, <2>6, Zenon
<1>4. GrantOK(h)'
  BY <1>1, Zenon DEF HandleOK, GrantOK, Blank, Inherits
<1> QED BY <1>2, <1>3, <1>4 DEF HandleOK

(* So a step that only moves handles about keeps the invariant. *)
LEMMA MovingKeepsInv ==
  ASSUME EntryInv, BackendMoves, CallsMove, CachedMoves, HasOrigin(cached')
  PROVE  EntryInv'
<1>1. CallsTypeOK'
  BY Zenon DEF BackendMoves, CallsMove, CachedMoves, CallsTypeOK
<1>2. HandleOK(cached)'
  <2>1. PICK h : h = cached'
    OBVIOUS
  <2>2. HandleOK(h)'
    BY <2>1, OriginIsEnough DEF CachedMoves
  <2> QED BY <2>1, <2>2, Zenon DEF HandleOK, NotNewer, Admissible, GrantOK, Admitted, AdmittedTier
<1>3. ASSUME NEW i \in 1 .. Len(frames')
      PROVE  HandleOK(frames[i])' /\ (frames'[i].at \in {"run", "store"} => frames'[i].art # NoArt)
  <2>1. PICK h : h = frames'[i]
    OBVIOUS
  <2>2. h \in Call /\ HasOrigin(h) /\ (h.at \in {"run", "store"} => h.art # NoArt)
    BY <2>1 DEF CallsMove
  <2>3. HandleOK(h)'
    BY <2>2, OriginIsEnough, Zenon DEF Call
  <2> QED BY <2>1, <2>2, <2>3, Zenon DEF HandleOK, NotNewer, Admissible, GrantOK, Admitted, AdmittedTier
<1> QED BY <1>1, <1>2, <1>3, Zenon DEF EntryInv

(* Ways in which the backend moves. *)
LEMMA BackendRests ==
  ASSUME EntryInv, UNCHANGED <<epoch, mirror, code, disabled, installs, gen, off, tiers>>
  PROVE  BackendMoves
BY Zenon DEF EntryInv, CallsTypeOK, BackendMoves

(* What maintenance of the backend leaves alone. *)
LEMMA BackendMaintains ==
  ASSUME EntryInv, NEW n \in Nat, NEW lost, NEW dis \in SUBSET Function, MaintenanceAfter(n, lost, dis),
         gen' \in [Function -> Nat], tiers' \in [Function -> Tier \cup {"none"}]
  PROVE  BackendMoves
<1>1. /\ epoch' \in 0 .. MaxEpoch /\ mirror' = epoch'
      /\ epoch' # 0 => epoch # 0 /\ epoch < epoch'
      /\ code' \in [Function -> [Tier -> Nat]] /\ disabled' \subseteq Function /\ installs' \in Nat
  BY MaintenanceOutdates, Zenon
<1> QED BY <1>1, Zenon DEF BackendMoves

LEMMA BackendMaintainsIfDue ==
  ASSUME EntryInv, MaintenanceIfDue, UNCHANGED <<gen, off, tiers>>
  PROVE  BackendMoves
<1>1. CASE Maintenance
  <2>1. disabled \in SUBSET Function /\ 0 \in Nat /\ gen' \in [Function -> Nat]
        /\ tiers' \in [Function -> Tier \cup {"none"}]
    BY Zenon DEF EntryInv, CallsTypeOK
  <2> QED BY <1>1, <2>1, BackendMaintains DEF Maintenance
<1>2. CASE UNCHANGED codeVars
  BY <1>2, BackendRests DEF codeVars
<1> QED BY <1>1, <1>2 DEF MaintenanceIfDue

(* Ways in which the handles move. *)
LEMMA CachedRestsOrGoes ==
  ASSUME EntryInv, cached' = cached \/ cached' = NoHandle
  PROVE  CachedMoves /\ HasOrigin(cached')
<1>1. CASE cached' = cached
  BY <1>1, Zenon DEF EntryInv, CallsTypeOK, CachedMoves, HasOrigin, Inherits
<1>2. CASE cached' = NoHandle
  BY <1>2, Zenon DEF NoHandle, NoArt, Tier, CachedMoves, HasOrigin, Blank
<1> QED BY <1>1, <1>2

(* How a step may change one call. *)
LEMMA CallsRest ==
  ASSUME EntryInv, UNCHANGED frames
  PROVE  CallsMove
BY Zenon DEF EntryInv, CallsTypeOK, CallsMove, HasOrigin, Inherits

LEMMA CallEnds ==
  ASSUME EntryInv, frames # <<>>, frames' = Below
  PROVE  CallsMove
<1>1. /\ Below \in Seq(Call)
      /\ \A i \in 1 .. Len(Below) : i \in 1 .. Len(frames) /\ Below[i] = frames[i]
  BY BelowProperties, Zenon DEF EntryInv
<1> QED BY <1>1, ZenonT(30) DEF EntryInv, CallsMove, HasOrigin, Inherits

LEMMA CallGoesOn ==
  ASSUME EntryInv, frames # <<>>, NEW c \in Call, frames' = WithTop(c), HasOrigin(c),
         c.at \in {"run", "store"} => c.art # NoArt
  PROVE  CallsMove
<1>1. /\ WithTop(c) \in Seq(Call) /\ Len(WithTop(c)) = Len(frames)
      /\ \A i \in 1 .. Len(frames) : WithTop(c)[i] = IF i = Len(frames) THEN c ELSE frames[i]
  BY WithTopProperties, Zenon DEF EntryInv
<1>2. frames' \in Seq(Call) /\ Len(frames') = Len(frames)
  BY <1>1, Zenon
<1>3. ASSUME NEW i \in 1 .. Len(frames)
      PROVE  HasOrigin(frames'[i]) /\ (frames'[i].at \in {"run", "store"} => frames'[i].art # NoArt)
  <2>1. CASE i = Len(frames)
    BY <1>1, <2>1, Zenon
  <2>2. CASE i # Len(frames)
    BY <1>1, <2>2, ZenonT(30) DEF EntryInv, HasOrigin, Inherits
  <2> QED BY <2>1, <2>2, Zenon
<1> QED BY <1>2, <1>3, Zenon DEF CallsMove

(* A call that keeps its handle. *)
LEMMA CallKeepsHandle ==
  ASSUME EntryInv, frames # <<>>, NEW c \in Call, frames' = WithTop(c),
         c.fn = Top.fn, c.gen = Top.gen, c.art = Top.art, c.tier = Top.tier, c.epoch = Top.epoch,
         c.left = Top.left, c.flag = Top.flag,
         c.at \in {"run", "store"} => Top.at \in {"run", "store"}
  PROVE  CallsMove
<1>1. Len(frames) \in 1 .. Len(frames) /\ Top = frames[Len(frames)]
  BY TopIsCall, Zenon DEF EntryInv, Top
<1>2. HasOrigin(c)
  BY <1>1, Zenon DEF HasOrigin, Inherits
<1>3. c.at \in {"run", "store"} => c.art # NoArt
  BY <1>1, Zenon DEF EntryInv
<1> QED BY <1>2, <1>3, CallGoesOn, Zenon

------------------------------------------------------------------------------
(* Each step keeps the invariant. *)

LEMMA BeginKeepsInv ==
  ASSUME EntryInv, NEW f \in Function, NEW osr \in BOOLEAN, Begin(f, osr)
  PROVE  EntryInv'
<1>1. UNCHANGED <<cached, gen, off, code, disabled, epoch, mirror, installs, tiers>>
  BY Zenon DEF Begin, engineVars
<1>2. PICK fast \in BOOLEAN :
        frames' = Append(frames, [fn |-> f, gen |-> gen[f], art |-> NoArt, tier |-> "base", epoch |-> 0,
                                  left |-> 0, flag |-> FALSE, fast |-> fast, osr |-> osr, kind |-> "none",
                                  at |-> IF fast THEN "entry" ELSE "hot"])
  BY Zenon DEF Begin, FastReady
<1>3. PICK c : /\ c = [fn |-> f, gen |-> gen[f], art |-> NoArt, tier |-> "base", epoch |-> 0,
                       left |-> 0, flag |-> FALSE, fast |-> fast, osr |-> osr, kind |-> "none",
                       at |-> IF fast THEN "entry" ELSE "hot"]
  BY Zenon
<1>4. c \in Call
  <2>1. gen[f] \in Nat /\ NoArt \in Nat /\ "base" \in Tier
    BY Zenon DEF EntryInv, CallsTypeOK, NoArt, Tier
  <2> QED BY <1>3, <2>1, Zenon DEF Call
<1>5. Blank(c) /\ c.at \notin {"run", "store"}
  BY <1>3, Zenon DEF Blank
<1>6. /\ frames' \in Seq(Call) /\ Len(frames') = Len(frames) + 1
      /\ \A i \in 1 .. Len(frames) : frames'[i] = frames[i]
      /\ frames'[Len(frames) + 1] = c
  BY <1>2, <1>3, <1>4 DEF EntryInv, CallsTypeOK
<1>7. CallsMove
  <2>1. ASSUME NEW i \in 1 .. Len(frames')
        PROVE  HasOrigin(frames'[i]) /\ (frames'[i].at \in {"run", "store"} => frames'[i].art # NoArt)
    <3>1. CASE i \in 1 .. Len(frames)
      BY <1>6, <3>1, Zenon DEF EntryInv, HasOrigin, Inherits
    <3>2. CASE i = Len(frames) + 1
      BY <1>5, <1>6, <3>2, Zenon DEF HasOrigin
    <3> QED BY <1>6, <3>1, <3>2 DEF EntryInv, CallsTypeOK
  <2> QED BY <1>6, <2>1, Zenon DEF CallsMove
<1> QED BY <1>1, <1>7, BackendRests, CachedRestsOrGoes, MovingKeepsInv, Zenon

LEMMA HotDisablesKeepsInv ==
  ASSUME EntryInv, HotDisables
  PROVE  EntryInv'
<1>1. frames # <<>> /\ UNCHANGED <<cached, gen, tiers, code, epoch, mirror, installs>>
  BY Zenon DEF HotDisables, TopAt
<1>2. PICK c \in Call : c = [Top EXCEPT !.at = "entry"]
  BY <1>1, TopIsCall, Zenon DEF EntryInv, Call
<1>3. CallsMove
  BY <1>1, <1>2, CallKeepsHandle, TopIsCall, Zenon DEF HotDisables, EntryInv, Call
<1>4. Top.fn \in Function
  BY <1>1, TopIsCall, Zenon DEF EntryInv, Call
<1>5. BackendMoves
  BY <1>1, <1>4, Zenon DEF HotDisables, BackendMoves, EntryInv, CallsTypeOK
<1> QED BY <1>1, <1>3, <1>5, CachedRestsOrGoes, MovingKeepsInv, Zenon

LEMMA HotProbesKeepsInv ==
  ASSUME EntryInv, HotProbes
  PROVE  EntryInv'
<1>1. frames # <<>> /\ MaintenanceIfDue /\ UNCHANGED <<cached, gen, off, tiers>>
  BY DEF HotProbes, TopAt, engineVars
<1>2. PICK c \in Call : c = [Top EXCEPT !.at = "entry"]
  BY <1>1, TopIsCall, Zenon DEF EntryInv, Call
<1>3. CallsMove
  BY <1>1, <1>2, CallKeepsHandle, TopIsCall, Zenon DEF HotProbes, EntryInv, Call
<1> QED BY <1>1, <1>3, BackendMaintainsIfDue, CachedRestsOrGoes, MovingKeepsInv

LEMMA SnapshotRejectedKeepsInv ==
  ASSUME EntryInv, SnapshotRejected
  PROVE  EntryInv'
<1>1. frames # <<>> /\ UNCHANGED <<cached, gen, off, tiers>>
  BY Zenon DEF SnapshotRejected, TopAt, engineVars
<1>2. PICK c \in Call : c = [Top EXCEPT !.at = "entry"]
  BY <1>1, TopIsCall, Zenon DEF EntryInv, Call
<1>3. CallsMove
  BY <1>1, <1>2, CallKeepsHandle, TopIsCall, Zenon DEF SnapshotRejected, EntryInv, Call
<1>4. Top.fn \in Function
  BY <1>1, TopIsCall, Zenon DEF EntryInv, Call
<1>5. BackendMoves
  <2>1. CASE /\ disabled' = disabled \cup {Top.fn}
             /\ UNCHANGED <<code, epoch, mirror, dirty, pending, installs>>
    BY <1>1, <1>4, <2>1, Zenon DEF SnapshotRejected, BackendMoves, EntryInv, CallsTypeOK
  <2>2. ASSUME NEW n \in 0 .. 1, MaintenanceAfter(n, {}, disabled \cup {Top.fn}) PROVE BackendMoves
    <3>1. n \in Nat
      OBVIOUS
    <3>2. disabled \cup {Top.fn} \in SUBSET Function /\ gen' \in [Function -> Nat]
          /\ tiers' \in [Function -> Tier \cup {"none"}]
      BY <1>1, <1>4, Zenon DEF EntryInv, CallsTypeOK
    <3> QED BY <2>2, <3>1, <3>2, BackendMaintains, Zenon
  <2> QED BY <2>1, <2>2, Zenon DEF SnapshotRejected
<1> QED BY <1>1, <1>3, <1>5, CachedRestsOrGoes, MovingKeepsInv, Zenon

LEMMA HotRefreshesKeepsInv ==
  ASSUME EntryInv, HotRefreshes
  PROVE  EntryInv'
<1>1. frames # <<>> /\ UNCHANGED <<cached, gen, tiers>>
  BY Zenon DEF HotRefreshes, TopAt, engineVars
<1>2. PICK c \in Call : c = [Top EXCEPT !.at = "entry"]
  BY <1>1, TopIsCall, Zenon DEF EntryInv, Call
<1>3. CallsMove
  BY <1>1, <1>2, CallKeepsHandle, TopIsCall, Zenon DEF HotRefreshes, EntryInv, Call
<1>4. CASE /\ code' = Without({<<Top.fn, "base">>}) /\ InvalidateEntryCache(1)
           /\ UNCHANGED <<disabled, installs>>
  <2>1. code' \in [Function -> [Tier -> Nat]]
    BY <1>4, Zenon DEF Without, NoArt, EntryInv, CallsTypeOK
  <2>2. /\ epoch' \in 0 .. MaxEpoch /\ mirror' = epoch'
        /\ epoch' # 0 => epoch # 0 /\ epoch < epoch'
    BY <1>4, InvalidationOutdates
  <2>3. BackendMoves
    BY <1>1, <1>4, <2>1, <2>2, Zenon DEF BackendMoves, EntryInv, CallsTypeOK
  <2> QED BY <1>1, <1>3, <2>3, CachedRestsOrGoes, MovingKeepsInv, Zenon
<1>5. CASE MaintenanceAfter(1, {<<Top.fn, "base">>}, disabled)
  <2>1. 1 \in Nat
    OBVIOUS
  <2>2. disabled \in SUBSET Function /\ gen' \in [Function -> Nat]
        /\ tiers' \in [Function -> Tier \cup {"none"}]
    BY <1>1, Zenon DEF EntryInv, CallsTypeOK
  <2>3. BackendMoves
    BY <1>5, <2>1, <2>2, BackendMaintains, Zenon
  <2> QED BY <1>1, <1>3, <2>3, CachedRestsOrGoes, MovingKeepsInv, Zenon
<1> QED BY <1>4, <1>5, Zenon DEF HotRefreshes

LEMMA InterpretKeepsInv ==
  ASSUME EntryInv, Interpret
  PROVE  EntryInv'
<1>1. frames # <<>> /\ frames' = Below /\ UNCHANGED <<cached, epoch, mirror, code, disabled, installs, gen, off, tiers>>
  BY Zenon DEF Interpret, TopAt, engineVars, codeVars
<1> QED BY <1>1, CallEnds, BackendRests, CachedRestsOrGoes, MovingKeepsInv, Zenon

(* The cached handle is for the innermost call, in its generation. *)
LEMMA TakeFastKeepsInv ==
  ASSUME EntryInv, TakeFast
  PROVE  EntryInv'
<1>1. frames # <<>> /\ UNCHANGED <<epoch, mirror, code, disabled, installs, gen, off, tiers>> /\ cached' = NoHandle
  BY DEF TakeFast, TopAt, engineVars, codeVars
<1>2. /\ cached.left # 0 /\ cached.art # NoArt /\ cached.fn = Top.fn /\ cached.gen = gen[Top.fn]
      /\ cached.art \in Nat /\ cached.epoch \in Nat /\ cached.left - 1 \in Nat /\ cached.tier \in Tier
      /\ cached.flag \in BOOLEAN
  BY DEF TakeFast, FastReady, SameKey, EntryInv, CallsTypeOK
<1>3. PICK c \in Call : c = [Top EXCEPT !.art = cached.art, !.tier = cached.tier, !.epoch = cached.epoch,
                                         !.left = cached.left - 1, !.flag = cached.flag, !.at = "run"]
  BY <1>1, <1>2, TopIsCall, Zenon DEF EntryInv, Call
<1>4. Inherits(c, cached) /\ c.art # NoArt
  BY <1>1, <1>2, <1>3, TopIsCall DEF EntryInv, Call, Inherits
<1>5. CallsMove
  BY <1>1, <1>3, <1>4, CallGoesOn, Zenon DEF TakeFast, HasOrigin
<1> QED BY <1>1, <1>5, BackendRests, CachedRestsOrGoes, MovingKeepsInv, Zenon

LEMMA TakeCachedKeepsInv ==
  ASSUME EntryInv, TakeCached
  PROVE  EntryInv'
<1>1. frames # <<>> /\ UNCHANGED <<epoch, mirror, code, disabled, installs, gen, off, tiers>> /\ cached' = NoHandle
  BY Zenon DEF TakeCached, TopAt, engineVars, codeVars
<1>2. /\ cached.art # NoArt /\ cached.fn = Top.fn /\ cached.gen = gen[Top.fn]
      /\ cached.art \in Nat /\ cached.epoch \in Nat /\ cached.tier \in Tier
  BY DEF TakeCached, TakesCached, SameKey, EntryInv, CallsTypeOK
<1>3. PICK c \in Call : c = [Top EXCEPT !.art = cached.art, !.tier = cached.tier, !.epoch = cached.epoch,
                                         !.left = 0, !.fast = FALSE, !.at = "run"]
  BY <1>1, <1>2, TopIsCall, Zenon DEF EntryInv, Call
<1>4. Inherits(c, cached) /\ c.art # NoArt
  BY <1>1, <1>2, <1>3, TopIsCall DEF EntryInv, Call, Inherits
<1>5. CallsMove
  BY <1>1, <1>3, <1>4, CallGoesOn, Zenon DEF TakeCached, HasOrigin
<1> QED BY <1>1, <1>5, BackendRests, CachedRestsOrGoes, MovingKeepsInv, Zenon

LEMMA PrepareAcquireKeepsInv ==
  ASSUME EntryInv, PrepareAcquire
  PROVE  EntryInv'
<1>1. /\ frames # <<>> /\ UNCHANGED <<epoch, mirror, code, disabled, installs, gen, off, tiers>>
      /\ cached' = cached \/ cached' = NoHandle
  BY DEF PrepareAcquire, TopAt, engineVars
<1>2. PICK c \in Call : c = [Top EXCEPT !.fast = FALSE, !.at = "acquire"]
  BY <1>1, TopIsCall, Zenon DEF EntryInv, Call
<1>3. CallsMove
  BY <1>1, <1>2, CallKeepsHandle, TopIsCall, Zenon DEF PrepareAcquire, EntryInv, Call
<1> QED BY <1>1, <1>3, BackendRests, CachedRestsOrGoes, MovingKeepsInv

LEMMA AcquireNothingKeepsInv ==
  ASSUME EntryInv, NEW f \in Function, AcquireNothing(f)
  PROVE  EntryInv'
<1>1. frames # <<>> /\ frames' = Below /\ UNCHANGED <<cached, gen, off, tiers>>
  BY Zenon DEF AcquireNothing, TopAt, engineVars
<1>2. UNCHANGED codeVars \/ MaintenanceIfDue
  BY Zenon DEF AcquireNothing
<1>3. BackendMoves
  BY <1>1, <1>2, BackendRests, BackendMaintainsIfDue, Zenon DEF codeVars
<1> QED BY <1>1, <1>3, CallEnds, CachedRestsOrGoes, MovingKeepsInv, Zenon

LEMMA ExitFastKeepsInv ==
  ASSUME EntryInv, ExitFast
  PROVE  EntryInv'
<1>1. /\ frames # <<>> /\ Top.at = "run"
      /\ UNCHANGED <<cached, epoch, mirror, code, disabled, installs, gen, off, tiers>>
  BY DEF ExitFast, TopAt, engineVars, codeVars
<1>2. PICK c \in Call : c = [Top EXCEPT !.kind = "done", !.at = "store"]
  BY <1>1, TopIsCall, Zenon DEF EntryInv, Call
<1>3. CallsMove
  BY <1>1, <1>2, CallKeepsHandle, TopIsCall, Zenon DEF ExitFast, EntryInv, Call
<1> QED BY <1>1, <1>3, BackendRests, CachedRestsOrGoes, MovingKeepsInv

(* native_exit takes code away only after an invalidation. *)
LEMMA NativeExitKeepsInv ==
  ASSUME EntryInv, NEW kind \in {"done", "deopt", "other"}, NativeExit(kind)
  PROVE  EntryInv'
<1>1. frames # <<>> /\ Top.at = "run" /\ UNCHANGED <<cached, gen, off, tiers>>
  BY DEF NativeExit, TopAt, engineVars
<1>2. PICK c \in Call : c = [Top EXCEPT !.kind = kind, !.at = "store"]
  BY <1>1, TopIsCall, Zenon DEF EntryInv, Call
<1>3. CallsMove
  BY <1>1, <1>2, CallKeepsHandle, TopIsCall, Zenon DEF NativeExit, EntryInv, Call
<1>4. PICK gone, loses :
        LET n == (IF gone # {} /\ loses THEN 1 ELSE 0) + (IF kind = "deopt" THEN 1 ELSE 0)
        IN /\ gone # {} => loses \/ kind = "deopt"
           /\ \/ MaintenanceAfter(n, gone, disabled)
              \/ InvalidateEntryCache(n) /\ code' = Without(gone) /\ UNCHANGED <<disabled, installs>>
  BY Zenon DEF NativeExit
<1> DEFINE n == (IF gone # {} /\ loses THEN 1 ELSE 0) + (IF kind = "deopt" THEN 1 ELSE 0)
<1>n. n \in Nat /\ (n = 0 => gone = {})
  BY <1>4
<1>s. \/ MaintenanceAfter(n, gone, disabled)
      \/ InvalidateEntryCache(n) /\ code' = Without(gone) /\ UNCHANGED <<disabled, installs>>
  BY <1>4, Zenon
<1> HIDE DEF n
<1>5. BackendMoves
  <2>1. CASE MaintenanceAfter(n, gone, disabled)
    <3>1. disabled \in SUBSET Function /\ gen' \in [Function -> Nat]
          /\ tiers' \in [Function -> Tier \cup {"none"}]
      BY <1>1, Zenon DEF EntryInv, CallsTypeOK
    <3> QED BY <1>n, <2>1, <3>1, BackendMaintains, Zenon
  <2>2. CASE InvalidateEntryCache(n) /\ code' = Without(gone) /\ UNCHANGED <<disabled, installs>> /\ n # 0
    <3>1. code' \in [Function -> [Tier -> Nat]]
      BY <2>2, Zenon DEF Without, NoArt, EntryInv, CallsTypeOK
    <3>2. /\ epoch' \in 0 .. MaxEpoch /\ mirror' = epoch'
          /\ epoch' # 0 => epoch # 0 /\ epoch < epoch'
      BY <1>n, <2>2, InvalidationOutdates, Zenon
    <3> QED BY <1>1, <2>2, <3>1, <3>2, Zenon DEF BackendMoves, EntryInv, CallsTypeOK
  <2>3. CASE InvalidateEntryCache(n) /\ code' = Without(gone) /\ UNCHANGED <<disabled, installs>> /\ n = 0
    <3>1. gone = {}
      BY <1>n, <2>3
    <3>2. code' = code
      BY <2>3, <3>1, Zenon DEF Without, EntryInv, CallsTypeOK
    <3>3. epoch' = epoch /\ mirror' = mirror
      BY <2>3, EntryAssumption DEF InvalidateEntryCache, Advanced, EntryInv, CallsTypeOK
    <3> QED BY <1>1, <2>3, <3>2, <3>3, BackendRests
  <2> QED BY <1>s, <2>1, <2>2, <2>3
<1> QED BY <1>1, <1>3, <1>5, CachedRestsOrGoes, MovingKeepsInv

(* A handle just acquired is what acquire_entry gives now; the older ones   *)
(* of the same function are the same one, or outdated.                      *)
LEMMA AcquireKeepsInv ==
  ASSUME EntryInv, NEW f \in Function, Acquire(f)
  PROVE  EntryInv'
<1>1. /\ frames # <<>> /\ Top.fn = f /\ MaintenanceIfDue /\ UNCHANGED <<cached, gen, off>>
      /\ Admitted(f)' # NoArt /\ tiers' = [tiers EXCEPT ![f] = AdmittedTier(f)']
  BY DEF Acquire, TopAt, engineVars
<1>2. /\ epoch' \in 0 .. MaxEpoch /\ mirror' = epoch'
      /\ code' \in [Function -> [Tier -> Nat]] /\ disabled' \subseteq Function /\ installs' \in Nat
      /\ \/ epoch' # 0 => epoch # 0 /\ epoch < epoch'
         \/ UNCHANGED <<epoch, code, disabled>>
  <2>1. CASE Maintenance
    <3>1. disabled \in SUBSET Function /\ 0 \in Nat
      BY Zenon DEF EntryInv, CallsTypeOK
    <3> QED BY <2>1, <3>1, MaintenanceOutdates DEF Maintenance
  <2>2. CASE UNCHANGED codeVars
    BY <2>2, Zenon DEF codeVars, EntryInv, CallsTypeOK
  <2> QED BY <1>1, <2>1, <2>2, Zenon DEF MaintenanceIfDue
<1>3. AdmittedTier(f)' \in Tier /\ Admitted(f)' \in Nat
  BY <1>2, Zenon DEF AdmittedTier, Admitted, Tier, NoArt
<1>4. tiers' \in [Function -> Tier \cup {"none"}] /\ tiers'[f] = AdmittedTier(f)'
      /\ \A g \in Function : g # f => tiers'[g] = tiers[g]
  BY <1>1, <1>3, Zenon DEF EntryInv, CallsTypeOK
<1>5. PICK c \in Call :
        c = [Top EXCEPT !.art = Admitted(f)', !.tier = AdmittedTier(f)',
                        !.epoch = IF Top.osr THEN 0 ELSE epoch', !.left = 0, !.osr = FALSE, !.at = "run"]
  <2>1. (IF Top.osr THEN 0 ELSE epoch') \in Nat
    BY <1>2
  <2> QED BY <1>1, <1>3, <2>1, TopIsCall, Zenon DEF EntryInv, Call
<1>6. /\ c.fn = f /\ c.art = Admitted(f)' /\ c.tier = AdmittedTier(f)' /\ c.left = 0
      /\ (c.epoch = 0 \/ c.epoch = epoch')
  BY <1>1, <1>5, TopIsCall DEF EntryInv, Call
<1>7. /\ frames' \in Seq(Call) /\ Len(frames') = Len(frames)
      /\ \A i \in 1 .. Len(frames) : frames'[i] = IF i = Len(frames) THEN c ELSE frames[i]
  BY <1>1, <1>5, WithTopProperties DEF Acquire, EntryInv
<1>8. CallsTypeOK'
  BY <1>1, <1>2, <1>4, <1>7, Zenon DEF EntryInv, CallsTypeOK
<1>9. ASSUME NEW h, HandleOK(h), h.art # NoArt => h.fn \in Function, h.epoch \in Nat
      PROVE  HandleOK(h)'
  <2>1. NotNewer(h)'
    BY <1>2, <1>9 DEF HandleOK, NotNewer, EntryInv, CallsTypeOK
  <2>2. Admissible(h)'
    <3> SUFFICES ASSUME h.art # NoArt, h.epoch = epoch', epoch' # 0, h.gen = gen'[h.fn]
                 PROVE  (/\ h.art = code[h.fn][h.tier] /\ h.tier = AdmittedTier(h.fn) /\ h.tier = tiers[h.fn]
                         /\ h.fn \in disabled => h.fn \in off)'
      BY Zenon DEF Admissible
    <3>1. UNCHANGED <<epoch, code, disabled>>
      BY <1>2, <1>9 DEF HandleOK, NotNewer, EntryInv, CallsTypeOK
    <3>2. /\ h.art = code[h.fn][h.tier] /\ h.tier = AdmittedTier(h.fn) /\ h.tier = tiers[h.fn]
          /\ h.fn \in disabled => h.fn \in off
      BY <1>1, <1>9, <3>1, Zenon DEF HandleOK, Admissible
    <3>3. AdmittedTier(h.fn)' = AdmittedTier(h.fn)
      BY <3>1, Zenon DEF AdmittedTier
    <3>4. tiers'[h.fn] = h.tier
      BY <1>4, <1>9, <3>2, <3>3, Zenon
    <3> QED BY <1>1, <3>1, <3>2, <3>3, <3>4, Zenon
  <2>3. GrantOK(h)'
    BY <1>9 DEF HandleOK, GrantOK
  <2> QED BY <2>1, <2>2, <2>3 DEF HandleOK
<1>10. HandleOK(cached)'
  <2>1. PICK h : h = cached
    OBVIOUS
  <2>2. HandleOK(h)'
    BY <1>9, <2>1, Zenon DEF EntryInv, CallsTypeOK
  <2> QED BY <1>1, <2>1, <2>2, Zenon DEF HandleOK, NotNewer, Admissible, GrantOK, Admitted, AdmittedTier
<1>11. HandleOK(c)'
  <2>1. NotNewer(c)'
    BY <1>2, <1>6 DEF NotNewer
  <2>2. Admissible(c)'
    BY <1>1, <1>4, <1>6, Zenon DEF Admissible, Admitted, AdmittedTier
  <2>3. GrantOK(c)'
    BY <1>6 DEF GrantOK
  <2> QED BY <2>1, <2>2, <2>3 DEF HandleOK
<1>12. ASSUME NEW i \in 1 .. Len(frames')
       PROVE  HandleOK(frames[i])' /\ (frames'[i].at \in {"run", "store"} => frames'[i].art # NoArt)
  <2>1. CASE i = Len(frames)
    <3>1. frames'[i] = c
      BY <1>7, <2>1, Zenon
    <3> QED BY <1>1, <1>6, <1>11, <3>1, Zenon DEF HandleOK, NotNewer, Admissible, GrantOK, Admitted, AdmittedTier
  <2>2. CASE i # Len(frames)
    <3>1. PICK h \in Call : h = frames[i] /\ h = frames'[i] /\ HandleOK(h)
                           /\ (h.at \in {"run", "store"} => h.art # NoArt)
      BY <1>7, <2>2, SMTT(30) DEF EntryInv, CallsTypeOK
    <3>2. HandleOK(h)'
      BY <1>9, <3>1, Zenon DEF Call
    <3> QED BY <3>1, <3>2, Zenon DEF HandleOK, NotNewer, Admissible, GrantOK, Admitted, AdmittedTier
  <2> QED BY <2>1, <2>2, Zenon
<1> QED BY <1>8, <1>10, <1>12, Zenon DEF EntryInv

(* The handle that becomes the cached one is current; its grant is for the  *)
(* tier the backend recorded, which is the handle's.                        *)
LEMMA StoreKeepsInv ==
  ASSUME EntryInv, Store
  PROVE  EntryInv'
<1>1. /\ frames # <<>> /\ Top.at = "store" /\ frames' = Below /\ MayStore
      /\ UNCHANGED <<epoch, mirror, code, disabled, installs, gen, off, tiers>>
  BY Zenon DEF Store, TopAt
<1>2. Len(frames) \in 1 .. Len(frames) /\ Top = frames[Len(frames)] /\ Top \in Call
  BY <1>1, TopIsCall, Zenon DEF EntryInv, Top
<1>3. HandleOK(Top) /\ Top.art # NoArt
  BY <1>1, <1>2, Zenon DEF EntryInv
<1>4. PICK give \in BOOLEAN :
        cached' = [fn |-> Top.fn, gen |-> Top.gen, art |-> Top.art, tier |-> Top.tier, epoch |-> Top.epoch,
                   left |-> IF give THEN Budget ELSE Top.left,
                   flag |-> IF give THEN tiers[Top.fn] = "opt" ELSE Top.flag]
  BY Zenon DEF Store
<1>5. Top.epoch # 0 /\ Top.gen = gen[Top.fn] /\ Top.epoch = epoch
  BY <1>1, Zenon DEF MayStore, CacheEpoch, EntryInv, CallsTypeOK
<1>6. Top.tier = tiers[Top.fn]
  BY <1>3, <1>5, Zenon DEF HandleOK, Admissible
<1>7. /\ cached'.fn = Top.fn /\ cached'.gen = Top.gen /\ cached'.art = Top.art /\ cached'.tier = Top.tier
      /\ cached'.epoch = Top.epoch
  BY <1>4, Zenon
<1>8. cached'.left \in Nat
  BY <1>2, <1>4, EntryAssumption, Zenon DEF Call
<1>9. cached'.flag \in BOOLEAN
  <2>1. Top.flag \in BOOLEAN
    BY <1>2, Zenon DEF Call
  <2>2. cached'.flag = IF give THEN tiers[Top.fn] = "opt" ELSE Top.flag
    BY <1>4, Zenon
  <2> QED BY <2>1, <2>2, Zenon
<1>10. CallsMove
  BY <1>1, CallEnds
<1>11. BackendMoves
  BY <1>1, BackendRests
<1>12. CachedMoves
  BY <1>2, <1>3, <1>5, <1>7, <1>8, <1>9, Zenon DEF CachedMoves, Call
<1>13. CASE ~give
  <2>1. cached'.left = Top.left /\ cached'.flag = Top.flag
    BY <1>4, <1>13, Zenon
  <2>2. HasOrigin(cached')
    BY <1>2, <1>7, <2>1, Zenon DEF HasOrigin, Inherits
  <2> QED BY <1>10, <1>11, <1>12, <2>2, MovingKeepsInv
<1>14. CASE give
  <2>1. cached'.flag <=> cached'.tier = "opt"
    BY <1>4, <1>6, <1>7, <1>14, Zenon
  <2>2. CallsTypeOK'
    BY <1>10, <1>11, <1>12, Zenon DEF CallsMove, BackendMoves, CachedMoves, CallsTypeOK
  <2>3. HandleOK(cached)'
    <3>1. NotNewer(cached)' /\ Admissible(cached)'
      BY <1>1, <1>3, <1>7, Zenon DEF HandleOK, NotNewer, Admissible, Admitted, AdmittedTier
    <3>2. GrantOK(cached)'
      BY <2>1 DEF GrantOK
    <3> QED BY <3>1, <3>2 DEF HandleOK
  <2>4. ASSUME NEW i \in 1 .. Len(frames')
        PROVE  HandleOK(frames[i])' /\ (frames'[i].at \in {"run", "store"} => frames'[i].art # NoArt)
    <3>1. PICK h : h = frames[i] /\ h = frames'[i] /\ HandleOK(h) /\ (h.at \in {"run", "store"} => h.art # NoArt)
      BY <1>1, BelowProperties, Zenon DEF EntryInv
    <3> QED BY <1>1, <3>1, Zenon DEF HandleOK, NotNewer, Admissible, GrantOK, Admitted, AdmittedTier
  <2> QED BY <2>2, <2>3, <2>4, Zenon DEF EntryInv
<1> QED BY <1>13, <1>14

LEMMA DiscardKeepsInv ==
  ASSUME EntryInv, Discard
  PROVE  EntryInv'
<1>1. frames # <<>> /\ frames' = Below /\ UNCHANGED <<cached, epoch, mirror, code, disabled, installs, gen, off, tiers>>
  BY Zenon DEF Discard, TopAt, engineVars
<1> QED BY <1>1, CallEnds, BackendRests, CachedRestsOrGoes, MovingKeepsInv, Zenon

(* The steps outside a call. *)
LEMMA OtherStepsKeepInv ==
  ASSUME EntryInv, Observe \/ WorkerCompletes \/ Suspend \/ UNCHANGED vars
  PROVE  EntryInv'
<1>1. UNCHANGED <<frames, cached, epoch, mirror, code, disabled, installs, gen, off, tiers>>
  BY Zenon DEF Observe, WorkerCompletes, Suspend, vars, engineVars, codeVars
<1> QED BY <1>1, CallsRest, BackendRests, CachedRestsOrGoes, MovingKeepsInv, Zenon

LEMMA PollKeepsInv ==
  ASSUME EntryInv, Poll
  PROVE  EntryInv'
<1>1. UNCHANGED <<frames, cached, gen, off, tiers>> /\ MaintenanceIfDue
  BY DEF Poll, engineVars, MaintenanceIfDue
<1> QED BY <1>1, CallsRest, BackendMaintainsIfDue, CachedRestsOrGoes, MovingKeepsInv

LEMMA RetireKeepsInv ==
  ASSUME EntryInv, NEW f \in Function, Retire(f)
  PROVE  EntryInv'
<1>1. UNCHANGED <<frames, cached>> /\ MaintenanceAfter(0, {f} \X Tier, disabled \ {f})
  BY DEF Retire
<1>2. gen' \in [Function -> Nat] /\ tiers' \in [Function -> Tier \cup {"none"}]
  BY DEF Retire, EntryInv, CallsTypeOK
<1>3. disabled \ {f} \in SUBSET Function /\ 0 \in Nat
  BY Zenon DEF EntryInv, CallsTypeOK
<1>4. BackendMoves
  BY <1>1, <1>2, <1>3, BackendMaintains, Zenon
<1> QED BY <1>1, <1>4, CallsRest, CachedRestsOrGoes, MovingKeepsInv

LEMMA DetachKeepsInv ==
  ASSUME EntryInv, Detach
  PROVE  EntryInv'
<1>1. /\ UNCHANGED <<frames, gen, tiers, disabled, installs>> /\ cached' = NoHandle
      /\ epoch' = 0 /\ mirror' = 0
  BY Zenon DEF Detach
<1>2. code' \in [Function -> [Tier -> Nat]]
  BY Zenon DEF Detach, Without, NoArt, EntryInv, CallsTypeOK
<1>3. BackendMoves
  BY <1>1, <1>2, EntryAssumption DEF BackendMoves, EntryInv, CallsTypeOK
<1> QED BY <1>1, <1>3, CallsRest, CachedRestsOrGoes, MovingKeepsInv

LEMMA InitHasInv == Init => EntryInv
<1> SUFFICES ASSUME Init PROVE EntryInv
  OBVIOUS
<1>1. CallsTypeOK
  BY EntryAssumption DEF Init, CallsTypeOK, NoHandle, NoArt, Tier
<1>2. HandleOK(cached)
  BY DEF Init, NoHandle, NoArt, HandleOK, NotNewer, Admissible, GrantOK
<1>3. Len(frames) = 0
  BY DEF Init
<1> QED BY <1>1, <1>2, <1>3 DEF EntryInv

LEMMA NextKeepsInv ==
  ASSUME EntryInv, [Next]_vars
  PROVE  EntryInv'
<1>1. CASE \E f \in Function, osr \in BOOLEAN : Begin(f, osr)
  BY <1>1, BeginKeepsInv
<1>2. CASE CallStep
  <2>1. CASE HotDisables
    BY <2>1, HotDisablesKeepsInv
  <2>2. CASE HotProbes
    BY <2>2, HotProbesKeepsInv
  <2>3. CASE SnapshotRejected
    BY <2>3, SnapshotRejectedKeepsInv
  <2>4. CASE HotRefreshes
    BY <2>4, HotRefreshesKeepsInv
  <2>5. CASE Interpret \/ TakeFast
    BY <2>5, InterpretKeepsInv, TakeFastKeepsInv
  <2>6. CASE TakeCached
    BY <2>6, TakeCachedKeepsInv
  <2>7. CASE PrepareAcquire
    BY <2>7, PrepareAcquireKeepsInv, Zenon
  <2>8. CASE \E f \in Function : Acquire(f) \/ AcquireNothing(f)
    BY <2>8, AcquireKeepsInv, AcquireNothingKeepsInv, Zenon
  <2>9. CASE Store
    BY <2>9, StoreKeepsInv, Zenon
  <2>10. CASE Discard
    BY <2>10, DiscardKeepsInv, Zenon
  <2> QED BY <1>2, <2>1, <2>2, <2>3, <2>4, <2>5, <2>6, <2>7, <2>8, <2>9, <2>10, Zenon DEF CallStep
<1>3. CASE ExitStep
  BY <1>3, ExitFastKeepsInv, NativeExitKeepsInv DEF ExitStep
<1>4. CASE Observe \/ WorkerCompletes \/ Suspend \/ UNCHANGED vars
  BY <1>4, OtherStepsKeepInv, Zenon
<1>5. CASE Poll \/ Detach \/ \E f \in Function : Retire(f)
  BY <1>5, PollKeepsInv, DetachKeepsInv, RetireKeepsInv
<1> QED BY <1>1, <1>2, <1>3, <1>4, <1>5, Zenon DEF Next

(* A call enters native code with the cached handle, which is current, or   *)
(* with one acquired in the same step.                                      *)
LEMMA TakingIsAdmissible ==
  ASSUME EntryInv, TakeFast \/ TakeCached
  PROVE  (Top.art = Admitted(Top.fn))'
<1>1. /\ frames # <<>> /\ UNCHANGED <<code, disabled>> /\ Top.fn \notin off
      /\ cached.art # NoArt /\ cached.fn = Top.fn /\ cached.gen = gen[Top.fn] /\ cached.epoch = epoch
      /\ cached.tier \in Tier /\ cached.art \in Nat /\ cached.epoch \in Nat /\ cached.left \in Nat
      /\ cached.flag \in BOOLEAN /\ cached.epoch # 0
  BY Zenon DEF TakeFast, TakeCached, TopAt, codeVars, TakesCached, CacheEpoch, FastReady, SameKey, EntryInv,
         CallsTypeOK
<1>2. cached.art = Admitted(Top.fn)
  BY <1>1, Zenon DEF EntryInv, HandleOK, Admissible, Admitted
<1>3. PICK c \in Call : c.fn = Top.fn /\ c.art = cached.art /\ frames' = WithTop(c)
  <2>1. Top \in Call
    BY <1>1, TopIsCall, Zenon DEF EntryInv
  <2>2. CASE TakeFast
    <3>1. cached.left - 1 \in Nat
      BY <1>1, <2>2 DEF TakeFast, FastReady
    <3> QED BY <1>1, <2>1, <2>2, <3>1, Zenon DEF TakeFast, Call
  <2>3. CASE TakeCached
    BY <1>1, <2>1, <2>3, Zenon DEF TakeCached, Call
  <2> QED BY <2>2, <2>3, Zenon
<1>4. Len(frames') = Len(frames) /\ frames'[Len(frames)] = c
  BY <1>1, <1>3, WithTopProperties, TopIsCall, Zenon DEF EntryInv
<1>5. Top' = c
  BY <1>4, Zenon DEF Top
<1> QED BY <1>1, <1>2, <1>3, <1>5, Zenon DEF Admitted, AdmittedTier

(* An entry that is being acquired is the one the coordinator admits. *)
LEMMA AcquiringIsAdmissible ==
  ASSUME EntryInv, NEW f \in Function, Acquire(f)
  PROVE  (Top.art = Admitted(Top.fn))'
<1>1. frames # <<>> /\ Top.fn = f /\ Top \in Call
  BY TopIsCall, Zenon DEF Acquire, TopAt, EntryInv
<1>2. EntryInv'
  BY AcquireKeepsInv, Zenon
<1>3. Admitted(f)' \in Nat /\ AdmittedTier(f)' \in Tier /\ epoch' \in Nat
  <2>1. CallsTypeOK'
    BY <1>2, Zenon DEF EntryInv
  <2>2. epoch' \in Nat
    BY <2>1 DEF CallsTypeOK
  <2>3. AdmittedTier(f)' \in Tier
    BY DEF AdmittedTier, Tier
  <2>4. code'[f][AdmittedTier(f)'] \in Nat
    BY <2>1, <2>3, Zenon DEF CallsTypeOK
  <2>5. Admitted(f)' \in Nat
    BY <2>4 DEF Admitted, NoArt
  <2> QED BY <2>2, <2>3, <2>5
<1>4. PICK c \in Call : c.fn = f /\ c.art = Admitted(f)' /\ frames' = WithTop(c)
  BY <1>1, <1>3, Zenon DEF Acquire, Call
<1>5. Len(frames') = Len(frames) /\ frames'[Len(frames)] = c
  BY <1>1, <1>4, WithTopProperties, TopIsCall DEF EntryInv
<1>6. Top' = c
  BY <1>5 DEF Top
<1> QED BY <1>4, <1>6, Zenon DEF Admitted, AdmittedTier

(* No other step takes a call into native code. *)
LEMMA OthersDoNotEnter ==
  ASSUME EntryInv, frames # <<>>, NEW c \in Call, frames' = WithTop(c)
  PROVE  Top' = c
<1>1. Len(frames') = Len(frames) /\ frames'[Len(frames)] = c
  BY WithTopProperties, TopIsCall DEF EntryInv
<1> QED BY <1>1 DEF Top

(* No step enters anything but an admissible entry. *)
LEMMA StepEntersAdmissible ==
  ASSUME EntryInv, [Next]_vars, frames' # <<>>, Len(frames') = Len(frames), Top'.at = "run", Top.at # "run"
  PROVE  (Top.art = Admitted(Top.fn))'
<1>1. frames' # frames
  BY DEF Top
<1>2. frames # <<>>
  <2>1. EntryInv'
    BY NextKeepsInv
  <2> QED BY <2>1 DEF EntryInv, CallsTypeOK
<1>3. Top \in Call /\ Len(frames) \in 1 .. Len(frames) /\ frames \in Seq(Call)
  BY <1>2, TopIsCall, Zenon DEF EntryInv, CallsTypeOK
<1>4. frames' # Below
  BY <1>2, <1>3, BelowProperties DEF EntryInv
<1>5. ASSUME NEW c, frames' = Append(frames, c) PROVE FALSE
  BY <1>3, <1>5
<1>6. CASE TakeFast \/ TakeCached
  BY <1>6, TakingIsAdmissible
<1>7. CASE \E f \in Function : Acquire(f)
  BY <1>7, AcquiringIsAdmissible
<1>8. CASE HotDisables \/ HotProbes \/ SnapshotRejected \/ HotRefreshes
  <2>1. PICK c \in Call : c.at = "entry" /\ frames' = WithTop(c)
    BY <1>3, <1>8, Zenon DEF HotDisables, HotProbes, SnapshotRejected, HotRefreshes, Call
  <2> QED BY <1>2, <2>1, OthersDoNotEnter
<1>9. CASE PrepareAcquire
  <2>1. PICK c \in Call : c.at = "acquire" /\ frames' = WithTop(c)
    BY <1>3, <1>9, Zenon DEF PrepareAcquire, Call
  <2> QED BY <1>2, <2>1, OthersDoNotEnter
<1>10. CASE ExitStep
  <2>1. TopAt("run")
    BY <1>10, Zenon DEF ExitStep, ExitFast, NativeExit
  <2> QED BY <2>1 DEF TopAt
<1>11. CASE Interpret \/ Store \/ Discard \/ \E f \in Function : AcquireNothing(f)
  BY <1>4, <1>11, Zenon DEF Interpret, Store, Discard, AcquireNothing
<1>12. CASE \E f \in Function, osr \in BOOLEAN : Begin(f, osr)
  BY <1>5, <1>12, Zenon DEF Begin
<1>13. CASE Observe \/ WorkerCompletes \/ Poll \/ Suspend \/ Detach \/ UNCHANGED vars
            \/ \E f \in Function : Retire(f)
  BY <1>1, <1>13, Zenon DEF Observe, WorkerCompletes, Poll, Suspend, Detach, Retire, vars
<1> QED BY <1>6, <1>7, <1>8, <1>9, <1>10, <1>11, <1>12, <1>13, Zenon DEF Next, CallStep

------------------------------------------------------------------------------
(* The theorems. *)

(* EntryInv is an invariant: what the calls, the cached entry and the
   coordinator agree on. *)
THEOREM EntryInvariant == Spec => []EntryInv
<1>1. EntryInv /\ [Next]_vars => EntryInv'
  BY NextKeepsInv
<1> QED BY InitHasInv, <1>1, PTL DEF Spec

(* Whatever maintenance, deoptimization, retirement and recursion do, the   *)
(* idle handle QuickJS may enter again by comparing epochs is what          *)
(* acquire_entry would give now, or belongs to a function that record_hot   *)
(* disabled and had switched off, which QuickJS does not enter.             *)
THEOREM CachedHandleIsAdmissible == Spec => []CachedIsAdmissible
<1>1. EntryInv => CachedIsAdmissible
  BY Zenon DEF EntryInv, CallsTypeOK, HandleOK, Admissible, CachedIsAdmissible, SameKey, Admitted
<1> QED BY EntryInvariant, <1>1, PTL

(* A granted execution is counted for the tier of the code it runs. *)
THEOREM GrantsAreForTheirTier == Spec => []GrantIsForItsTier
<1>1. EntryInv => GrantIsForItsTier
  BY DEF EntryInv, HandleOK, GrantOK, GrantIsForItsTier
<1> QED BY EntryInvariant, <1>1, PTL

(* No call enters code that was replaced, demoted, refreshed or retired, or *)
(* any code of a disabled function, whether it asked the backend or         *)
(* compared epochs.                                                         *)
THEOREM EntriesAreAdmissible == Spec => EnteredIsAdmissible
<1> DEFINE A == frames' # <<>> /\ Len(frames') = Len(frames) /\ Top'.at = "run" /\ Top.at # "run" =>
                  (Top.art = Admitted(Top.fn))'
<1>1. EntryInv /\ [Next]_vars => [A]_vars
  BY StepEntersAdmissible
<1> QED BY EntryInvariant, <1>1, PTL DEF Spec, EnteredIsAdmissible

------------------------------------------------------------------------------

LEMMA HeldByFinite ==
  ASSUME Counting, CallsTypeOK, NEW a
  PROVE  IsFiniteSet(HeldBy(a)) /\ HoldingCalls(a) \in Nat
<1>1. Len(frames) \in Int
  BY DEF CallsTypeOK
<1>2. IsFiniteSet(1 .. Len(frames))
  BY <1>1, Zenon DEF Counting
<1>3. IsFiniteSet(HeldBy(a))
  BY <1>2 DEF Counting, HeldBy
<1> QED BY <1>3, Zenon DEF Counting, HoldingCalls

LEMMA HeldAfterBegin ==
  ASSUME CallsTypeOK, NEW c \in Call, frames' = Append(frames, c), NEW a, c.art # a
  PROVE  HoldingCalls(a)' = HoldingCalls(a)
<1>1. /\ Len(frames') = Len(frames) + 1 /\ Len(frames) \in Nat
      /\ \A i \in 1 .. Len(frames) : frames'[i] = frames[i]
      /\ frames'[Len(frames) + 1] = c
  BY DEF CallsTypeOK
<1>2. HeldBy(a)' = HeldBy(a)
  BY <1>1 DEF HeldBy
<1> QED BY <1>2 DEF HoldingCalls

LEMMA HeldAfterChange ==
  ASSUME Counting, CallsTypeOK, frames # <<>>, NEW c \in Call, frames' = WithTop(c), NEW a
  PROVE  HoldingCalls(a)' = HoldingCalls(a) - (IF Top.art = a THEN 1 ELSE 0)
                                            + (IF c.art = a THEN 1 ELSE 0)
<1>1. /\ Len(frames') = Len(frames) /\ Len(frames) \in 1 .. Len(frames)
      /\ \A i \in 1 .. Len(frames) : frames'[i] = IF i = Len(frames) THEN c ELSE frames[i]
  BY WithTopProperties, TopIsCall
<1> DEFINE H == HeldBy(a)
           n == Len(frames)
<1>2. IsFiniteSet(H) /\ Cardinality(H) \in Nat /\ (n \in H <=> Top.art = a)
  BY <1>1, HeldByFinite, Zenon DEF HeldBy, HoldingCalls, Top
<1>3. HeldBy(a)' = IF c.art = a THEN H \cup {n} ELSE H \ {n}
  BY <1>1, Zenon DEF HeldBy
<1> HIDE DEF H, n
<1>4. /\ Cardinality(H \cup {n}) = IF n \in H THEN Cardinality(H) ELSE Cardinality(H) + 1
      /\ Cardinality(H \ {n}) = IF n \in H THEN Cardinality(H) - 1 ELSE Cardinality(H)
  BY <1>2, Zenon DEF Counting
<1>5. HoldingCalls(a) = Cardinality(H)
  BY DEF HoldingCalls, H
<1>6. HoldingCalls(a)' = Cardinality(IF c.art = a THEN H \cup {n} ELSE H \ {n})
  BY <1>3 DEF HoldingCalls
<1> QED BY <1>2, <1>4, <1>5, <1>6

LEMMA HeldAfterEnd ==
  ASSUME Counting, CallsTypeOK, frames # <<>>, frames' = Below, NEW a
  PROVE  HoldingCalls(a)' = HoldingCalls(a) - (IF Top.art = a THEN 1 ELSE 0)
<1>1. /\ Len(frames') = Len(frames) - 1 /\ Len(frames) \in 1 .. Len(frames)
      /\ \A i \in 1 .. Len(frames) - 1 : frames'[i] = frames[i]
  BY BelowProperties, TopIsCall
<1> DEFINE H == HeldBy(a)
           n == Len(frames)
<1>2. IsFiniteSet(H) /\ Cardinality(H) \in Nat /\ (n \in H <=> Top.art = a)
  BY <1>1, HeldByFinite, Zenon DEF HeldBy, HoldingCalls, Top
<1>3. HeldBy(a)' = H \ {n}
  BY <1>1 DEF HeldBy
<1> HIDE DEF H, n
<1>4. Cardinality(H \ {n}) = IF n \in H THEN Cardinality(H) - 1 ELSE Cardinality(H)
  BY <1>2, Zenon DEF Counting
<1>5. HoldingCalls(a) = Cardinality(H) /\ HoldingCalls(a)' = Cardinality(H \ {n})
  BY <1>3 DEF HoldingCalls, H
<1> QED BY <1>2, <1>4, <1>5

LEMMA WithoutIsBounded ==
  ASSUME CodeIsBounded, NEW gone
  PROVE  Without(gone) \in [Function -> [Tier -> 0 .. MaxArt]]
BY EntryAssumption DEF CodeIsBounded, Without, NoArt

LEMMA MaintenanceIsBounded ==
  ASSUME CodeIsBounded, NEW n, NEW lost, NEW dis, MaintenanceAfter(n, lost, dis)
  PROVE  CodeIsBounded'
<1>1. PICK more :
        \/ code' = Without(lost \cup more) /\ UNCHANGED installs
        \/ /\ installs < MaxArt /\ installs' = installs + 1
           /\ \E p \in (Function \X Tier) \ lost :
                code' = [Without(lost \cup more) EXCEPT ![p[1]][p[2]] = installs + 1]
  BY Zenon DEF MaintenanceAfter
<1>2. Without(lost \cup more) \in [Function -> [Tier -> 0 .. MaxArt]]
  BY WithoutIsBounded
<1>3. CASE code' = Without(lost \cup more) /\ UNCHANGED installs
  BY <1>2, <1>3, Zenon DEF CodeIsBounded
<1>4. CASE /\ installs < MaxArt /\ installs' = installs + 1
           /\ \E p \in (Function \X Tier) \ lost :
                code' = [Without(lost \cup more) EXCEPT ![p[1]][p[2]] = installs + 1]
  <2>1. PICK f \in Function, t \in Tier : code' = [Without(lost \cup more) EXCEPT ![f][t] = installs + 1]
    BY <1>4, Zenon
  <2>2. installs + 1 \in 0 .. MaxArt
    BY <1>4, EntryAssumption DEF CodeIsBounded
  <2>3. code' \in [Function -> [Tier -> 0 .. MaxArt]]
    BY <1>2, <2>1, <2>2, Zenon
  <2> QED BY <1>4, <2>2, <2>3, Zenon DEF CodeIsBounded
<1> QED BY <1>1, <1>3, <1>4, Zenon

LEMMA StepIsBounded ==
  ASSUME CodeIsBounded, [Next]_vars
  PROVE  CodeIsBounded'
<1>1. ASSUME UNCHANGED <<code, installs>> PROVE CodeIsBounded'
  BY <1>1 DEF CodeIsBounded
<1>2. ASSUME MaintenanceIfDue PROVE CodeIsBounded'
  BY <1>1, <1>2, MaintenanceIsBounded DEF MaintenanceIfDue, Maintenance, codeVars
<1>3. ASSUME NEW gone, code' = Without(gone), UNCHANGED installs PROVE CodeIsBounded'
  BY <1>3, WithoutIsBounded, Zenon DEF CodeIsBounded
<1>4. CASE CallStep
  <2>1. CASE HotDisables \/ Interpret \/ TakeFast \/ TakeCached \/ PrepareAcquire
             \/ Store \/ Discard
    BY <1>1, <2>1, Zenon DEF HotDisables, Interpret, TakeFast, TakeCached, PrepareAcquire, Store,
                      Discard, codeVars
  <2>2. CASE HotProbes \/ \E f \in Function : Acquire(f) \/ AcquireNothing(f)
    BY <1>1, <1>2, <2>2, Zenon DEF HotProbes, Acquire, AcquireNothing, codeVars
  <2>3. CASE SnapshotRejected \/ HotRefreshes
    BY <1>1, <1>3, <2>3, MaintenanceIsBounded, Zenon DEF SnapshotRejected, HotRefreshes
  <2> QED BY <1>4, <2>1, <2>2, <2>3, Zenon DEF CallStep
<1>5. CASE ExitStep
  <2>1. CASE ExitFast
    BY <1>1, <2>1 DEF ExitFast, codeVars
  <2>2. ASSUME NEW kind, NativeExit(kind) PROVE CodeIsBounded'
    BY <1>3, <2>2, MaintenanceIsBounded, Zenon DEF NativeExit
  <2> QED BY <1>5, <2>1, <2>2 DEF ExitStep
<1>6. CASE Poll \/ \E f \in Function : Retire(f)
  BY <1>6, MaintenanceIsBounded, Zenon DEF Poll, Maintenance, Retire
<1>7. CASE Detach
  BY <1>3, <1>7, Zenon DEF Detach
<1>8. CASE Observe \/ WorkerCompletes \/ Suspend \/ UNCHANGED vars
           \/ \E f \in Function, osr \in BOOLEAN : Begin(f, osr)
  BY <1>1, <1>8, Zenon DEF Observe, WorkerCompletes, Suspend, vars, codeVars, Begin
<1> QED BY <1>4, <1>5, <1>6, <1>7, <1>8 DEF Next

(* The innermost call changes and nothing is pinned or released: its handle *)
(* stays what it was, or is the one that was cached.                        *)
LEMMA CallKeepsPins ==
  ASSUME Counting, EntryInv, PinInv, frames # <<>>, NEW c \in Call, frames' = WithTop(c), CallHolds(c),
         UNCHANGED pins, CodeIsBounded',
         \/ c.art = Top.art /\ UNCHANGED cached
         \/ Top.art = NoArt /\ c.art = cached.art /\ cached' = NoHandle
  PROVE  PinInv'
<1>1. /\ Len(frames') = Len(frames)
      /\ \A i \in 1 .. Len(frames) : frames'[i] = IF i = Len(frames) THEN c ELSE frames[i]
  BY WithTopProperties, Zenon DEF EntryInv
<1>2. \A i \in 1 .. Len(frames') : CallHolds(frames'[i])
  BY <1>1, Zenon DEF PinInv
<1>3. cached'.art \in 0 .. MaxArt
  BY EntryAssumption DEF PinInv, NoHandle, NoArt
<1>4. ASSUME NEW a \in Artifact
      PROVE  pins'[a] = HoldingCalls(a)' + (IF cached'.art = a THEN 1 ELSE 0)
  <2>1. a # NoArt
    BY DEF Artifact, NoArt
  <2>2. HoldingCalls(a)' = HoldingCalls(a) - (IF Top.art = a THEN 1 ELSE 0)
                                           + (IF c.art = a THEN 1 ELSE 0)
    BY HeldAfterChange, Zenon DEF EntryInv
  <2>3. HoldingCalls(a) \in Nat /\ pins[a] = HoldingCalls(a) + (IF cached.art = a THEN 1 ELSE 0)
    BY HeldByFinite, Zenon DEF EntryInv, PinInv
  <2>4. cached' = NoHandle => cached'.art = NoArt
    BY DEF NoHandle
  <2> QED BY <2>1, <2>2, <2>3, <2>4
<1> QED BY <1>2, <1>3, <1>4, Zenon DEF PinInv

(* The innermost call is over; its handle was released or is cached.        *)
LEMMA EndKeepsPins ==
  ASSUME Counting, EntryInv, PinInv, frames # <<>>, frames' = Below, CodeIsBounded', pins' \in [Artifact -> Int],
         cached'.art \in 0 .. MaxArt,
         \A a \in Artifact :
           pins'[a] = pins[a] - (IF Top.art = a THEN 1 ELSE 0) - (IF cached.art = a THEN 1 ELSE 0)
                              + (IF cached'.art = a THEN 1 ELSE 0)
  PROVE  PinInv'
<1>1. \A i \in 1 .. Len(Below) : i \in 1 .. Len(frames) /\ Below[i] = frames[i]
  BY BelowProperties, Zenon DEF EntryInv
<1>2. \A i \in 1 .. Len(frames') : CallHolds(frames'[i])
  BY <1>1, Zenon DEF PinInv
<1>3. ASSUME NEW a \in Artifact
      PROVE  pins'[a] = HoldingCalls(a)' + (IF cached'.art = a THEN 1 ELSE 0)
  <2>1. HoldingCalls(a)' = HoldingCalls(a) - (IF Top.art = a THEN 1 ELSE 0)
    BY HeldAfterEnd, Zenon DEF EntryInv
  <2>2. HoldingCalls(a) \in Nat /\ pins[a] = HoldingCalls(a) + (IF cached.art = a THEN 1 ELSE 0)
    BY HeldByFinite, Zenon DEF EntryInv, PinInv
  <2> QED BY <2>1, <2>2
<1> QED BY <1>2, <1>3, Zenon DEF PinInv

(* No call changes. *)
LEMMA RestKeepsPins ==
  ASSUME PinInv, UNCHANGED <<frames, cached, pins>>, CodeIsBounded'
  PROVE  PinInv'
<1>1. \A a : HoldingCalls(a)' = HoldingCalls(a)
  BY DEF HoldingCalls, HeldBy
<1> QED BY <1>1, Zenon DEF PinInv

LEMMA TopHolds ==
  ASSUME EntryInv, PinInv, frames # <<>>
  PROVE  Top \in Call /\ CallHolds(Top)
BY TopIsCall, Zenon DEF EntryInv, PinInv, Top

LEMMA ReleaseIsOne ==
  ASSUME PinInv, NEW b \in 0 .. MaxArt, b # NoArt, pins' = [pins EXCEPT ![b] = @ - 1]
  PROVE  /\ pins' \in [Artifact -> Int]
         /\ \A a \in Artifact : pins'[a] = pins[a] - (IF b = a THEN 1 ELSE 0)
<1>1. b \in Artifact /\ pins \in [Artifact -> Int]
  BY EntryAssumption DEF Artifact, NoArt, PinInv
<1> QED BY <1>1

LEMMA HotKeepsPins ==
  ASSUME Counting, EntryInv, PinInv, CodeIsBounded', HotDisables \/ HotProbes \/ SnapshotRejected \/ HotRefreshes
  PROVE  PinInv'
<1>1. /\ frames # <<>> /\ Top.at = "hot" /\ UNCHANGED <<cached, pins>>
      /\ frames' = WithTop([Top EXCEPT !.at = "entry"])
  BY Zenon DEF HotDisables, HotProbes, SnapshotRejected, HotRefreshes, TopAt
<1>2. PICK c \in Call : c = [Top EXCEPT !.at = "entry"] /\ c.art = Top.art
  BY <1>1, TopIsCall DEF EntryInv, Call
<1>3. CallHolds(c)
  BY <1>1, <1>2, TopHolds DEF CallHolds
<1> QED BY <1>1, <1>2, <1>3, CallKeepsPins, Zenon

LEMMA TakingKeepsPins ==
  ASSUME Counting, EntryInv, PinInv, CodeIsBounded', TakeFast \/ TakeCached
  PROVE  PinInv'
<1>1. /\ frames # <<>> /\ Top.at = "entry" /\ cached' = NoHandle /\ UNCHANGED pins
      /\ cached.tier \in Tier /\ cached.art \in Nat /\ cached.epoch \in Nat /\ cached.left \in Nat
      /\ cached.flag \in BOOLEAN
  BY Zenon DEF TakeFast, TakeCached, TopAt, EntryInv, CallsTypeOK
<1>2. PICK c \in Call : c.at = "run" /\ c.art = cached.art /\ frames' = WithTop(c)
  <2>1. Top \in Call
    BY <1>1, TopIsCall, Zenon DEF EntryInv
  <2>2. CASE TakeFast
    <3>1. cached.left - 1 \in Nat
      BY <1>1, <2>2 DEF TakeFast, FastReady
    <3> QED BY <1>1, <2>1, <2>2, <3>1, Zenon DEF TakeFast, Call
  <2>3. CASE TakeCached
    BY <1>1, <2>1, <2>3, Zenon DEF TakeCached, Call
  <2> QED BY <2>2, <2>3, Zenon
<1>3. CallHolds(c) /\ Top.art = NoArt
  BY <1>1, <1>2, TopHolds, Zenon DEF CallHolds, PinInv
<1> QED BY <1>1, <1>2, <1>3, CallKeepsPins, Zenon

(* The cached handle is dropped, or not; the call comes without one. *)
LEMMA PrepareKeepsPins ==
  ASSUME Counting, EntryInv, PinInv, CodeIsBounded', PrepareAcquire
  PROVE  PinInv'
<1>1. /\ frames # <<>> /\ Top.at = "entry"
      /\ frames' = WithTop([Top EXCEPT !.fast = FALSE, !.at = "acquire"])
  BY Zenon DEF PrepareAcquire, TopAt
<1>2. PICK c \in Call : c = [Top EXCEPT !.fast = FALSE, !.at = "acquire"] /\ c.art = Top.art
  <2>1. Top \in Call
    BY <1>1, TopIsCall DEF EntryInv
  <2>2. PICK c : c = [Top EXCEPT !.fast = FALSE, !.at = "acquire"]
    OBVIOUS
  <2>3. c \in Call /\ c.art = Top.art
    BY <2>1, <2>2, Zenon DEF Call
  <2> QED BY <2>2, <2>3, Zenon
<1>3. CallHolds(c) /\ Top.art = NoArt
  BY <1>1, <1>2, TopHolds DEF CallHolds
<1>4. CASE UNCHANGED <<cached, pins>>
  BY <1>1, <1>2, <1>3, <1>4, CallKeepsPins, Zenon
<1>5. CASE cached.art # NoArt /\ cached' = NoHandle /\ ReleasePin(cached.art)
  <2>1. /\ pins' \in [Artifact -> Int]
        /\ \A a \in Artifact : pins'[a] = pins[a] - (IF cached.art = a THEN 1 ELSE 0)
    BY <1>5, ReleaseIsOne, Zenon DEF ReleasePin, PinInv
  <2>2. /\ Len(frames') = Len(frames)
        /\ \A i \in 1 .. Len(frames) : frames'[i] = IF i = Len(frames) THEN c ELSE frames[i]
    BY <1>1, <1>2, WithTopProperties, Zenon DEF EntryInv
  <2>3. \A i \in 1 .. Len(frames') : CallHolds(frames'[i])
    BY <1>3, <2>2, Zenon DEF PinInv
  <2>4. cached'.art = NoArt
    BY <1>5, Zenon DEF NoHandle
  <2>5. ASSUME NEW a \in Artifact
        PROVE  pins'[a] = HoldingCalls(a)' + (IF cached'.art = a THEN 1 ELSE 0)
    <3>1. a # NoArt
      BY DEF Artifact, NoArt
    <3>2. HoldingCalls(a)' = HoldingCalls(a) - (IF Top.art = a THEN 1 ELSE 0)
                                             + (IF c.art = a THEN 1 ELSE 0)
      BY <1>1, <1>2, HeldAfterChange, Zenon DEF EntryInv
    <3>3. HoldingCalls(a) \in Nat /\ pins[a] = HoldingCalls(a) + (IF cached.art = a THEN 1 ELSE 0)
      BY HeldByFinite, Zenon DEF EntryInv, PinInv
    <3> QED BY <1>2, <1>3, <2>1, <2>4, <3>1, <3>2, <3>3
  <2>6. cached'.art \in 0 .. MaxArt
    BY <2>4, EntryAssumption DEF NoArt
  <2> QED BY <2>1, <2>3, <2>5, <2>6, Zenon DEF PinInv
<1> QED BY <1>4, <1>5, Zenon DEF PrepareAcquire

LEMMA AcquireKeepsPins ==
  ASSUME Counting, EntryInv, PinInv, CodeIsBounded', NEW f \in Function, Acquire(f)
  PROVE  PinInv'
<1> DEFINE b == Admitted(f)'
<1>1. /\ frames # <<>> /\ Top.at = "acquire" /\ UNCHANGED cached /\ b # NoArt
      /\ pins' = [pins EXCEPT ![b] = @ + 1]
  BY Zenon DEF Acquire, TopAt
<1>2. AdmittedTier(f)' \in Tier /\ b \in 0 .. MaxArt
  <2>1. AdmittedTier(f)' \in Tier
    BY Zenon DEF AdmittedTier, Tier
  <2>2. code'[f][AdmittedTier(f)'] \in 0 .. MaxArt
    BY <2>1, Zenon DEF CodeIsBounded
  <2> QED BY <2>1, <2>2, EntryAssumption DEF Admitted, NoArt
<1>3. EntryInv'
  BY AcquireKeepsInv
<1>4. epoch' \in Nat
  BY <1>3 DEF EntryInv, CallsTypeOK
<1>5. PICK c \in Call : c.at = "run" /\ c.art = b /\ frames' = WithTop(c)
  <2>1. Top \in Call /\ b \in Nat
    BY <1>1, <1>2, TopIsCall DEF EntryInv
  <2> QED BY <1>2, <1>4, <2>1, Zenon DEF Acquire, Call
<1> HIDE DEF b
<1>6. b \in Artifact /\ Top.art = NoArt
  BY <1>1, <1>2, TopHolds, EntryAssumption DEF CallHolds, Artifact, NoArt
<1>7. /\ pins' \in [Artifact -> Int]
      /\ \A a \in Artifact : pins'[a] = pins[a] + (IF b = a THEN 1 ELSE 0)
  BY <1>1, <1>6 DEF PinInv
<1>8. /\ Len(frames') = Len(frames)
      /\ \A i \in 1 .. Len(frames) : frames'[i] = IF i = Len(frames) THEN c ELSE frames[i]
  BY <1>1, <1>5, WithTopProperties, Zenon DEF EntryInv
<1>9. \A i \in 1 .. Len(frames') : CallHolds(frames'[i])
  BY <1>2, <1>5, <1>8, Zenon DEF PinInv, CallHolds
<1>10. ASSUME NEW a \in Artifact
       PROVE  pins'[a] = HoldingCalls(a)' + (IF cached'.art = a THEN 1 ELSE 0)
  <2>1. a # NoArt
    BY DEF Artifact, NoArt
  <2>2. HoldingCalls(a)' = HoldingCalls(a) - (IF Top.art = a THEN 1 ELSE 0)
                                           + (IF c.art = a THEN 1 ELSE 0)
    BY <1>1, <1>5, HeldAfterChange, Zenon DEF EntryInv
  <2>3. HoldingCalls(a) \in Nat /\ pins[a] = HoldingCalls(a) + (IF cached.art = a THEN 1 ELSE 0)
    BY HeldByFinite, Zenon DEF EntryInv, PinInv
  <2> QED BY <1>1, <1>5, <1>6, <1>7, <2>1, <2>2, <2>3
<1> QED BY <1>1, <1>7, <1>9, <1>10, Zenon DEF PinInv

LEMMA ExitKeepsPins ==
  ASSUME Counting, EntryInv, PinInv, CodeIsBounded', ExitStep
  PROVE  PinInv'
<1>1. PICK kind \in {"done", "deopt", "other"} :
        /\ frames # <<>> /\ Top.at = "run" /\ UNCHANGED <<cached, pins>>
        /\ frames' = WithTop([Top EXCEPT !.kind = kind, !.at = "store"])
  BY Zenon DEF ExitStep, ExitFast, NativeExit, TopAt
<1>2. PICK c \in Call : c = [Top EXCEPT !.kind = kind, !.at = "store"] /\ c.art = Top.art /\ c.at = "store"
  <2>1. Top \in Call
    BY <1>1, TopIsCall DEF EntryInv
  <2>2. PICK c : c = [Top EXCEPT !.kind = kind, !.at = "store"]
    OBVIOUS
  <2>3. c \in Call /\ c.art = Top.art /\ c.at = "store"
    BY <2>1, <2>2, Zenon DEF Call
  <2> QED BY <2>2, <2>3, Zenon
<1>3. CallHolds(c)
  BY <1>1, <1>2, TopHolds DEF CallHolds
<1> QED BY <1>1, <1>2, <1>3, CallKeepsPins, Zenon

LEMMA ReturnKeepsPins ==
  ASSUME Counting, EntryInv, PinInv, CodeIsBounded',
         Interpret \/ Store \/ Discard \/ \E f \in Function : AcquireNothing(f)
  PROVE  PinInv'
<1>1. frames # <<>> /\ frames' = Below
  BY Zenon DEF Interpret, Store, Discard, AcquireNothing, TopAt
<1>2. Top.art \in 0 .. MaxArt /\ \A a \in Artifact : a # NoArt
  BY <1>1, TopHolds DEF CallHolds, Artifact, NoArt
<1>3. pins \in [Artifact -> Int]
  BY Zenon DEF PinInv
<1>4. CASE Interpret \/ \E f \in Function : AcquireNothing(f)
  <2>1. Top.art = NoArt /\ UNCHANGED <<cached, pins>>
    BY <1>1, <1>4, TopHolds, Zenon DEF Interpret, AcquireNothing, TopAt, CallHolds
  <2> QED BY <1>1, <1>2, <1>3, <2>1, EndKeepsPins DEF PinInv
<1>5. CASE Discard
  <2>1. Top.art # NoArt /\ UNCHANGED cached /\ pins' = [pins EXCEPT ![Top.art] = @ - 1]
    BY <1>5, TopIsCall, Zenon DEF Discard, TopAt, ReleasePin, EntryInv, Top
  <2>2. /\ pins' \in [Artifact -> Int]
        /\ \A a \in Artifact : pins'[a] = pins[a] - (IF Top.art = a THEN 1 ELSE 0)
    BY <1>2, <2>1, ReleaseIsOne, Zenon
  <2> QED BY <1>1, <1>3, <2>1, <2>2, EndKeepsPins DEF PinInv
<1>6. CASE Store
  <2>1. cached'.art = Top.art
    <3>1. PICK give \in BOOLEAN :
            cached' = [fn |-> Top.fn, gen |-> Top.gen, art |-> Top.art, tier |-> Top.tier,
                       epoch |-> Top.epoch, left |-> IF give THEN Budget ELSE Top.left,
                       flag |-> IF give THEN tiers[Top.fn] = "opt" ELSE Top.flag]
      BY <1>6, Zenon DEF Store
    <3> QED BY <3>1, Zenon
  <2>2. CASE cached.art = NoArt
    <3>1. UNCHANGED pins
      BY <1>6, <2>2, Zenon DEF Store
    <3> QED BY <1>1, <1>2, <1>3, <2>1, <2>2, <3>1, EndKeepsPins
  <2>3. CASE cached.art # NoArt
    <3>1. pins' = [pins EXCEPT ![cached.art] = @ - 1] /\ cached.art \in 0 .. MaxArt
      BY <1>6, <2>3, Zenon DEF Store, ReleasePin, PinInv
    <3>2. /\ pins' \in [Artifact -> Int]
          /\ \A a \in Artifact : pins'[a] = pins[a] - (IF cached.art = a THEN 1 ELSE 0)
      BY <2>3, <3>1, ReleaseIsOne, Zenon
    <3> QED BY <1>1, <1>2, <1>3, <2>1, <3>2, EndKeepsPins
  <2> QED BY <2>2, <2>3
<1> QED BY <1>4, <1>5, <1>6, Zenon

LEMMA BeginKeepsPins ==
  ASSUME EntryInv, PinInv, CodeIsBounded', NEW f \in Function, NEW osr \in BOOLEAN, Begin(f, osr)
  PROVE  PinInv'
<1>1. PICK fast \in BOOLEAN :
        frames' = Append(frames, [fn |-> f, gen |-> gen[f], art |-> NoArt, tier |-> "base", epoch |-> 0,
                                  left |-> 0, flag |-> FALSE, fast |-> fast, osr |-> osr, kind |-> "none",
                                  at |-> IF fast THEN "entry" ELSE "hot"])
  BY Zenon DEF Begin, FastReady
<1>2. gen[f] \in Nat /\ NoArt \in Nat /\ "base" \in Tier /\ frames \in Seq(Call)
  BY Zenon DEF EntryInv, CallsTypeOK, NoArt, Tier
<1>3. PICK c \in Call : c.art = NoArt /\ frames' = Append(frames, c)
  BY <1>1, <1>2, Zenon DEF Call
<1>4. UNCHANGED <<cached, pins>>
  BY Zenon DEF Begin
<1>5. /\ Len(frames') = Len(frames) + 1
      /\ \A i \in 1 .. Len(frames) : frames'[i] = frames[i]
      /\ frames'[Len(frames) + 1] = c
  BY <1>2, <1>3
<1>6. \A i \in 1 .. Len(frames') : CallHolds(frames'[i])
  BY <1>2, <1>3, <1>5, EntryAssumption DEF PinInv, CallHolds, NoArt
<1>7. \A a \in Artifact : HoldingCalls(a)' = HoldingCalls(a)
  BY <1>3, HeldAfterBegin DEF EntryInv, Artifact, NoArt
<1> QED BY <1>4, <1>6, <1>7, Zenon DEF PinInv

LEMMA DetachKeepsPins ==
  ASSUME Counting, EntryInv, PinInv, CodeIsBounded', Detach
  PROVE  PinInv'
<1>1. /\ UNCHANGED frames /\ cached'.art = NoArt
      /\ pins' = IF cached.art # NoArt THEN [pins EXCEPT ![cached.art] = @ - 1] ELSE pins
  BY Zenon DEF Detach, NoHandle
<1>2. /\ pins' \in [Artifact -> Int]
      /\ \A a \in Artifact : pins'[a] = pins[a] - (IF cached.art = a THEN 1 ELSE 0)
  <2>1. CASE cached.art # NoArt
    BY <1>1, <2>1, ReleaseIsOne, Zenon DEF PinInv
  <2>2. CASE cached.art = NoArt
    BY <1>1, <2>2 DEF PinInv, Artifact, NoArt
  <2> QED BY <2>1, <2>2, Zenon
<1>3. \A a \in Artifact : HoldingCalls(a)' = HoldingCalls(a) /\ HoldingCalls(a) \in Nat /\ a # NoArt
  <2>1. \A a : HoldingCalls(a)' = HoldingCalls(a)
    BY <1>1 DEF HoldingCalls, HeldBy
  <2>2. \A a : HoldingCalls(a) \in Nat
    BY HeldByFinite, Zenon DEF EntryInv
  <2> QED BY <2>1, <2>2 DEF Artifact, NoArt
<1>4. \A a \in Artifact : pins'[a] = HoldingCalls(a)' + (IF cached'.art = a THEN 1 ELSE 0)
  BY <1>1, <1>2, <1>3 DEF PinInv
<1>5. cached'.art \in 0 .. MaxArt
  BY <1>1, EntryAssumption DEF NoArt
<1> QED BY <1>1, <1>2, <1>4, <1>5, Zenon DEF PinInv

LEMMA NextKeepsPins ==
  ASSUME Counting, EntryInv, PinInv, [Next]_vars
  PROVE  PinInv'
<1>1. CodeIsBounded'
  BY StepIsBounded, Zenon DEF PinInv
<1>2. CASE CallStep
  BY <1>1, <1>2, HotKeepsPins, TakingKeepsPins, PrepareKeepsPins, AcquireKeepsPins, ReturnKeepsPins, Zenon
     DEF CallStep
<1>3. CASE Observe \/ WorkerCompletes \/ Poll \/ Suspend \/ UNCHANGED vars \/ \E f \in Function : Retire(f)
  BY <1>1, <1>3, RestKeepsPins, Zenon DEF Observe, WorkerCompletes, Poll, Suspend, vars, Retire
<1> QED BY <1>1, <1>2, <1>3, ExitKeepsPins, BeginKeepsPins, DetachKeepsPins, Zenon DEF Next

------------------------------------------------------------------------------
LEMMA TimedFinite ==
  ASSUME Counting, CallsTypeOK
  PROVE  IsFiniteSet(Timed) /\ Timed \subseteq 1 .. Len(frames)
<1>1. Len(frames) \in Int
  BY DEF CallsTypeOK
<1>2. IsFiniteSet(1 .. Len(frames))
  BY <1>1, Zenon DEF Counting
<1> QED BY <1>2, Zenon DEF Counting, Timed

(* The place of a timed call among the timed calls. *)
LEMMA RankBounds ==
  ASSUME Counting, NEW P \in SUBSET Int, IsFiniteSet(P), NEW i \in P
  PROVE  /\ Cardinality({j \in P : j <= i}) \in 1 .. Cardinality(P)
         /\ Cardinality(P) \in Nat
<1> DEFINE U == {j \in P : j <= i}
<1>1. U \in SUBSET P /\ i \in U
  OBVIOUS
<1> HIDE DEF U
<1>2. IsFiniteSet(U) /\ Cardinality(U) <= Cardinality(P)
  BY <1>1, Zenon DEF Counting
<1>3. Cardinality(U) \in Nat /\ Cardinality(P) \in Nat
  BY <1>2, Zenon DEF Counting
<1>4. Cardinality(U) # 0
  BY <1>1, <1>2, Zenon DEF Counting
<1>5. Cardinality(U) \in 1 .. Cardinality(P)
  BY <1>2, <1>3, <1>4
<1> QED BY <1>3, <1>5 DEF U

(* A timer is added for a call inside all timed ones. *)
LEMMA TimerPushed ==
  ASSUME Counting, NEW P \in SUBSET Int, IsFiniteSet(P), NEW n \in Int, \A i \in P : i < n,
         NEW times \in Seq(Timer), NEW calls, NEW after, IsTimedBy(times, calls, P),
         \A i \in P : after[i] = calls[i], TimerOf(after[n]) \in Timer
  PROVE  IsTimedBy(Append(times, TimerOf(after[n])), after, P \cup {n})
<1> n \notin P
  OBVIOUS
<1>1. Cardinality(P \cup {n}) = Cardinality(P) + 1 /\ Cardinality(P) \in Nat
  BY Zenon DEF Counting
<1>2. /\ Len(Append(times, TimerOf(after[n]))) = Len(times) + 1 /\ Len(times) = Cardinality(P)
      /\ \A k \in 1 .. Len(times) : Append(times, TimerOf(after[n]))[k] = times[k]
      /\ Append(times, TimerOf(after[n]))[Len(times) + 1] = TimerOf(after[n])
  BY DEF IsTimedBy
<1>3. ASSUME NEW i \in P
      PROVE  Append(times, TimerOf(after[n]))[Cardinality({j \in P \cup {n} : j <= i})]
               = TimerOf(after[i])
  <2>1. {j \in P \cup {n} : j <= i} = {j \in P : j <= i}
    OBVIOUS
  <2>2. Cardinality({j \in P : j <= i}) \in 1 .. Cardinality(P)
    BY RankBounds, Zenon
  <2>3. times[Cardinality({j \in P : j <= i})] = TimerOf(calls[i])
    BY Zenon DEF IsTimedBy
  <2> QED BY <1>2, <2>1, <2>2, <2>3, Zenon
<1>4. {j \in P \cup {n} : j <= n} = P \cup {n}
  <2>1. \A j \in P \cup {n} : j <= n
    OBVIOUS
  <2> QED BY <2>1, Zenon
<1>5. Append(times, TimerOf(after[n]))[Cardinality({j \in P \cup {n} : j <= n})] = TimerOf(after[n])
  BY <1>1, <1>2, <1>4, Zenon
<1> QED BY <1>1, <1>2, <1>3, <1>5, Zenon DEF IsTimedBy

LEMMA TimerPopped ==
  ASSUME Counting, NEW P \in SUBSET Int, IsFiniteSet(P), NEW n \in P, \A i \in P : i <= n,
         NEW times \in Seq(Timer), NEW calls, NEW after, IsTimedBy(times, calls, P),
         \A i \in P \ {n} : after[i] = calls[i]
  PROVE  EndsWith(times, TimerOf(calls[n]), after, P \ {n})
<1>1. /\ Cardinality(P \ {n}) = Cardinality(P) - 1 /\ Cardinality(P) \in Nat /\ IsFiniteSet(P \ {n})
  BY Zenon DEF Counting
<1>2. {j \in P : j <= n} = P
  BY Zenon
<1>3. Cardinality(P) \in 1 .. Cardinality(P)
  BY <1>2, RankBounds, Zenon
<1>4. Len(times) = Cardinality(P) /\ times[Cardinality(P)] = TimerOf(calls[n])
  BY <1>2, Zenon DEF IsTimedBy
<1> DEFINE m == Len(times) - 1
           rest == SubSeq(times, 1, m)
<1>5. m \in 0 .. Len(times) /\ m = Cardinality(P \ {n})
  BY <1>1, <1>3, <1>4
<1> HIDE DEF m
<1>6. rest \in Seq(Timer) /\ Len(rest) = m /\ \A k \in 1 .. m : rest[k] = times[k]
  BY <1>5, FirstPart, Zenon
<1> HIDE DEF rest
<1>7. ASSUME NEW i \in P \ {n}
      PROVE  rest[Cardinality({j \in P \ {n} : j <= i})] = TimerOf(after[i])
  <2>1. {j \in P \ {n} : j <= i} = {j \in P : j <= i}
    OBVIOUS
  <2>2. Cardinality({j \in P \ {n} : j <= i}) \in 1 .. m
    BY <1>1, <1>5, RankBounds, Zenon
  <2>3. times[Cardinality({j \in P : j <= i})] = TimerOf(calls[i])
    BY Zenon DEF IsTimedBy
  <2> QED BY <1>6, <2>1, <2>2, <2>3, Zenon
<1>8. IsTimedBy(rest, after, P \ {n})
  BY <1>5, <1>6, <1>7, Zenon DEF IsTimedBy
<1>9. rest = SubSeq(times, 1, Len(times) - 1)
  BY Zenon DEF rest, m
<1>10. times # <<>>
  BY <1>3, <1>4
<1> QED BY <1>4, <1>6, <1>8, <1>9, <1>10, Zenon DEF EndsWith

LEMMA TimedAfterChange ==
  ASSUME CallsTypeOK, frames # <<>>, NEW c \in Call, frames' = WithTop(c)
  PROVE  /\ Len(frames) \in Nat \ {0} /\ Len(frames') = Len(frames)
         /\ frames' # <<>> /\ Top' = c
         /\ \A i \in 1 .. Len(frames) - 1 : frames'[i] = frames[i]
         /\ Len(frames) \in Timed <=> Announced(Top)
         /\ Timed' = IF Announced(c) THEN Timed \cup {Len(frames)} ELSE Timed \ {Len(frames)}
<1>1. /\ Len(frames') = Len(frames) /\ Len(frames) \in Nat \ {0}
      /\ \A i \in 1 .. Len(frames) : frames'[i] = IF i = Len(frames) THEN c ELSE frames[i]
  BY WithTopProperties, TopIsCall DEF CallsTypeOK
<1>2. Top' = c /\ frames' # <<>> /\ \A i \in 1 .. Len(frames) - 1 : frames'[i] = frames[i]
  BY <1>1 DEF Top
<1>3. Len(frames) \in Timed <=> Announced(Top)
  BY <1>1 DEF Timed, Announced, Top
<1>4. ASSUME NEW i
      PROVE  i \in Timed' <=> IF Announced(c) THEN i \in Timed \cup {Len(frames)}
                                              ELSE i \in Timed \ {Len(frames)}
  <2>1. CASE i = Len(frames)
    BY <1>1, <2>1 DEF Timed, Announced
  <2>2. CASE i # Len(frames)
    BY <1>1, <2>2, Zenon DEF Timed
  <2> QED BY <2>1, <2>2
<1>5. Timed' = IF Announced(c) THEN Timed \cup {Len(frames)} ELSE Timed \ {Len(frames)}
  BY <1>4
<1> QED BY <1>1, <1>2, <1>3, <1>5, Zenon

LEMMA OrderAfterChange ==
  ASSUME EntryInv, TimerInv, frames # <<>>, NEW c \in Call, frames' = WithTop(c),
         c.at \in {"hot", "entry", "acquire"} => c.gen = gen'[c.fn],
         c.at = "acquire" => ~c.fast
  PROVE  CallsInOrder'
BY TimedAfterChange, Zenon DEF EntryInv, TimerInv, CallsInOrder

(* A call changes without being announced, before or after. *)
LEMMA SilentKeepsTimers ==
  ASSUME Counting, EntryInv, TimerInv, frames # <<>>, NEW c \in Call, frames' = WithTop(c), CallsInOrder',
         UNCHANGED starts, ~Announced(Top), ~Announced(c)
  PROVE  TimerInv'
<1>1. /\ Len(frames) \in Nat \ {0} /\ \A i \in 1 .. Len(frames) - 1 : frames'[i] = frames[i]
      /\ Len(frames) \notin Timed /\ Timed' = Timed \ {Len(frames)}
  BY TimedAfterChange, Zenon DEF EntryInv
<1>2. Timed' = Timed /\ Timed \subseteq 1 .. Len(frames)
  BY <1>1, TimedFinite, Zenon DEF EntryInv
<1>3. \A i \in Timed : frames'[i] = frames[i]
  BY <1>1, <1>2
<1>4. IsTimedBy(starts, frames, Timed)'
  BY <1>2, <1>3, Zenon DEF TimerInv, IsTimedBy
<1> QED BY <1>4, Zenon DEF TimerInv, CallsInOrder

LEMMA AnnouncedKeepsTimers ==
  ASSUME Counting, EntryInv, TimerInv, frames # <<>>, NEW c \in Call, frames' = WithTop(c), CallsInOrder',
         ~Announced(Top), Announced(c), starts' = Append(starts, TimerOf(c))
  PROVE  TimerInv'
<1> DEFINE n == Len(frames)
<1>1. /\ n \in Nat \ {0} /\ Len(frames') = n /\ Top' = c
      /\ \A i \in 1 .. n - 1 : frames'[i] = frames[i]
      /\ n \notin Timed /\ Timed' = Timed \cup {n}
  BY TimedAfterChange, Zenon DEF EntryInv
<1>2. IsFiniteSet(Timed) /\ Timed \subseteq 1 .. n
  BY TimedFinite, Zenon DEF EntryInv
<1>3. frames'[n] = c
  BY <1>1, Zenon DEF Top
<1> HIDE DEF n
<1>4. Timed \in SUBSET Int /\ n \in Int /\ \A i \in Timed : i < n /\ frames'[i] = frames[i]
  BY <1>1, <1>2
<1>5. TimerOf(c) \in Timer
  BY Zenon DEF TimerOf, Timer, Call
<1>6. starts \in Seq(Timer) /\ IsTimedBy(starts, frames, Timed)
  BY Zenon DEF TimerInv
<1>7. IsTimedBy(Append(starts, TimerOf(frames'[n])), frames', Timed \cup {n})
  BY <1>2, <1>3, <1>4, <1>5, <1>6, TimerPushed, Zenon
<1>8. IsTimedBy(starts, frames, Timed)'
  BY <1>1, <1>3, <1>7, Zenon
<1>9. starts' \in Seq(Timer)
  BY <1>5, <1>6
<1> QED BY <1>8, <1>9, Zenon DEF TimerInv, CallsInOrder

LEMMA ExitedKeepsTimers ==
  ASSUME Counting, EntryInv, TimerInv, frames # <<>>, NEW c \in Call, frames' = WithTop(c), CallsInOrder',
         Announced(Top), ~Announced(c), starts' = TimersAfterExit
  PROVE  TimerInv'
<1> DEFINE n == Len(frames)
<1>1. /\ n \in Nat \ {0} /\ \A i \in 1 .. n - 1 : frames'[i] = frames[i]
      /\ n \in Timed /\ Timed' = Timed \ {n}
  BY TimedAfterChange, Zenon DEF EntryInv
<1>2. IsFiniteSet(Timed) /\ Timed \subseteq 1 .. n
  BY TimedFinite, Zenon DEF EntryInv
<1>3. frames[n] = Top
  BY DEF Top
<1> HIDE DEF n
<1>4. /\ Timed \in SUBSET Int /\ \A i \in Timed : i <= n
      /\ \A i \in Timed \ {n} : frames'[i] = frames[i]
  BY <1>1, <1>2
<1>5. starts \in Seq(Timer) /\ IsTimedBy(starts, frames, Timed)
  BY Zenon DEF TimerInv
<1>6. EndsWith(starts, TimerOf(frames[n]), frames', Timed \ {n})
  BY <1>1, <1>2, <1>4, <1>5, TimerPopped, Zenon
<1>7. starts' = SubSeq(starts, 1, Len(starts) - 1)
  BY <1>3, <1>6 DEF EndsWith, TimersAfterExit, TimerOf, Announced
<1>8. IsTimedBy(starts, frames, Timed)' /\ starts' \in Seq(Timer)
  BY <1>1, <1>6, <1>7, Zenon DEF EndsWith
<1> QED BY <1>8, Zenon DEF TimerInv, CallsInOrder

(* A call that is not in native code ends. *)
LEMMA EndKeepsTimers ==
  ASSUME EntryInv, TimerInv, frames # <<>>, Top.at # "run", frames' = Below, UNCHANGED <<starts, gen>>
  PROVE  TimerInv'
<1>1. /\ Len(frames) \in Nat \ {0} /\ Len(frames') = Len(frames) - 1
      /\ \A i \in 1 .. Len(frames) - 1 : frames'[i] = frames[i]
  BY BelowProperties, TopIsCall DEF EntryInv, CallsTypeOK
<1>2. Timed' = Timed /\ \A i \in Timed : frames'[i] = frames[i]
  BY <1>1 DEF Timed, Top
<1>3. IsTimedBy(starts, frames, Timed)'
  BY <1>2, Zenon DEF TimerInv, IsTimedBy
<1>4. frames' # <<>> => Top'.at = "run"
  <2> SUFFICES ASSUME frames' # <<>> PROVE Top'.at = "run"
    OBVIOUS
  <2>1. frames' \in Seq(Call)
    BY BelowProperties, Zenon DEF EntryInv
  <2>2. Len(frames') \in 1 .. Len(frames) - 1
    BY <1>1, <2>1
  <2> QED BY <1>1, <2>2, Zenon DEF Top, TimerInv
<1>5. \A i \in 1 .. Len(frames') - 1 : frames'[i].at = "run"
  BY <1>1 DEF TimerInv
<1> QED BY <1>3, <1>4, <1>5, Zenon DEF TimerInv

LEMMA BeginKeepsTimers ==
  ASSUME EntryInv, TimerInv, NEW f \in Function, NEW osr \in BOOLEAN, Begin(f, osr)
  PROVE  TimerInv'
<1>1. PICK fast \in BOOLEAN :
        frames' = Append(frames, [fn |-> f, gen |-> gen[f], art |-> NoArt, tier |-> "base", epoch |-> 0,
                                  left |-> 0, flag |-> FALSE, fast |-> fast, osr |-> osr, kind |-> "none",
                                  at |-> IF fast THEN "entry" ELSE "hot"])
  BY Zenon DEF Begin, FastReady
<1>2. frames \in Seq(Call) /\ Len(frames) \in Nat
  BY DEF EntryInv, CallsTypeOK
<1>3. PICK c : c.fn = f /\ c.gen = gen[f] /\ c.at \in {"entry", "hot"} /\ frames' = Append(frames, c)
  BY <1>1, Zenon
<1>4. UNCHANGED <<starts, gen>> /\ (frames = <<>> \/ Top.at = "run")
  BY Zenon DEF Begin, Runs, TopAt, engineVars
<1>5. /\ Len(frames') = Len(frames) + 1
      /\ \A i \in 1 .. Len(frames) : frames'[i] = frames[i]
      /\ frames'[Len(frames) + 1] = c
  BY <1>2, <1>3
<1>6. Timed' = Timed /\ \A i \in Timed : frames'[i] = frames[i]
  BY <1>2, <1>3, <1>5 DEF Timed
<1>7. IsTimedBy(starts, frames, Timed)'
  BY <1>4, <1>6, Zenon DEF TimerInv, IsTimedBy
<1>8. ASSUME NEW i \in 1 .. Len(frames') - 1 PROVE frames'[i].at = "run"
  <2>1. i \in 1 .. Len(frames) /\ frames # <<>>
    BY <1>2, <1>5
  <2> QED BY <1>2, <1>4, <1>5, <2>1 DEF TimerInv, Top
<1>9. Top' = c
  BY <1>5, Zenon DEF Top
<1> QED BY <1>3, <1>4, <1>7, <1>8, <1>9, Zenon DEF TimerInv

LEMMA HotKeepsTimers ==
  ASSUME Counting, EntryInv, TimerInv, HotDisables \/ HotProbes \/ SnapshotRejected \/ HotRefreshes
  PROVE  TimerInv'
<1>1. /\ frames # <<>> /\ Top.at = "hot" /\ UNCHANGED <<starts, gen>>
      /\ frames' = WithTop([Top EXCEPT !.at = "entry"])
  BY Zenon DEF HotDisables, HotProbes, SnapshotRejected, HotRefreshes, TopAt, engineVars
<1>2. PICK c \in Call : c.fn = Top.fn /\ c.gen = Top.gen /\ c.at = "entry" /\ frames' = WithTop(c)
  <2>1. Top \in Call
    BY <1>1, TopIsCall DEF EntryInv
  <2> QED BY <1>1, <2>1 DEF Call
<1>3. CallsInOrder'
  BY <1>1, <1>2, OrderAfterChange, Zenon DEF TimerInv
<1> QED BY <1>1, <1>2, <1>3, SilentKeepsTimers, Zenon DEF Announced

LEMMA PrepareKeepsTimers ==
  ASSUME Counting, EntryInv, TimerInv, PrepareAcquire
  PROVE  TimerInv'
<1>1. /\ frames # <<>> /\ Top.at = "entry" /\ UNCHANGED <<starts, gen>>
      /\ frames' = WithTop([Top EXCEPT !.fast = FALSE, !.at = "acquire"])
  BY DEF PrepareAcquire, TopAt, engineVars
<1>2. PICK c \in Call : /\ c.fn = Top.fn /\ c.gen = Top.gen /\ c.at = "acquire" /\ c.fast = FALSE
                        /\ frames' = WithTop(c)
  <2>1. Top \in Call
    BY <1>1, TopIsCall DEF EntryInv
  <2> QED BY <1>1, <2>1, Zenon DEF Call
<1>3. CallsInOrder'
  BY <1>1, <1>2, OrderAfterChange, Zenon DEF TimerInv
<1> QED BY <1>1, <1>2, <1>3, SilentKeepsTimers DEF Announced

LEMMA TakeFastKeepsTimers ==
  ASSUME Counting, EntryInv, TimerInv, TakeFast
  PROVE  TimerInv'
<1>1. /\ frames # <<>> /\ Top.at = "entry" /\ Top.fast /\ UNCHANGED <<starts, gen>>
      /\ cached.tier \in Tier /\ cached.art \in Nat /\ cached.epoch \in Nat /\ cached.left - 1 \in Nat
      /\ cached.flag \in BOOLEAN
  BY DEF TakeFast, TopAt, FastReady, engineVars, EntryInv, CallsTypeOK
<1>2. PICK c \in Call : c.at = "run" /\ c.fast = Top.fast /\ frames' = WithTop(c)
  <2>1. Top \in Call
    BY <1>1, TopIsCall, Zenon DEF EntryInv
  <2> QED BY <1>1, <2>1, Zenon DEF TakeFast, Call
<1>3. CallsInOrder'
  BY <1>1, <1>2, OrderAfterChange, Zenon
<1>4. ~Announced(Top) /\ ~Announced(c)
  BY <1>1, <1>2, Zenon DEF Announced
<1> QED BY <1>1, <1>2, <1>3, <1>4, SilentKeepsTimers, Zenon

(* The tier the backend last handed out is the tier of the cached handle. *)
LEMMA TakeCachedKeepsTimers ==
  ASSUME Counting, EntryInv, TimerInv, TakeCached
  PROVE  TimerInv'
<1>1. /\ frames # <<>> /\ Top.at = "entry" /\ UNCHANGED gen
      /\ cached.tier \in Tier /\ cached.art \in Nat /\ cached.epoch \in Nat
      /\ cached.art # NoArt /\ cached.fn = Top.fn /\ cached.gen = gen[Top.fn]
      /\ cached.epoch = epoch /\ epoch # 0
  BY Zenon DEF TakeCached, TopAt, TakesCached, CacheEpoch, SameKey, engineVars, EntryInv, CallsTypeOK
<1>2. PICK c \in Call : /\ c.fn = Top.fn /\ c.gen = Top.gen /\ c.tier = cached.tier
                        /\ c.at = "run" /\ c.fast = FALSE /\ frames' = WithTop(c)
  <2>1. Top \in Call
    BY <1>1, TopIsCall, Zenon DEF EntryInv
  <2> QED BY <1>1, <2>1, Zenon DEF TakeCached, Call
<1>3. CallsInOrder'
  BY <1>1, <1>2, OrderAfterChange, Zenon
<1>4. ~Announced(Top) /\ Announced(c)
  BY <1>1, <1>2, Zenon DEF Announced
<1>5. cached.tier = tiers[Top.fn] /\ cached.tier # "none"
  BY <1>1, Zenon DEF EntryInv, HandleOK, Admissible, Tier
<1>6. Top.gen = gen[Top.fn]
  BY <1>1, Zenon DEF TimerInv
<1>7. starts' = Append(starts, TimerOf(c))
  BY <1>2, <1>5, <1>6, Zenon DEF TakeCached, NativeEnter, TimerOf
<1> QED BY <1>1, <1>2, <1>3, <1>4, <1>7, AnnouncedKeepsTimers, Zenon

LEMMA AcquireKeepsTimers ==
  ASSUME Counting, EntryInv, TimerInv, NEW f \in Function, Acquire(f)
  PROVE  TimerInv'
<1>1. /\ frames # <<>> /\ Top.at = "acquire" /\ Top.fn = f /\ UNCHANGED gen
      /\ starts' = Append(starts, [fn |-> f, gen |-> gen[f], tier |-> AdmittedTier(f)'])
  BY Zenon DEF Acquire, TopAt, engineVars
<1>2. CallsTypeOK'
  BY AcquireKeepsInv, Zenon DEF EntryInv
<1>3. epoch' \in Nat /\ AdmittedTier(f)' \in Tier
  BY <1>2 DEF CallsTypeOK, AdmittedTier, Tier
<1>4. code'[f][AdmittedTier(f)'] \in Nat
  BY <1>2, <1>3, Zenon DEF CallsTypeOK
<1>5. Admitted(f)' \in Nat
  BY <1>4, Zenon DEF Admitted, NoArt
<1>6. PICK c \in Call : /\ c.fn = Top.fn /\ c.gen = Top.gen /\ c.tier = AdmittedTier(f)'
                        /\ c.at = "run" /\ c.fast = Top.fast /\ frames' = WithTop(c)
  <2>1. Top \in Call
    BY <1>1, TopIsCall, Zenon DEF EntryInv
  <2> QED BY <1>3, <1>5, <2>1, Zenon DEF Acquire, Call
<1>7. CallsInOrder'
  BY <1>1, <1>6, OrderAfterChange, Zenon
<1>8. ~Announced(Top) /\ Announced(c) /\ Top.gen = gen[f]
  BY <1>1, <1>6, Zenon DEF Announced, TimerInv
<1>9. starts' = Append(starts, TimerOf(c))
  BY <1>1, <1>6, <1>8, Zenon DEF TimerOf
<1> QED BY <1>1, <1>6, <1>7, <1>8, <1>9, AnnouncedKeepsTimers, Zenon

LEMMA ExitKeepsTimers ==
  ASSUME Counting, EntryInv, TimerInv, ExitStep
  PROVE  TimerInv'
<1>1. PICK kind \in {"done", "deopt", "other"} :
        /\ frames # <<>> /\ Top.at = "run" /\ UNCHANGED gen
        /\ frames' = WithTop([Top EXCEPT !.kind = kind, !.at = "store"])
  BY Zenon DEF ExitStep, ExitFast, NativeExit, TopAt, engineVars
<1>2. PICK c \in Call : c.at = "store" /\ frames' = WithTop(c)
  <2>1. Top \in Call
    BY <1>1, TopIsCall DEF EntryInv
  <2> QED BY <1>1, <2>1, Zenon DEF Call
<1>3. CallsInOrder'
  BY <1>1, <1>2, OrderAfterChange
<1>4. starts' = TimersAfterExit \/ (Top.fast /\ UNCHANGED starts)
  BY Zenon DEF ExitStep, ExitFast, NativeExit
<1>5. CASE Top.fast
  <2>1. UNCHANGED starts
    BY <1>4, <1>5 DEF TimersAfterExit
  <2> QED BY <1>1, <1>2, <1>3, <1>5, <2>1, SilentKeepsTimers DEF Announced
<1>6. CASE ~Top.fast
  BY <1>1, <1>2, <1>3, <1>4, <1>6, ExitedKeepsTimers DEF Announced
<1> QED BY <1>5, <1>6

LEMMA NextKeepsTimers ==
  ASSUME Counting, EntryInv, TimerInv, [Next]_vars
  PROVE  TimerInv'
<1>1. ASSUME UNCHANGED <<frames, starts>>, gen' = gen \/ frames = <<>> \/ Top.at = "run"
      PROVE  TimerInv'
  BY <1>1, Zenon DEF TimerInv, IsTimedBy, Timed, Top
<1>2. CASE Interpret \/ Store \/ Discard \/ \E f \in Function : AcquireNothing(f)
  <2>1. frames # <<>> /\ Top.at # "run" /\ frames' = Below /\ UNCHANGED <<starts, gen>>
    BY <1>2, Zenon DEF Interpret, Store, Discard, AcquireNothing, TopAt, engineVars
  <2> QED BY <2>1, EndKeepsTimers
<1>3. CASE Observe \/ WorkerCompletes \/ Poll \/ Suspend \/ Detach \/ UNCHANGED vars
  BY <1>1, <1>3, Zenon DEF Observe, WorkerCompletes, Poll, Suspend, Detach, vars, engineVars
<1>4. CASE \E f \in Function : Retire(f)
  BY <1>1, <1>4, Zenon DEF Retire, Runs, TopAt
<1>5. CASE CallStep
  BY <1>2, <1>5, HotKeepsTimers, TakeFastKeepsTimers, TakeCachedKeepsTimers, PrepareKeepsTimers,
     AcquireKeepsTimers, Zenon DEF CallStep
<1> QED BY <1>3, <1>4, <1>5, BeginKeepsTimers, ExitKeepsTimers DEF Next

------------------------------------------------------------------------------
LEMMA TotalGrows ==
  ASSUME NEW calls, NEW base, NEW m \in Nat, NEW g, IsTotal(g, calls, base, m)
  PROVE  \E h : IsTotal(h, calls, base, m + 1)
<1> DEFINE h == [n \in 0 .. m + 1 |-> IF n = m + 1 THEN g[m] + calls[m + 1].left ELSE g[n]]
           body(n) == IF n = 0 THEN base ELSE h[n - 1] + calls[n].left
<1>1. \A n \in 0 .. m : g[n] = IF n = 0 THEN base ELSE g[n - 1] + calls[n].left
  BY Zenon DEF IsTotal
<1>2. h[m + 1] = g[m] + calls[m + 1].left /\ \A n \in 0 .. m : h[n] = g[n]
  OBVIOUS
<1>3. h = [n \in 0 .. m + 1 |-> h[n]]
  OBVIOUS
<1> HIDE DEF h
<1>4. ASSUME NEW n \in 0 .. m + 1 PROVE h[n] = body(n)
  <2>1. CASE n = m + 1
    <3>1. n # 0 /\ n - 1 = m /\ m \in 0 .. m
      BY <2>1
    <3> QED BY <1>2, <2>1, <3>1, Zenon
  <2>2. CASE n # m + 1 /\ n = 0
    BY <1>1, <1>2, <2>2
  <2>3. CASE n # m + 1 /\ n # 0
    <3>1. n \in 0 .. m /\ n - 1 \in 0 .. m
      BY <2>3
    <3> QED BY <1>1, <1>2, <2>3, <3>1, Zenon
  <2> QED BY <2>1, <2>2, <2>3, Zenon
<1>5. h = [n \in 0 .. m + 1 |-> body(n)]
  <2> HIDE DEF body
  <2> QED BY <1>3, <1>4
<1>6. IsTotal(h, calls, base, m + 1)
  BY <1>5, Zenon DEF IsTotal
<1> QED BY <1>6

LEMMA TotalExists ==
  ASSUME Counting, NEW calls, NEW base, NEW m \in Nat
  PROVE  \E g : IsTotal(g, calls, base, m)
<1> DEFINE N == {n \in Nat : \E g : IsTotal(g, calls, base, n)}
<1>1. 0 \in N
  <2>1. IsTotal([n \in 0 .. 0 |-> base], calls, base, 0)
    BY DEF IsTotal
  <2> QED BY <2>1
<1>2. \A n \in Nat : n \in N => n + 1 \in N
  BY TotalGrows
<1> HIDE DEF N
<1>3. Nat \subseteq N
  BY <1>1, <1>2, Zenon DEF Counting
<1> QED BY <1>3 DEF N

LEMMA TotalIsLast ==
  ASSUME Counting, NEW calls, NEW base, Len(calls) \in Nat
  PROVE  \E g : IsTotal(g, calls, base, Len(calls)) /\ Total(calls, base) = g[Len(calls)]
<1> DEFINE sum == CHOOSE g : IsTotal(g, calls, base, Len(calls))
<1>1. IsTotal(sum, calls, base, Len(calls))
  BY TotalExists
<1>2. Total(calls, base) = sum[Len(calls)]
  BY DEF Total, IsTotal
<1> QED BY <1>1, <1>2, Zenon

LEMMA TotalSteps ==
  ASSUME NEW g, NEW calls, NEW base, NEW m \in Nat, IsTotal(g, calls, base, m)
  PROVE  StepsUp(g, calls, base, m)
<1>1. \A n \in 0 .. m : g[n] = IF n = 0 THEN base ELSE g[n - 1] + calls[n].left
  BY Zenon DEF IsTotal
<1> QED BY <1>1 DEF StepsUp

(* Over the calls two stacks have in common the totals grow alike. *)
LEMMA TotalsAgree ==
  ASSUME Counting, NEW g, NEW h, NEW calls, NEW others, NEW b \in Nat, NEW c \in Nat,
         NEW m \in Nat, NEW n \in Nat, IsTotal(g, calls, b, m), IsTotal(h, others, c, n),
         NEW k \in Nat, k <= m, k <= n, Shares(calls, others, k)
  PROVE  GrowAlike(g, h, b, c, k)
<1> DEFINE N == {i \in Nat : i <= k => g[i] \in Int /\ h[i] \in Int /\ h[i] - c = g[i] - b}
<1>1. /\ g[0] = b /\ \A i \in 1 .. m : g[i] = g[i - 1] + calls[i].left
      /\ h[0] = c /\ \A i \in 1 .. n : h[i] = h[i - 1] + others[i].left
  BY TotalSteps DEF StepsUp
<1>2. 0 \in N
  BY <1>1
<1>3. ASSUME NEW i \in Nat, i \in N PROVE i + 1 \in N
  <2> SUFFICES ASSUME i + 1 <= k
               PROVE  g[i + 1] \in Int /\ h[i + 1] \in Int /\ h[i + 1] - c = g[i + 1] - b
    OBVIOUS
  <2>1. i + 1 \in 1 .. k /\ i + 1 \in 1 .. m /\ i + 1 \in 1 .. n /\ (i + 1) - 1 = i
    OBVIOUS
  <2>2. g[i] \in Int /\ h[i] \in Int /\ h[i] - c = g[i] - b
    BY <1>3
  <2>3. g[i + 1] = g[i] + calls[i + 1].left /\ h[i + 1] = h[i] + calls[i + 1].left
        /\ calls[i + 1].left \in Nat
    BY <1>1, <2>1, Zenon DEF Shares
  <2> QED BY <2>2, <2>3
<1> HIDE DEF N
<1>4. Nat \subseteq N
  BY <1>2, <1>3, Zenon DEF Counting
<1> QED BY <1>4 DEF N, GrowAlike

LEMMA CallLeft == \A c \in Call : c.left \in Nat
BY DEF Call

LEMMA SumsDiffer ==
  ASSUME NEW g, NEW h, NEW k, NEW p \in Nat, NEW q \in Nat, NEW b \in Nat, NEW c \in Nat,
         GrowAlike(g, h, b, c, k), NEW u, NEW v, u = g[k] + p, v = h[k] + q
  PROVE  Differ(u, v, p, q, b, c)
BY DEF Differ, GrowAlike

(* What a change of the last call does to the sum. *)
LEMMA TotalAfterChange ==
  ASSUME Counting, NEW calls \in Seq(Call), NEW others \in Seq(Call), Len(others) = Len(calls), calls # <<>>,
         \A i \in 1 .. Len(calls) - 1 : others[i] = calls[i],
         NEW b \in Nat, NEW c \in Nat
  PROVE  /\ Total(calls, b) \in Int /\ Total(others, c) \in Int
         /\ Total(others, c) - c
              = Total(calls, b) - b - calls[Len(calls)].left + others[Len(calls)].left
<1> DEFINE n == Len(calls)
<1>1. n \in Nat \ {0} /\ \A i \in 1 .. n : calls[i] \in Call /\ others[i] \in Call
  OBVIOUS
<1>2. PICK g : IsTotal(g, calls, b, n) /\ Total(calls, b) = g[n]
  BY <1>1, TotalIsLast, Zenon
<1>3. PICK h : IsTotal(h, others, c, n) /\ Total(others, c) = h[n]
  BY <1>1, TotalIsLast, Zenon
<1> HIDE DEF n
<1>4. /\ n \in 1 .. n /\ n \in Nat /\ n - 1 \in Nat /\ n - 1 <= n
  BY <1>1
<1>5. \A i \in 1 .. n : calls[i].left \in Nat /\ others[i].left \in Nat
  BY <1>1, CallLeft, Zenon
<1>6. StepsUp(g, calls, b, n) /\ StepsUp(h, others, c, n)
  BY <1>2, <1>3, <1>4, TotalSteps, Zenon
<1>7. g[n] = g[n - 1] + calls[n].left /\ h[n] = h[n - 1] + others[n].left
  BY <1>4, <1>6, Zenon DEF StepsUp
<1>8. Shares(calls, others, n - 1)
  BY <1>4, <1>5 DEF n, Shares
<1>9. GrowAlike(g, h, b, c, n - 1)
  BY <1>2, <1>3, <1>4, <1>8, TotalsAgree, Zenon
<1>10. calls[n].left \in Nat /\ others[n].left \in Nat
  BY <1>4, <1>5, Zenon
<1>11. Differ(g[n], h[n], calls[n].left, others[n].left, b, c)
  BY <1>7, <1>9, <1>10, SumsDiffer, Zenon
<1>12. g[n] \in Int /\ h[n] \in Int /\ h[n] - c = g[n] - b - calls[n].left + others[n].left
  BY <1>11, Zenon DEF Differ
<1> QED BY <1>2, <1>3, <1>12, Zenon DEF n

(* What the end of the last call does to the sum. *)
LEMMA TotalAfterEnd ==
  ASSUME Counting, NEW calls \in Seq(Call), NEW others \in Seq(Call), Len(calls) = Len(others) + 1,
         \A i \in 1 .. Len(others) : others[i] = calls[i],
         NEW b \in Nat, NEW c \in Nat
  PROVE  /\ Total(calls, b) \in Int /\ Total(others, c) \in Int
         /\ Total(others, c) - c = Total(calls, b) - b - calls[Len(calls)].left
<1> DEFINE n == Len(others)
<1>1. n \in Nat /\ Len(calls) = n + 1 /\ \A i \in 1 .. n + 1 : calls[i] \in Call
  OBVIOUS
<1>2. PICK g : IsTotal(g, calls, b, n + 1) /\ Total(calls, b) = g[n + 1]
  BY <1>1, TotalIsLast
<1>3. PICK h : IsTotal(h, others, c, n) /\ Total(others, c) = h[n]
  BY <1>1, TotalIsLast, Zenon
<1>4. \A i \in 1 .. n : others[i] = calls[i]
  OBVIOUS
<1> HIDE DEF n
<1>5. n + 1 \in 1 .. n + 1 /\ n + 1 \in Nat /\ (n + 1) - 1 = n /\ n <= n + 1 /\ n <= n
  BY <1>1
<1>6. \A i \in 1 .. n + 1 : calls[i].left \in Nat
  BY <1>1, CallLeft, Zenon
<1>7. StepsUp(g, calls, b, n + 1)
  BY <1>2, <1>5, TotalSteps, Zenon
<1>8. g[n + 1] = g[n] + calls[n + 1].left
  BY <1>5, <1>7, Zenon DEF StepsUp
<1>9. Shares(calls, others, n)
  BY <1>1, <1>4, <1>6 DEF Shares
<1>10. GrowAlike(g, h, b, c, n)
  BY <1>1, <1>2, <1>3, <1>5, <1>9, TotalsAgree, Zenon
<1>11. calls[n + 1].left \in Nat
  BY <1>5, <1>6, Zenon
<1>12. g[n + 1] \in Int /\ h[n] \in Int /\ h[n] - c = g[n + 1] - b - calls[n + 1].left
  BY <1>8, <1>10, <1>11 DEF GrowAlike
<1> QED BY <1>1, <1>2, <1>3, <1>12, Zenon

LEMMA GrantsAfterChange ==
  ASSUME Counting, EntryInv, EntryInv', frames # <<>>, NEW c \in Call, frames' = WithTop(c)
  PROVE  /\ GrantsLeft \in Int /\ GrantsLeft' \in Int
         /\ GrantsLeft' - cached'.left = GrantsLeft - cached.left - Top.left + c.left
         /\ Top' = c /\ Top \in Call
<1>1. /\ frames \in Seq(Call) /\ frames' \in Seq(Call) /\ cached.left \in Nat /\ cached'.left \in Nat
  BY Zenon DEF EntryInv, CallsTypeOK
<1>2. /\ Len(frames') = Len(frames) /\ Len(frames) \in 1 .. Len(frames)
      /\ \A i \in 1 .. Len(frames) - 1 : frames'[i] = frames[i]
      /\ frames'[Len(frames)] = c /\ Top \in Call
  BY WithTopProperties, TopIsCall DEF EntryInv
<1>3. GrantsLeft = Total(frames, cached.left) /\ GrantsLeft' = Total(frames', cached'.left)
  BY DEF GrantsLeft, Total
<1>4. /\ Total(frames, cached.left) \in Int /\ Total(frames', cached'.left) \in Int
      /\ Total(frames', cached'.left) - cached'.left
           = Total(frames, cached.left) - cached.left - frames[Len(frames)].left + frames'[Len(frames)].left
  BY <1>1, <1>2, TotalAfterChange, Zenon
<1> QED BY <1>2, <1>3, <1>4, Zenon DEF Top

LEMMA GrantsAfterEnd ==
  ASSUME Counting, EntryInv, EntryInv', frames # <<>>, frames' = Below
  PROVE  /\ GrantsLeft \in Int /\ GrantsLeft' \in Int
         /\ GrantsLeft' - cached'.left = GrantsLeft - cached.left - Top.left
         /\ Top \in Call
<1>1. /\ frames \in Seq(Call) /\ frames' \in Seq(Call) /\ cached.left \in Nat /\ cached'.left \in Nat
  BY Zenon DEF EntryInv, CallsTypeOK
<1>2. /\ Len(frames) = Len(frames') + 1 /\ \A i \in 1 .. Len(frames') : frames'[i] = frames[i]
      /\ Top \in Call
  BY <1>1, BelowProperties, TopIsCall DEF EntryInv
<1>3. GrantsLeft = Total(frames, cached.left) /\ GrantsLeft' = Total(frames', cached'.left)
  BY DEF GrantsLeft, Total
<1>4. /\ Total(frames, cached.left) \in Int /\ Total(frames', cached'.left) \in Int
      /\ Total(frames', cached'.left) - cached'.left
           = Total(frames, cached.left) - cached.left - frames[Len(frames)].left
  BY <1>1, <1>2, TotalAfterEnd, Zenon
<1> QED BY <1>2, <1>3, <1>4, Zenon DEF Top

LEMMA GrantsAfterBegin ==
  ASSUME Counting, EntryInv, EntryInv', NEW f \in Function, NEW osr \in BOOLEAN, Begin(f, osr)
  PROVE  GrantsLeft \in Int /\ GrantsLeft' = GrantsLeft
<1>1. /\ frames \in Seq(Call) /\ frames' \in Seq(Call) /\ cached.left \in Nat /\ cached' = cached
  BY Zenon DEF EntryInv, CallsTypeOK, Begin
<1>2. PICK c : c.left = 0 /\ frames' = Append(frames, c)
  BY DEF Begin
<1>3. /\ Len(frames') = Len(frames) + 1 /\ \A i \in 1 .. Len(frames) : frames[i] = frames'[i]
      /\ frames'[Len(frames')].left = 0
  BY <1>1, <1>2
<1>4. GrantsLeft = Total(frames, cached.left) /\ GrantsLeft' = Total(frames', cached.left)
  BY <1>1 DEF GrantsLeft, Total
<1>5. /\ Total(frames', cached.left) \in Int /\ Total(frames, cached.left) \in Int
      /\ Total(frames, cached.left) - cached.left
           = Total(frames', cached.left) - cached.left - frames'[Len(frames')].left
  BY <1>1, <1>3, TotalAfterEnd, Zenon
<1> QED BY <1>1, <1>3, <1>4, <1>5

LEMMA GrantsAreCounted ==
  ASSUME Counting, EntryInv
  PROVE  GrantsLeft \in Int
<1> DEFINE n == Len(frames)
<1>1. /\ frames \in Seq(Call) /\ cached.left \in Nat /\ n \in Nat /\ n <= n
      /\ \A i \in 1 .. n : frames[i] \in Call
  BY DEF EntryInv, CallsTypeOK
<1>2. PICK g : IsTotal(g, frames, cached.left, n) /\ Total(frames, cached.left) = g[n]
  BY <1>1, TotalIsLast
<1>3. Shares(frames, frames, n)
  BY <1>1, CallLeft, Zenon DEF Shares
<1> HIDE DEF n
<1>4. GrowAlike(g, g, cached.left, cached.left, n)
  BY <1>1, <1>2, <1>3, TotalsAgree, Zenon
<1>5. GrantsLeft = Total(frames, cached.left)
  BY DEF GrantsLeft, Total
<1> QED BY <1>2, <1>4, <1>5, Zenon DEF GrowAlike

LEMMA NoCallsTotal ==
  ASSUME Counting
  PROVE  \A b \in Nat : Total(<<>>, b) = b
<1> SUFFICES ASSUME Counting, NEW b \in Nat PROVE Total(<<>>, b) = b
  OBVIOUS
<1>1. <<>> \in Seq(Call) /\ Len(<<>>) = 0 /\ 0 \in Nat
  OBVIOUS
<1>2. PICK g : IsTotal(g, <<>>, b, 0) /\ Total(<<>>, b) = g[0]
  BY <1>1, TotalIsLast, Zenon
<1>3. StepsUp(g, <<>>, b, 0)
  BY <1>1, <1>2, TotalSteps
<1> QED BY <1>2, <1>3 DEF StepsUp

LEMMA GrantsKept ==
  ASSUME GrantsLeft \in Int, GrantsLeft' \in Int, GrantsLeft' <= GrantsLeft,
         TopAt("entry") /\ TopAt("run")' /\ Len(frames') = Len(frames) => ~Top'.fast
  PROVE  GrantsStep
BY DEF GrantsStep

LEMMA GrantsOfHotCall ==
  ASSUME Counting, EntryInv, EntryInv', HotDisables \/ HotProbes \/ SnapshotRejected \/ HotRefreshes
  PROVE  GrantsStep
<1>1. frames # <<>> /\ Top.at = "hot" /\ cached' = cached /\ frames' = WithTop([Top EXCEPT !.at = "entry"])
  BY Zenon DEF HotDisables, HotProbes, SnapshotRejected, HotRefreshes, TopAt
<1>2. PICK c \in Call : c.left = Top.left /\ frames' = WithTop(c)
  <2>1. Top \in Call
    BY <1>1, TopIsCall, Zenon DEF EntryInv
  <2> QED BY <1>1, <2>1 DEF Call
<1>3. cached.left \in Nat /\ Top.left \in Nat /\ ~TopAt("entry")
  BY <1>1, TopIsCall, CallLeft, Zenon DEF EntryInv, CallsTypeOK, TopAt
<1>4. /\ GrantsLeft \in Int /\ GrantsLeft' \in Int
      /\ GrantsLeft' - cached'.left = GrantsLeft - cached.left - Top.left + c.left
  BY <1>1, <1>2, GrantsAfterChange, Zenon
<1>5. GrantsLeft' <= GrantsLeft
  BY <1>1, <1>2, <1>3, <1>4
<1> QED BY <1>3, <1>4, <1>5, GrantsKept

LEMMA GrantsOfExit ==
  ASSUME Counting, EntryInv, EntryInv', ExitStep
  PROVE  GrantsStep
<1>1. PICK kind \in {"done", "deopt", "other"} :
        /\ frames # <<>> /\ Top.at = "run" /\ cached' = cached
        /\ frames' = WithTop([Top EXCEPT !.kind = kind, !.at = "store"])
  BY Zenon DEF ExitStep, ExitFast, NativeExit, TopAt
<1>2. PICK c \in Call : c.left = Top.left /\ frames' = WithTop(c)
  <2>1. Top \in Call
    BY <1>1, TopIsCall, Zenon DEF EntryInv
  <2> QED BY <1>1, <2>1, Zenon DEF Call
<1>3. cached.left \in Nat /\ Top.left \in Nat /\ ~TopAt("entry")
  BY <1>1, TopIsCall, CallLeft, Zenon DEF EntryInv, CallsTypeOK, TopAt
<1>4. /\ GrantsLeft \in Int /\ GrantsLeft' \in Int
      /\ GrantsLeft' - cached'.left = GrantsLeft - cached.left - Top.left + c.left
  BY <1>1, <1>2, GrantsAfterChange
<1>5. GrantsLeft' <= GrantsLeft
  BY <1>1, <1>2, <1>3, <1>4
<1> QED BY <1>3, <1>4, <1>5, GrantsKept, Zenon

(* One execution of the grant is used up, whatever the call itself had. *)
LEMMA GrantsOfTakeFast ==
  ASSUME Counting, EntryInv, EntryInv', TakeFast
  PROVE  GrantsStep
<1>1. /\ frames # <<>> /\ cached' = NoHandle /\ NoHandle.left = 0
      /\ cached.tier \in Tier /\ cached.art \in Nat /\ cached.epoch \in Nat /\ cached.left - 1 \in Nat
      /\ cached.flag \in BOOLEAN /\ cached.left \in Nat
  <2>1. /\ frames # <<>> /\ cached' = NoHandle /\ cached.left # 0
    BY Zenon DEF TakeFast, TopAt, FastReady
  <2>2. /\ cached.tier \in Tier /\ cached.art \in Nat /\ cached.epoch \in Nat
        /\ cached.flag \in BOOLEAN /\ cached.left \in Nat
    BY Zenon DEF EntryInv, CallsTypeOK
  <2> QED BY <2>1, <2>2 DEF NoHandle
<1>2. PICK c \in Call : c.left = cached.left - 1 /\ frames' = WithTop(c)
  <2>1. Top \in Call
    BY <1>1, TopIsCall, Zenon DEF EntryInv
  <2> QED BY <1>1, <2>1, Zenon DEF TakeFast, Call
<1>3. Top.left \in Nat
  BY <1>1, TopIsCall, CallLeft, Zenon DEF EntryInv
<1>4. /\ GrantsLeft \in Int /\ GrantsLeft' \in Int
      /\ GrantsLeft' - cached'.left = GrantsLeft - cached.left - Top.left + c.left
  BY <1>1, <1>2, GrantsAfterChange, Zenon
<1>5. GrantsLeft' < GrantsLeft
  BY <1>1, <1>2, <1>3, <1>4
<1> QED BY <1>4, <1>5 DEF GrantsStep

LEMMA GrantsOfTakeCached ==
  ASSUME Counting, EntryInv, EntryInv', TakeCached
  PROVE  GrantsStep
<1>1. /\ frames # <<>> /\ cached' = NoHandle /\ NoHandle.left = 0
      /\ cached.tier \in Tier /\ cached.art \in Nat /\ cached.epoch \in Nat /\ cached.left \in Nat
  BY Zenon DEF TakeCached, TopAt, EntryInv, CallsTypeOK, NoHandle
<1>2. PICK c \in Call : c.left = 0 /\ c.fast = FALSE /\ frames' = WithTop(c)
  <2>1. Top \in Call
    BY <1>1, TopIsCall, Zenon DEF EntryInv
  <2> QED BY <1>1, <2>1, Zenon DEF TakeCached, Call
<1>3. Top.left \in Nat
  BY <1>1, TopIsCall, CallLeft, Zenon DEF EntryInv
<1>4. /\ GrantsLeft \in Int /\ GrantsLeft' \in Int /\ Top' = c
      /\ GrantsLeft' - cached'.left = GrantsLeft - cached.left - Top.left + c.left
  BY <1>1, <1>2, GrantsAfterChange, Zenon
<1>5. GrantsLeft' <= GrantsLeft
  BY <1>1, <1>2, <1>3, <1>4
<1> QED BY <1>2, <1>4, <1>5, GrantsKept

LEMMA GrantsOfPrepare ==
  ASSUME Counting, EntryInv, EntryInv', PrepareAcquire
  PROVE  GrantsStep
<1>1. /\ frames # <<>> /\ (cached' = cached \/ cached' = NoHandle) /\ NoHandle.left = 0 /\ cached.left \in Nat
      /\ frames' = WithTop([Top EXCEPT !.fast = FALSE, !.at = "acquire"])
  BY Zenon DEF PrepareAcquire, TopAt, EntryInv, CallsTypeOK, NoHandle
<1>2. PICK c \in Call : c.left = Top.left /\ c.fast = FALSE /\ frames' = WithTop(c)
  <2>1. Top \in Call
    BY <1>1, TopIsCall, Zenon DEF EntryInv
  <2> QED BY <1>1, <2>1, Zenon DEF Call
<1>3. Top.left \in Nat
  BY <1>1, TopIsCall, CallLeft, Zenon DEF EntryInv
<1>4. /\ GrantsLeft \in Int /\ GrantsLeft' \in Int /\ Top' = c
      /\ GrantsLeft' - cached'.left = GrantsLeft - cached.left - Top.left + c.left
  BY <1>1, <1>2, GrantsAfterChange
<1>5. GrantsLeft' <= GrantsLeft
  BY <1>1, <1>2, <1>3, <1>4
<1> QED BY <1>2, <1>4, <1>5, GrantsKept

LEMMA GrantsOfAcquire ==
  ASSUME Counting, EntryInv, EntryInv', NEW f \in Function, Acquire(f)
  PROVE  GrantsStep
<1>1. /\ frames # <<>> /\ Top.at = "acquire" /\ cached' = cached /\ cached.left \in Nat
  BY Zenon DEF Acquire, TopAt, EntryInv, CallsTypeOK
<1>2. epoch' \in Nat /\ AdmittedTier(f)' \in Tier
  BY DEF EntryInv, CallsTypeOK, AdmittedTier, Tier
<1>3. code'[f][AdmittedTier(f)'] \in Nat
  BY <1>2, Zenon DEF EntryInv, CallsTypeOK
<1>4. Admitted(f)' \in Nat
  BY <1>3 DEF Admitted, NoArt
<1>5. PICK c \in Call : c.left = 0 /\ frames' = WithTop(c)
  <2>1. Top \in Call
    BY <1>1, TopIsCall, Zenon DEF EntryInv
  <2> QED BY <1>2, <1>4, <2>1, Zenon DEF Acquire, Call
<1>6. Top.left \in Nat /\ ~TopAt("entry")
  BY <1>1, TopIsCall, CallLeft, Zenon DEF EntryInv, TopAt
<1>7. /\ GrantsLeft \in Int /\ GrantsLeft' \in Int
      /\ GrantsLeft' - cached'.left = GrantsLeft - cached.left - Top.left + c.left
  BY <1>1, <1>5, GrantsAfterChange, Zenon
<1>8. GrantsLeft' <= GrantsLeft
  BY <1>1, <1>5, <1>6, <1>7
<1> QED BY <1>6, <1>7, <1>8, GrantsKept

LEMMA GrantsOfEnd ==
  ASSUME Counting, EntryInv, EntryInv', Interpret \/ Discard \/ \E f \in Function : AcquireNothing(f)
  PROVE  GrantsStep
<1>1. frames # <<>> /\ frames' = Below /\ cached' = cached /\ cached.left \in Nat
  BY Zenon DEF Interpret, Discard, AcquireNothing, TopAt, EntryInv, CallsTypeOK
<1>2. Top.left \in Nat /\ Len(frames') # Len(frames)
  BY <1>1, TopIsCall, CallLeft, BelowProperties DEF EntryInv, CallsTypeOK
<1>3. /\ GrantsLeft \in Int /\ GrantsLeft' \in Int
      /\ GrantsLeft' - cached'.left = GrantsLeft - cached.left - Top.left
  BY <1>1, GrantsAfterEnd, Zenon
<1>4. GrantsLeft' <= GrantsLeft
  BY <1>1, <1>2, <1>3
<1> QED BY <1>2, <1>3, <1>4, GrantsKept

(* Only the end of a full execution may bring a grant. *)
LEMMA GrantsOfStore ==
  ASSUME Counting, EntryInv, EntryInv', Store
  PROVE  GrantsStep
<1>1. frames # <<>> /\ TopAt("store") /\ frames' = Below /\ cached.left \in Nat /\ ~TopAt("entry")
  BY Zenon DEF Store, TopAt, EntryInv, CallsTypeOK
<1>2. CASE ~Top.fast
  BY <1>1, <1>2 DEF GrantsStep
<1>3. CASE Top.fast
  <2>1. cached'.left = Top.left
    BY <1>3 DEF Store
  <2>2. Top.left \in Nat
    BY <1>1, TopIsCall, CallLeft, Zenon DEF EntryInv
  <2>3. /\ GrantsLeft \in Int /\ GrantsLeft' \in Int
        /\ GrantsLeft' - cached'.left = GrantsLeft - cached.left - Top.left
    BY <1>1, GrantsAfterEnd, Zenon
  <2>4. GrantsLeft' <= GrantsLeft
    BY <1>1, <2>1, <2>2, <2>3
  <2> QED BY <1>1, <2>3, <2>4, GrantsKept
<1> QED BY <1>2, <1>3

LEMMA NextGrants ==
  ASSUME Counting, EntryInv, EntryInv', Next
  PROVE  GrantsStep
<1>1. ASSUME NEW f \in Function, NEW osr \in BOOLEAN, Begin(f, osr) PROVE GrantsStep
  <2>1. ~TopAt("entry")
    BY <1>1, Zenon DEF Begin, Runs, TopAt
  <2>2. GrantsLeft \in Int /\ GrantsLeft' = GrantsLeft
    BY <1>1, GrantsAfterBegin, Zenon
  <2> QED BY <2>1, <2>2, GrantsKept
<1>2. CASE Observe \/ WorkerCompletes \/ Poll \/ Suspend \/ \E f \in Function : Retire(f)
  <2>1. UNCHANGED <<frames, cached>>
    BY <1>2, Zenon DEF Observe, WorkerCompletes, Poll, Suspend, Retire
  <2>2. GrantsLeft' = GrantsLeft /\ Top' = Top
    BY <2>1 DEF GrantsLeft, Top
  <2> QED BY <2>1, <2>2, GrantsAreCounted DEF GrantsStep, TopAt
<1>3. CASE Detach
  <2>1. frames = <<>> /\ frames' = <<>> /\ cached'.left = 0 /\ cached.left \in Nat
    BY <1>3, Zenon DEF Detach, NoHandle, EntryInv, CallsTypeOK
  <2>2. GrantsLeft = cached.left /\ GrantsLeft' = cached'.left
    BY <2>1, NoCallsTotal DEF GrantsLeft, Total
  <2>3. GrantsLeft \in Int /\ GrantsLeft' \in Int /\ GrantsLeft' <= GrantsLeft
    BY <2>1, <2>2
  <2> QED BY <2>1, <2>3, GrantsKept DEF TopAt
<1>4. CASE CallStep
  BY <1>4, GrantsOfHotCall, GrantsOfTakeFast, GrantsOfTakeCached, GrantsOfPrepare, GrantsOfAcquire,
     GrantsOfEnd, GrantsOfStore, Zenon DEF CallStep
<1> QED BY <1>1, <1>2, <1>3, <1>4, GrantsOfExit DEF Next

------------------------------------------------------------------------------

INSTANCE FiniteSetTheorems

(* Induction over Nat, for a set. *)
LEMMA InductiveSet ==
  ASSUME NEW N, 0 \in N, \A n \in Nat : n \in N => n + 1 \in N
  PROVE  Nat \subseteq N
<1> SUFFICES ASSUME Nat \ N # {}  PROVE FALSE
  OBVIOUS
<1>1. PICK m \in Nat \ N : \A n \in Nat \ N : <<n, m>> \notin OpToRel(<, Nat)
  BY WFMin, NatLessThanWellFounded, Zenon
<1>2. \A n \in Nat \ N : ~(n < m)
  BY <1>1, Zenon DEF OpToRel
<1>3. m # 0 /\ m - 1 \in Nat /\ m - 1 < m /\ (m - 1) + 1 = m
  OBVIOUS
<1>4. m - 1 \in N
  BY <1>2, <1>3, Zenon
<1> QED  BY <1>3, <1>4, Zenon

(* What the library says of finite sets is what the lemmas above assume.    *)
LEMMA CountingHolds == Counting
<1>1. IsFiniteSet({}) /\ Cardinality({}) = 0
  BY FS_EmptySet, Zenon
<1>2. \A n \in Int : IsFiniteSet(1 .. n)
  BY FS_Interval
<1>3. \A S : IsFiniteSet(S) => Cardinality(S) \in Nat /\ (Cardinality(S) = 0 => S = {})
  BY FS_CardinalityType, FS_EmptySet, Zenon
<1>4. \A S : IsFiniteSet(S) => \A T \in SUBSET S : IsFiniteSet(T) /\ Cardinality(T) <= Cardinality(S)
  BY FS_Subset, Zenon
<1>5. ASSUME NEW S, NEW x, IsFiniteSet(S)
      PROVE  /\ Cardinality(S \cup {x}) = IF x \in S THEN Cardinality(S) ELSE Cardinality(S) + 1
             /\ Cardinality(S \ {x}) = IF x \in S THEN Cardinality(S) - 1 ELSE Cardinality(S)
             /\ IsFiniteSet(S \cup {x}) /\ IsFiniteSet(S \ {x})
  BY <1>5, FS_AddElement, FS_RemoveElement, Zenon
<1>6. \A N : 0 \in N /\ (\A n \in Nat : n \in N => n + 1 \in N) => Nat \subseteq N
  BY InductiveSet, Zenon
<1> QED BY <1>1, <1>2, <1>3, <1>4, <1>5, <1>6, Zenon DEF Counting

(* Every pin is held by one call or by the cache: no order of nested calls, *)
(* grants, deoptimizations, retirements and maintenance leaks a pin or      *)
(* releases one twice.                                                      *)
THEOREM PinsAreHeld == Spec => []PinsAreHandles
<1> Counting
  BY CountingHolds
<1>1. Init => PinInv
  <2> SUFFICES ASSUME Init PROVE PinInv
    OBVIOUS
  <2>1. Len(frames) = 0 /\ cached.art = NoArt /\ pins = [a \in Artifact |-> 0]
    BY Zenon DEF Init, NoHandle
  <2>2. \A a : HeldBy(a) = {}
    BY <2>1 DEF HeldBy
  <2>3. \A a : HoldingCalls(a) = 0
    BY <2>2, Zenon DEF Counting, HoldingCalls
  <2>4. CodeIsBounded
    BY EntryAssumption DEF Init, CodeIsBounded, NoArt
  <2> QED BY <2>1, <2>3, <2>4, EntryAssumption DEF PinInv, Artifact, NoArt
<1>2. EntryInv /\ PinInv /\ [Next]_vars => PinInv'
  BY NextKeepsPins, Zenon
<1>3. PinInv => PinsAreHandles
  BY Zenon DEF PinInv, PinsAreHandles, Holders, HoldingCalls, HeldBy
<1> QED BY <1>1, <1>2, <1>3, EntryInvariant, PTL DEF Spec

(* The timers are those of the announced calls in native code, whatever     *)
(* granted calls, deoptimizations and retirements come between.             *)
THEOREM TimersAreMatched == Spec => []TimersMatchCalls
<1> Counting
  BY CountingHolds
<1>1. Init => TimerInv
  <2> SUFFICES ASSUME Init PROVE TimerInv
    OBVIOUS
  <2>1. frames = <<>> /\ starts = <<>> /\ Len(frames) = 0 /\ Len(starts) = 0 /\ starts \in Seq(Timer)
    BY DEF Init
  <2>2. Timed = {}
    BY <2>1 DEF Timed
  <2>3. Cardinality(Timed) = 0
    BY <2>2, Zenon DEF Counting
  <2> QED BY <2>1, <2>2, <2>3 DEF TimerInv, IsTimedBy
<1>2. EntryInv /\ TimerInv /\ [Next]_vars => TimerInv'
  BY NextKeepsTimers
<1>3. TimerInv => TimersMatchCalls
  BY Zenon DEF TimerInv, IsTimedBy, TimerOf, TimersMatchCalls
<1> QED BY <1>1, <1>2, <1>3, EntryInvariant, PTL DEF Spec

(* A granted entry uses up an execution of some grant, and the executions   *)
(* granted and not yet used grow only where a full execution ends: calls    *)
(* that never meet the backend cannot go on for ever.                       *)
THEOREM GrantsAreUsedUp == Spec => GrantsRunOut
<1> Counting
  BY CountingHolds
<1>1. EntryInv /\ EntryInv' /\ [Next]_vars => [GrantsStep]_vars
  BY NextGrants
<1>2. Spec => [][GrantsStep]_vars
  BY <1>1, EntryInvariant, PTL DEF Spec
<1> QED BY <1>2 DEF GrantsRunOut, GrantsStep
===============================================================================
