---------------------------- MODULE FeedbackTable ----------------------------
(***************************************************************************)
(* The runtime's type feedback: for every site of a live function a bounded *)
(* lattice of what was observed there, one version counter that consumers   *)
(* compare before they rescan, and two shortcuts that answer a repeated     *)
(* observation without touching the lattice.                                *)
(*                                                                         *)
(* Observed values are abstracted to their types.  A behaviour has a `load`: *)
(* the kinds of event it may observe, of which functions and at which sites  *)
(* (bytecode offsets), the types they carry, the arguments a call may have,  *)
(* the binary operations and element accesses it performs, and the table's   *)
(* capacity, its diversity limit and the size of its recent cache (4 in the  *)
(* code).  `seen` is a history variable: one observation, picked arbitrarily *)
(* among those the table recorded, so that an invariant about `seen` is an   *)
(* invariant about every recorded observation.                               *)
(***************************************************************************)
EXTENDS Integers, Sequences, FiniteSets

CONSTANTS Function,     \* function generations
          MaxSpecialized, \* MAX_SPECIALIZED_ARGUMENTS
          Loads         \* the loads a behaviour may have

ASSUME FeedbackAssumption ==
  /\ MaxSpecialized \in Nat
  /\ \A l \in Loads : l.limit \in Nat \ {0} /\ l.recent \in Nat \ {0} /\ l.capacity \in Nat

VARIABLES load,      \* what this behaviour observes, the capacity and the limit
          tab,       \* the lattices: a site is present once it was observed
          version,   \* FeedbackTable::version
          dropped,   \* observations refused at capacity
          cache,     \* recent_types with its cursor, and last_call
          alive,     \* generations that are not freed
          seen       \* history: some recorded observation

feedbackVars == <<load, tab, version, dropped, cache, alive, seen>>

limit == load.limit

-----------------------------------------------------------------------------
(* One lattice cell: Entry, and the bounded distinct lists of arities and    *)
(* targets.                                                                  *)

Empty == [obs |-> {}, mega |-> FALSE]

\* A type joins the cell until the limit; one more widens it for good.
Observe(cell, x) ==
  IF cell.mega \/ x \in cell.obs THEN cell
  ELSE IF Cardinality(cell.obs) >= limit THEN [obs |-> {}, mega |-> TRUE]
  ELSE [cell EXCEPT !.obs = @ \cup {x}]

State(cell) == IF cell.mega THEN "mega"
               ELSE IF Cardinality(cell.obs) = 1 THEN "mono" ELSE "poly"

Shape(cell) == <<Cardinality(cell.obs), cell.mega>>

Slot(slots, i) == IF i <= Len(slots) THEN slots[i] ELSE Empty

\* Grow the slots to the arguments given, then observe each argument.
ObserveSlots(slots, args) ==
  [i \in 1..(IF Len(slots) < Len(args) THEN Len(args) ELSE Len(slots)) |->
     IF i <= Len(args) THEN Observe(Slot(slots, i), args[i]) ELSE slots[i]]

\* The fingerprint of a slot list: two sums.
SlotsShape(slots) ==
  <<Cardinality(UNION {{i} \X slots[i].obs : i \in DOMAIN slots}),
    Cardinality({i \in DOMAIN slots : slots[i].mega})>>

-----------------------------------------------------------------------------
(* The tables.  A table is a function whose domain is its present sites.     *)

With(table, key, site) ==
  [k \in DOMAIN table \cup {key} |-> IF k = key THEN site ELSE table[k]]
At(table, key, fresh) == IF key \in DOMAIN table THEN table[key] ELSE fresh
Of(table, f) == [k \in {k \in DOMAIN table : k[1] = f} |-> table[k]]
NotOf(table, f) == [k \in {k \in DOMAIN table : k[1] # f} |-> table[k]]

NoTable == [k \in {} |-> Empty]
NoRecent == [i \in 0..(load.recent - 1) |-> <<>>]
NoEvent == [event |-> "none"]
NoCall == <<>>

FeedbackInit ==
  /\ load \in Loads
  /\ tab = [types |-> NoTable, calls |-> NoTable, binaries |-> NoTable,
            conversions |-> NoTable, branches |-> NoTable,
            signatures |-> NoTable, arrays |-> NoTable]
  /\ version = 0
  /\ dropped = 0
  /\ cache = [recent |-> NoRecent, cursor |-> 0, lastCall |-> NoCall]
  /\ alive = Function
  /\ seen = NoEvent

\* The table recorded `event`; the history may choose to remember it.
Recorded(event) ==
  seen' \in {seen} \cup {e \in {event} : load.history /\ seen = NoEvent}

Bumped(changed) == version' = version + (IF changed THEN 1 ELSE 0)

Enabled(event, f) == event \in load.events /\ f \in load.fns /\ f \in alive

-----------------------------------------------------------------------------
(* Types of values and returns: a bounded table with the recent_types cache. *)

\* Faulty variant: a cached answer outlives the version it was computed at.
RecentHitsAnyVersion(key, type) ==
  {i \in DOMAIN cache.recent :
     /\ cache.recent[i] # <<>>
     /\ cache.recent[i].key = key /\ cache.recent[i].type = type}

\* recent_types answers for the key and the type at this version only.
RecentHits(key, type) ==
  {i \in DOMAIN cache.recent :
     /\ cache.recent[i] # <<>>
     /\ cache.recent[i].key = key /\ cache.recent[i].type = type
     /\ cache.recent[i].version = version}

TypeRefused(key) ==
  key \notin DOMAIN tab.types /\ Cardinality(DOMAIN tab.types) >= load.capacity

TypeRecorded(key, type) == Observe(At(tab.types, key, Empty), type)

\* Faulty variant: the first observation of a site does not count as a change.
ObserveTypeQuietly(f, pc, kind, type) ==
  LET key == <<f, pc, kind>>
      cell == TypeRecorded(key, type)
      changed == key \in DOMAIN tab.types /\ Shape(cell) # Shape(tab.types[key])
  IN  /\ Enabled("type", f)
      /\ RecentHits(key, type) = {} /\ ~ TypeRefused(key)
      /\ tab' = [tab EXCEPT !.types = With(@, key, cell)]
      /\ Bumped(changed)
      /\ cache' = [cache EXCEPT !.recent[cache.cursor] =
                     [key |-> key, type |-> type, state |-> State(cell), version |-> version'],
                                !.cursor = (@ + 1) % load.recent]
      /\ Recorded([event |-> kind, fn |-> f, pc |-> pc, type |-> type])
      /\ UNCHANGED <<load, dropped, alive>>

ObserveType(f, pc, kind, type) ==
  LET key == <<f, pc, kind>>
      cell == TypeRecorded(key, type)
      changed == key \in DOMAIN tab.types => Shape(cell) # Shape(tab.types[key])
  IN  /\ Enabled("type", f)
      /\ RecentHits(key, type) = {} /\ ~ TypeRefused(key)
      /\ tab' = [tab EXCEPT !.types = With(@, key, cell)]
      /\ Bumped(changed)
      /\ cache' = [cache EXCEPT !.recent[cache.cursor] =
                     [key |-> key, type |-> type, state |-> State(cell), version |-> version'],
                                !.cursor = (@ + 1) % load.recent]
      /\ Recorded([event |-> kind, fn |-> f, pc |-> pc, type |-> type])
      /\ UNCHANGED <<load, dropped, alive>>

\* At capacity a new site is refused and counted, and never cached.
RefuseType(f, pc, kind, type) ==
  /\ Enabled("type", f)
  /\ RecentHits(<<f, pc, kind>>, type) = {} /\ TypeRefused(<<f, pc, kind>>)
  /\ dropped = 0 /\ dropped' = 1     \* only zero and not zero are told apart
  /\ UNCHANGED <<load, tab, version, cache, alive, seen>>

\* A cached answer at the current version is returned without a look at the site.
RepeatType(f, pc, kind, type) ==
  /\ Enabled("type", f)
  /\ RecentHits(<<f, pc, kind>>, type) # {}
  /\ Recorded([event |-> kind, fn |-> f, pc |-> pc, type |-> type])
  /\ UNCHANGED <<load, tab, version, dropped, cache, alive>>

-----------------------------------------------------------------------------
(* Calls of a function: its arities and the types of its arguments.          *)

NewCall == [slots |-> <<>>, arities |-> Empty]

CallRecorded(f, args) ==
  LET call == At(tab.calls, <<f>>, NewCall)
  IN  [slots |-> ObserveSlots(call.slots, args),
       arities |-> Observe(call.arities, Len(args))]

CallShape(call) == <<Shape(call.arities), Len(call.slots), SlotsShape(call.slots)>>

\* The call repeats the last one observed, whoever else was observed since.
RepeatsLastCall(f, args) == cache.lastCall = <<f, args>>

ObserveCall(f, args) ==
  LET call == CallRecorded(f, args)
  IN  /\ Enabled("call", f) /\ ~ RepeatsLastCall(f, args)
      /\ tab' = [tab EXCEPT !.calls = With(@, <<f>>, call)]
      /\ Bumped(\/ <<f>> \notin DOMAIN tab.calls
                \/ CallShape(call) # CallShape(tab.calls[<<f>>]))
      /\ cache' = [cache EXCEPT !.lastCall = <<f, args>>]
      /\ Recorded([event |-> "call", fn |-> f, args |-> args])
      /\ UNCHANGED <<load, dropped, alive>>

RepeatCall(f, args) ==
  /\ Enabled("call", f) /\ RepeatsLastCall(f, args)
  /\ Recorded([event |-> "call", fn |-> f, args |-> args])
  /\ UNCHANGED <<load, tab, version, dropped, cache, alive>>

-----------------------------------------------------------------------------
(* Binary operations, conversions and branches: a few cells per site.        *)

\* `flag` stands for overflow, a negative zero or a NaN at the operation.
ObserveBinary(f, pc, lhs, rhs, result, flag) ==
  LET new == [lhs |-> Empty, rhs |-> Empty, result |-> Empty, flag |-> FALSE]
      old == At(tab.binaries, <<f, pc>>, new)
      site == [lhs |-> Observe(old.lhs, lhs), rhs |-> Observe(old.rhs, rhs),
               result |-> Observe(old.result, result), flag |-> old.flag \/ flag]
      fingerprint(b) == <<Shape(b.lhs), Shape(b.rhs), Shape(b.result), b.flag>>
  IN  /\ Enabled("binary", f)
      /\ tab' = [tab EXCEPT !.binaries = With(@, <<f, pc>>, site)]
      /\ Bumped(fingerprint(site) # fingerprint(old))
      /\ UNCHANGED <<load, dropped, cache, alive, seen>>

ObserveConversion(f, pc, operand, result) ==
  LET old == At(tab.conversions, <<f, pc>>, [operand |-> Empty, result |-> Empty])
      site == [operand |-> Observe(old.operand, operand),
               result |-> Observe(old.result, result)]
      fingerprint(c) == <<Shape(c.operand), Shape(c.result)>>
  IN  /\ Enabled("conversion", f)
      /\ tab' = [tab EXCEPT !.conversions = With(@, <<f, pc>>, site)]
      /\ Bumped(fingerprint(site) # fingerprint(old))
      /\ UNCHANGED <<load, dropped, cache, alive, seen>>

ObserveBranch(f, pc, type, taken) ==
  LET old == At(tab.branches, <<f, pc>>, [types |-> Empty, outcomes |-> {}])
      site == [types |-> Observe(old.types, type), outcomes |-> old.outcomes \cup {taken}]
      fingerprint(b) == <<Shape(b.types), b.outcomes>>
  IN  /\ Enabled("branch", f)
      /\ tab' = [tab EXCEPT !.branches = With(@, <<f, pc>>, site)]
      /\ Bumped(fingerprint(site) # fingerprint(old))
      /\ UNCHANGED <<load, dropped, cache, alive, seen>>

-----------------------------------------------------------------------------
(* Call sites: the callee, its two identities, the arguments and the result. *)

NoIdentity == <<>>     \* identity zero
Objects(callee) == {NoIdentity, <<callee, 1>>, <<callee, 2>>}   \* closures of one bytecode
Code(callee, object) == IF object = NoIdentity THEN NoIdentity ELSE <<callee>>

NewSignature(object, code) ==
  [targets |-> Empty, arities |-> Empty, arguments |-> <<>>, results |-> Empty,
   object |-> object, code |-> code]

\* Faulty variant: a changed identity is replaced by the newest one.
SignatureNewest(old, callee, object, code, args, result) ==
  [targets |-> Observe(old.targets, callee),
   arities |-> Observe(old.arities, Len(args)),
   arguments |-> ObserveSlots(old.arguments, args),
   results |-> Observe(old.results, result),
   object |-> object, code |-> code]

\* A changed identity makes the targets megamorphic but keeps their list, and
\* zeroes the identity that changed.
SignatureRecorded(old, callee, object, code, args, result) ==
  LET differs == old.object # object \/ old.code # code
  IN  [targets |-> Observe([old.targets EXCEPT !.mega = @ \/ differs], callee),
       arities |-> Observe(old.arities, Len(args)),
       arguments |-> ObserveSlots(old.arguments, args),
       results |-> Observe(old.results, result),
       object |-> IF old.object = object THEN object ELSE NoIdentity,
       code |-> IF old.code = code THEN code ELSE NoIdentity]

SignatureShape(s) ==
  <<Shape(s.targets), Shape(s.arities), Len(s.arguments), SlotsShape(s.arguments),
    Shape(s.results), s.object, s.code>>

ObserveSignature(f, pc, callee, object, code, args, result) ==
  LET old == At(tab.signatures, <<f, pc>>, NewSignature(object, code))
      site == SignatureRecorded(old, callee, object, code, args, result)
  IN  /\ Enabled("signature", f)
      /\ tab' = [tab EXCEPT !.signatures = With(@, <<f, pc>>, site)]
      /\ Bumped(SignatureShape(site) # SignatureShape(old))
      /\ Recorded([event |-> "signature", fn |-> f, pc |-> pc, callee |-> callee,
                   object |-> object, code |-> code, args |-> args, result |-> result])
      /\ UNCHANGED <<load, dropped, cache, alive>>

-----------------------------------------------------------------------------
(* Element accesses: a mask of array modes, a hazard mask and one access.    *)

ArrayModes == {"generic", "packed", "int32"}
Accesses == {"load", "store"}
ArrayLimit == IF limit > 3 THEN 3 ELSE limit     \* clamp(1, 3)

ArrayRefused(key) ==
  key \notin DOMAIN tab.arrays /\ Cardinality(DOMAIN tab.arrays) >= load.capacity

ArrayRecorded(old, access, mode, hazard) ==
  LET modes == old.modes \cup {mode}
  IN  [old EXCEPT !.modes = modes, !.hazard = @ \/ hazard,
                  !.state = IF \/ @ = "mega" \/ old.access # access
                               \/ Cardinality(modes) > ArrayLimit THEN "mega"
                            ELSE IF Cardinality(modes) > 1 THEN "poly" ELSE "mono"]

ObserveArray(f, pc, access, mode, hazard) ==
  LET new == [access |-> access, modes |-> {}, hazard |-> FALSE, state |-> "mono"]
      old == At(tab.arrays, <<f, pc>>, new)
      site == ArrayRecorded(old, access, mode, hazard)
  IN  /\ Enabled("array", f) /\ ~ ArrayRefused(<<f, pc>>)
      /\ tab' = [tab EXCEPT !.arrays = With(@, <<f, pc>>, site)]
      /\ Bumped(site # old)
      /\ Recorded([event |-> "array", fn |-> f, pc |-> pc,
                   access |-> access, mode |-> mode, hazard |-> hazard])
      /\ UNCHANGED <<load, dropped, cache, alive>>

\* A table at capacity only counts the event (in a counter of its own).
RefuseArray(f, pc) ==
  /\ Enabled("array", f) /\ ArrayRefused(<<f, pc>>)
  /\ UNCHANGED feedbackVars

-----------------------------------------------------------------------------
(* A freed generation is forgotten and is never observed again.              *)

\* Every table drops the function; the version stays.
ForgetFunction(f) ==
  /\ f \in alive \cap load.fns /\ alive' = alive \ {f}
  /\ tab' = [t \in DOMAIN tab |-> NotOf(tab[t], f)]
  /\ cache' = [cache EXCEPT !.recent = NoRecent,
                            !.lastCall = IF @ # NoCall /\ @[1] = f THEN NoCall ELSE @]
  /\ seen' = IF seen # NoEvent /\ seen.fn = f THEN NoEvent ELSE seen
  /\ UNCHANGED <<load, version, dropped>>

FeedbackObserves ==
  \E f \in Function :
    \/ \E args \in load.args : ObserveCall(f, args) \/ RepeatCall(f, args)
    \/ \E pc \in load.pcs :
         \/ \E kind \in load.kinds, t \in load.types :
              \/ ObserveType(f, pc, kind, t)
              \/ RefuseType(f, pc, kind, t)
              \/ RepeatType(f, pc, kind, t)
         \/ \E b \in load.binaries : ObserveBinary(f, pc, b[1], b[2], b[3], b[4])
         \/ \E o, t \in load.types : ObserveConversion(f, pc, o, t)
         \/ \E t \in load.types, b \in BOOLEAN : ObserveBranch(f, pc, t, b)
         \/ \E g \in load.callees, args \in load.args, t \in load.types : \E o \in Objects(g) :
              ObserveSignature(f, pc, g, o, Code(g, o), args, t)
         \/ \E a \in load.arrays : ObserveArray(f, pc, a[1], a[2], a[3])
         \/ RefuseArray(f, pc)

FeedbackNext == FeedbackObserves \/ \E f \in Function : ForgetFunction(f)

-----------------------------------------------------------------------------
(* What the compiler reads from a snapshot.                                  *)

\* observed_representation, and the scalar one that a result may have.
Scalar == {"int32", "float64", "bool"}
Representable == Scalar \cup {"object"}

SlotsAreMono(slots) == \A i \in DOMAIN slots : Cardinality(slots[i].obs) = 1
Only(cell) == CHOOSE x \in cell.obs : TRUE

CallIsMono(call) ==
  /\ ~ call.arities.mega /\ \A i \in DOMAIN call.slots : ~ call.slots[i].mega
  /\ Cardinality(call.arities.obs) = 1 /\ SlotsAreMono(call.slots)

SignatureIsMono(s) ==
  /\ ~ s.targets.mega /\ ~ s.arities.mega /\ ~ s.results.mega
  /\ \A i \in DOMAIN s.arguments : ~ s.arguments[i].mega
  /\ Cardinality(s.targets.obs) = 1 /\ Cardinality(s.arities.obs) = 1
  /\ Cardinality(s.results.obs) = 1 /\ SlotsAreMono(s.arguments)

\* call_specialization_at: the call site may be linked with typed arguments.
IsSpecializable(s) ==
  /\ SignatureIsMono(s)
  /\ Only(s.arities) <= MaxSpecialized /\ Len(s.arguments) = Only(s.arities)
  /\ \A i \in DOMAIN s.arguments : Only(s.arguments[i]) \in Representable
  /\ Only(s.results) \in Scalar

\* call_link_at: the call site may be linked to its one target.
IsLinkable(s) ==
  /\ ~ s.targets.mega /\ Cardinality(s.targets.obs) = 1
  /\ s.object # NoIdentity /\ s.code # NoIdentity

\* The returns of f, one cell per site.
Exits(f) == {tab.types[k] : k \in {k \in DOMAIN tab.types : k[1] = f /\ k[3] = "exit"}}
ReturnTypes(f) == {Only(c) : c \in Exits(f)}
Matches(b, t) == b.lhs.obs = {t} /\ b.rhs.obs = {t} /\ b.result.obs = {t}

\* bounded_specialization: f may be compiled with unboxed arguments and result.
IsBounded(f) ==
  /\ <<f>> \in DOMAIN tab.calls
  /\ LET call == tab.calls[<<f>>]
     IN  /\ CallIsMono(call)
         /\ Only(call.arities) <= MaxSpecialized /\ Len(call.slots) = Only(call.arities)
         /\ \A i \in DOMAIN call.slots : Only(call.slots[i]) \in Representable
  /\ Exits(f) # {} /\ \A c \in Exits(f) : State(c) = "mono"
  /\ Cardinality(ReturnTypes(f)) = 1 /\ ReturnTypes(f) \subseteq Scalar
  /\ \/ ReturnTypes(f) = {"bool"}
     \/ \E k \in DOMAIN tab.binaries :
          /\ k[1] = f
          /\ \E t \in ReturnTypes(f) : Matches(tab.binaries[k], t)

\* can_specialize: the element access may be guarded and inlined.
CanSpecialize(a) == a.state # "mega" /\ ~ a.hazard /\ "generic" \notin a.modes

-----------------------------------------------------------------------------
(* Properties                                                                *)

Lattice(f) == [t \in DOMAIN tab |-> Of(tab[t], f)]

\* The version changes exactly in the steps that change the lattice of a live
\* function: a consumer that compares versions (last_scan_feedback_version, the
\* deferred Tier-2 candidates, the direct-refresh probes) never works from an
\* outdated snapshot and never rescans in vain.  The code decides by comparing
\* fingerprints (lengths and counts) before and after, not the lattices.
VersionTracksLiveFeedback ==
  [][(version' # version) <=> (\E f \in alive' : Lattice(f)' # Lattice(f))]_feedbackVars

\* Whenever observe_type or observe_call answers from recent_types or last_call,
\* the full path would have changed nothing, and would have returned the state
\* that the shortcut returns.
ShortcutsLoseNothing ==
  /\ \A i \in DOMAIN cache.recent :
       LET r == cache.recent[i]
       IN  (r # <<>> /\ i \in RecentHits(r.key, r.type)) =>
             /\ r.key \in DOMAIN tab.types
             /\ TypeRecorded(r.key, r.type) = tab.types[r.key]
             /\ State(tab.types[r.key]) = r.state
  /\ \A f \in Function, args \in load.args :
       RepeatsLastCall(f, args) =>
         <<f>> \in DOMAIN tab.calls /\ CallRecorded(f, args) = tab.calls[<<f>>]

\* What the compiler may assume of a site is true of everything recorded there:
\* a specialized call site only ever called that callee, through that function
\* object, with those types; a linked one that callee; an element access with
\* a specialized mode had no hazard, no other access and no generic receiver.
SpecializedSitesFitEveryEvent ==
  /\ seen.event = "signature" =>
       LET s == tab.signatures[<<seen.fn, seen.pc>>]
       IN  /\ IsSpecializable(s) =>
                /\ s.targets.obs = {seen.callee} /\ s.results.obs = {seen.result}
                /\ Len(seen.args) = Len(s.arguments)
                /\ \A i \in DOMAIN seen.args : s.arguments[i].obs = {seen.args[i]}
                /\ s.object = seen.object /\ s.code = seen.code
           /\ IsLinkable(s) =>
                /\ s.targets.obs = {seen.callee}
                /\ s.object = seen.object /\ s.code = seen.code
  /\ seen.event = "array" =>
       LET a == tab.arrays[<<seen.fn, seen.pc>>]
       IN  CanSpecialize(a) =>
             /\ seen.access = a.access /\ seen.mode \in a.modes
             /\ seen.mode # "generic" /\ ~ seen.hazard

\* The signature a function is compiled with is the one of every call and every
\* return recorded for it, whatever came first and whichever shortcut answered.
BoundedSignatureFitsEveryEvent ==
  (seen # NoEvent /\ IsBounded(seen.fn)) =>
    /\ seen.event = "call" =>
         LET slots == tab.calls[<<seen.fn>>].slots
         IN  /\ Len(seen.args) = Len(slots)
             /\ \A i \in DOMAIN slots : slots[i].obs = {seen.args[i]}
    /\ seen.event = "exit" => ReturnTypes(seen.fn) = {seen.type}

\* Code specialized on the feedback table fits every event the table recorded:
\* call and element sites as well as the signature of the function, which takes
\* its result from all the return sites together.  An event of a site that was
\* refused at capacity is not recorded, and bounded_specialization does not ask
\* whether there were any.
SpecializationsFitEveryEvent == SpecializedSitesFitEveryEvent /\ BoundedSignatureFitsEveryEvent
=============================================================================
