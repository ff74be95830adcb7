---------------------------- MODULE ShapeFeedback ----------------------------
(***************************************************************************)
(* Property feedback of one bytecode site: which shapes its receivers had,   *)
(* and the layout of each.  A layout stands for what an observation carries  *)
(* besides the shape's identity: its generation, the prototype dependency,   *)
(* the offset, the attributes and the value's type.                          *)
(***************************************************************************)
EXTENDS Integers, Sequences, FiniteSets, SequencesExt

CONSTANTS Identity, Layout,
          PolymorphicLimit,    \* shapes a site may hold
          MaxShapeVersion      \* bound on the changes of a behaviour

ASSUME ShapeAssumption == PolymorphicLimit \in Nat \ {0} /\ MaxShapeVersion \in Nat

VARIABLES site,           \* [state, observations]: newest observation last
          shapeVersion,   \* ShapeFeedbackTable::version
          latest          \* history: the last layout seen of every identity

shapeVars == <<site, shapeVersion, latest>>

Observation == [shape : Identity, layout : Layout]
NotSeen == "not seen"

ShapeInit ==
  /\ site = [state |-> "mono", observations |-> <<>>]
  /\ shapeVersion = 0
  /\ latest = [i \in Identity |-> NotSeen]

\* A newer layout of a shape replaces the older one.
Others(o) == SelectSeq(site.observations, LAMBDA x : x.shape # o.shape)

\* Nothing to record: the site is megamorphic, or the newest one repeats.
IsRepeat(o) == site.state = "mega" \/ (site.observations # <<>> /\ Last(site.observations) = o)

\* Faulty variant: any observation that is not the newest advances the version.
AdvancesOnReorder(o) == TRUE

Advances(o) == ~ Contains(site.observations, o)

ObserveShape(o) ==
  /\ latest' = [latest EXCEPT ![o.shape] = o.layout]
  /\ \/ IsRepeat(o) /\ UNCHANGED <<site, shapeVersion>>
     \/ /\ ~ IsRepeat(o) /\ shapeVersion < MaxShapeVersion
        /\ shapeVersion' = shapeVersion + (IF Advances(o) THEN 1 ELSE 0)
        /\ site' = IF Len(Others(o)) >= PolymorphicLimit
                   THEN [state |-> "mega", observations |-> <<>>]
                   ELSE [state |-> IF Others(o) = <<>> THEN "mono" ELSE "poly",
                         observations |-> Append(Others(o), o)]

ShapeNext == \E o \in Observation : ObserveShape(o)

-----------------------------------------------------------------------------
Seen == {i \in Identity : latest[i] # NotSeen}

\* A site holds the newest layout of every shape it saw, one each, so that no
\* guard is emitted for a layout that can no longer match; it gives up exactly
\* when it saw more shapes than its limit, however often their layouts changed.
ShapeSiteIsLatest ==
  /\ site.state = "mega" <=> Cardinality(Seen) > PolymorphicLimit
  /\ site.state # "mega" =>
       /\ ToSet(site.observations) = {[shape |-> i, layout |-> latest[i]] : i \in Seen}
       /\ IsInjective(site.observations)

\* The version changes exactly with the state or the set of observations, and
\* those are exact themselves: a repeat, or known shapes that alternate, never
\* wake the consumers that cache a decision by version, and a version that did
\* not change still stands for the newest layouts.
ShapeVersionIsExact ==
  [][/\ (shapeVersion' # shapeVersion) <=>
          \/ site'.state # site.state
          \/ ToSet(site'.observations) # ToSet(site.observations)
     /\ ShapeSiteIsLatest']_shapeVars
=============================================================================
