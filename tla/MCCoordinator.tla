---------------------------- MODULE MCCoordinator ----------------------------
(* Model-checking instances of Coordinator. *)
EXTENDS Coordinator, TLC

UnitSize == {[code |-> 1, metadata |-> 0]}

(* An injective fingerprint of small guards, types and epochs. *)
SmallFingerprint(g, o, e) == 100 * g + 10 * o + e

Fingerprints ==
  PrimarySpecialization
    \cup {SmallFingerprint(g, o, e) : g \in Guard, o \in Numeric, e \in 1 .. MaxClock}

(* The bytecode of the third generation is not eligible. *)
ThirdGeneration == {k \in FunctionKey : k.generation = 3}

(* The optimizing request of the second generation is too large. *)
SecondGenerationOptimizing == {<<k, "Optimizing">> : k \in {l \in FunctionKey : l.generation = 2}}

NoCalls == [i \in FunctionId |-> {}]

AllCalls == [i \in FunctionId |-> FunctionId \ {i}]

Symmetry == Permutations(FunctionId)
==============================================================================
