--------------------------- MODULE DependencyGraph ---------------------------
(***************************************************************************)
(* The graph of what compiled code relies on (jit/src/runtime/             *)
(* invalidate.rs).  A node is a compiled function, or a shape or prototype *)
(* token of the engine; an edge goes from a node to each node it was       *)
(* compiled against.  Invalidating a node invalidates every node that      *)
(* reaches it.                                                             *)
(***************************************************************************)
EXTENDS Integers, FiniteSets

CONSTANTS
  FunctionNode,      \* DependencyKey::Function keys
  TokenId,           \* identities of shapes and prototypes
  TokenGeneration,   \* generations a token can have
  NodeVersion        \* versions a function node is installed with

ASSUME GraphAssumption ==
  /\ TokenGeneration \subseteq Nat \ {0}
  /\ NodeVersion \subseteq Nat
  /\ FunctionNode \cap (TokenId \X TokenGeneration) = {}

(* A ShapeToken or PrototypeDependencyToken: an identity and a generation. *)
Token == TokenId \X TokenGeneration

DependencyKey == FunctionNode \cup Token

VARIABLES
  nodes,              \* keys that have a DependencyNode
  valid,              \* nodes whose `valid` flag is set
  version,
  dependencies,
  reverse,
  token_generation    \* shape_generations and prototype_generations; 0: none

graphVars == <<nodes, valid, version, dependencies, reverse, token_generation>>

GraphInit ==
  /\ nodes = {}
  /\ valid = {}
  /\ version = [k \in DependencyKey |-> 0]
  /\ dependencies = [k \in DependencyKey |-> {}]
  /\ reverse = [k \in DependencyKey |-> {}]
  /\ token_generation = [t \in TokenId |-> 0]

------------------------------------------------------------------------------

(* `install` accepts: no version regression, no stale dependency. *)
CanInstall(k, v, ds) ==
  /\ k \in nodes => v >= version[k]
  /\ ds \subseteq valid

(* The old dependencies forget k before the new ones learn of it. *)
InstallNode(k, v, ds) ==
  /\ nodes' = nodes \cup {k}
  /\ version' = [version EXCEPT ![k] = v]
  /\ dependencies' = [dependencies EXCEPT ![k] = ds]
  /\ reverse' = [d \in DependencyKey |->
                   IF d \in ds THEN reverse[d] \cup {k} ELSE reverse[d] \ {k}]

Install(k, v, ds) ==
  /\ CanInstall(k, v, ds)
  /\ InstallNode(k, v, ds)
  /\ valid' = valid \cup {k}
  /\ UNCHANGED token_generation

ClosedUnderReverse(S) == \A k \in S : reverse[k] \subseteq S

(* Faulty Affected: the walk stops at the direct dependents, *)
AffectedDirectly(root) == {root} \cup reverse[root]

(* or does not start.                                                       *)
AffectedAlone(root) == {root}

(* What the breadth-first walk over reverse edges from `root` visits. *)
Affected(root) ==
  {k \in DependencyKey :
     \A S \in SUBSET DependencyKey : root \in S /\ ClosedUnderReverse(S) => k \in S}

Invalidate(root) ==
  /\ valid' = valid \ Affected(root)
  /\ UNCHANGED <<nodes, version, dependencies, reverse, token_generation>>

(* Faulty Publish: the generation replaced stays valid. *)
PublishBeside(t, g) ==
  /\ g > token_generation[t]
  /\ InstallNode(<<t, g>>, g, {})
  /\ valid' = valid \cup {<<t, g>>}
  /\ token_generation' = [token_generation EXCEPT ![t] = g]

(* publish_shape and publish_prototype.  A newer generation invalidates the *)
(* current one and all that rests on it, then becomes a node of its own; an *)
(* older or unchanged generation changes nothing.                           *)
Publish(t, g) ==
  LET current == token_generation[t]
  IN  /\ g > current
      /\ InstallNode(<<t, g>>, g, {})
      /\ valid' = (IF current = 0 THEN valid ELSE valid \ Affected(<<t, current>>))
                    \cup {<<t, g>>}
      /\ token_generation' = [token_generation EXCEPT ![t] = g]

GraphNext ==
  \/ \E k \in FunctionNode, v \in NodeVersion, ds \in SUBSET DependencyKey : Install(k, v, ds)
  \/ \E k \in DependencyKey : Invalidate(k)
  \/ \E t \in TokenId, g \in TokenGeneration : Publish(t, g)

GraphSpec == GraphInit /\ [][GraphNext]_graphVars

------------------------------------------------------------------------------
(* Properties. *)

(* The types of the graph's fields. *)
GraphTypeOK ==
  /\ nodes \subseteq DependencyKey
  /\ valid \subseteq nodes
  /\ version \in [DependencyKey -> Nat]
  /\ dependencies \in [DependencyKey -> SUBSET DependencyKey]
  /\ reverse \in [DependencyKey -> SUBSET DependencyKey]
  /\ token_generation \in [TokenId -> {0} \cup TokenGeneration]

(* The two edge maps stay inverse to each other when a node is reinstalled  *)
(* with other dependencies; an edge missing from `reverse` would hide a     *)
(* dependent from invalidation.                                             *)
ReverseIsInverse ==
  \A k, d \in DependencyKey : d \in dependencies[k] <=> k \in reverse[d]

(* A valid node rests on valid nodes only, whatever was invalidated,        *)
(* published or reinstalled since it was installed.                         *)
ValidRestsOnValid == \A k \in valid : dependencies[k] \subseteq valid

(* Of a shape or prototype only the generation last published can be valid. *)
OnlyPublishedTokenIsValid ==
  \A t \in TokenId, g \in TokenGeneration :
    <<t, g>> \in valid => token_generation[t] = g

(* An installed version of a node never goes back. *)
VersionsNeverRegress ==
  [][\A k \in nodes : version'[k] >= version[k]]_graphVars
==============================================================================
