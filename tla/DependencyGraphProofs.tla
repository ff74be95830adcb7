------------------------ MODULE DependencyGraphProofs ------------------------
(***************************************************************************)
(* Proofs about DependencyGraph for any set of functions, tokens and       *)
(* versions.  The walk of `invalidate` follows reverse edges while the     *)
(* promise is about dependencies, so ValidRestsOnValid is inductive only   *)
(* together with ReverseIsInverse.                                         *)
(***************************************************************************)
EXTENDS DependencyGraph, TLAPS

GraphInv == GraphTypeOK /\ ReverseIsInverse /\ ValidRestsOnValid

(* The walk of `invalidate` starts at its root. *)
LEMMA AffectedHasRoot ==
  ASSUME NEW root \in DependencyKey
  PROVE  root \in Affected(root)
BY DEF Affected

(* The walk leaves out nothing that depends on what it visits. *)
LEMMA AffectedIsClosed ==
  ASSUME GraphTypeOK, NEW root \in DependencyKey
  PROVE  ClosedUnderReverse(Affected(root))
BY DEF GraphTypeOK, Affected, ClosedUnderReverse

(* So what remains valid after an invalidation rests on what remains valid. *)
LEMMA InvalidationKeepsSupport ==
  ASSUME GraphInv, NEW root \in DependencyKey,
         NEW k \in valid \ Affected(root)
  PROVE  dependencies[k] \subseteq valid \ Affected(root)
<1>1. k \in DependencyKey /\ dependencies[k] \subseteq valid
  BY DEF GraphInv, GraphTypeOK, ValidRestsOnValid
<1>2. ASSUME NEW d \in dependencies[k], d \in Affected(root)
      PROVE  FALSE
  <2>1. d \in DependencyKey /\ k \in reverse[d]
    BY <1>1, <1>2 DEF GraphInv, GraphTypeOK, ReverseIsInverse
  <2>2. k \in Affected(root)
    BY <1>2, <2>1, AffectedIsClosed DEF ClosedUnderReverse, GraphInv
  <2> QED BY <2>2
<1> QED BY <1>1, <1>2

(* Reinstalling a node moves its edges in both maps alike. *)
LEMMA InstallNodeKeepsInverse ==
  ASSUME GraphTypeOK, ReverseIsInverse,
         NEW k \in DependencyKey, NEW v \in Nat, NEW ds \in SUBSET DependencyKey,
         InstallNode(k, v, ds)
  PROVE  ReverseIsInverse'
BY DEF GraphTypeOK, ReverseIsInverse, InstallNode

LEMMA InstallKeepsInv ==
  ASSUME GraphInv, NEW k \in FunctionNode, NEW v \in NodeVersion,
         NEW ds \in SUBSET DependencyKey, Install(k, v, ds)
  PROVE  GraphInv'
<1>1. k \in DependencyKey /\ v \in Nat
  BY GraphAssumption DEF DependencyKey
<1>2. GraphTypeOK'
  BY <1>1 DEF GraphInv, GraphTypeOK, Install, InstallNode
<1>3. ReverseIsInverse'
  BY <1>1, InstallNodeKeepsInverse DEF GraphInv, Install
<1>4. ValidRestsOnValid'
  BY <1>1 DEF GraphInv, GraphTypeOK, ValidRestsOnValid, Install, InstallNode, CanInstall
<1> QED BY <1>2, <1>3, <1>4 DEF GraphInv

LEMMA InvalidateKeepsInv ==
  ASSUME GraphInv, NEW root \in DependencyKey, Invalidate(root)
  PROVE  GraphInv'
<1>1. GraphTypeOK' /\ ReverseIsInverse'
  BY DEF GraphInv, GraphTypeOK, ReverseIsInverse, Invalidate
<1>2. ValidRestsOnValid'
  BY InvalidationKeepsSupport DEF ValidRestsOnValid, Invalidate
<1> QED BY <1>1, <1>2 DEF GraphInv

LEMMA PublishKeepsInv ==
  ASSUME GraphInv, NEW t \in TokenId, NEW g \in TokenGeneration, Publish(t, g)
  PROVE  GraphInv'
<1> DEFINE current == token_generation[t]
           kept == IF current = 0 THEN valid ELSE valid \ Affected(<<t, current>>)
           key == <<t, g>>
<1>1. key \in DependencyKey /\ g \in Nat
  BY GraphAssumption DEF DependencyKey, Token
<1>2. current # 0 => <<t, current>> \in DependencyKey
  BY DEF GraphInv, GraphTypeOK, DependencyKey, Token
<1>3. valid' = kept \cup {key} /\ InstallNode(key, g, {})
  BY DEF Publish
<1>4. GraphTypeOK'
  <2>1. kept \subseteq nodes
    BY DEF GraphInv, GraphTypeOK
  <2>2. token_generation' \in [TokenId -> {0} \cup TokenGeneration]
    BY DEF GraphInv, GraphTypeOK, Publish
  <2> HIDE DEF kept, key
  <2>3. nodes' \subseteq DependencyKey /\ valid' \subseteq nodes'
    BY <1>1, <1>3, <2>1 DEF GraphInv, GraphTypeOK, InstallNode
  <2>4. version' \in [DependencyKey -> Nat]
    BY <1>1, <1>3 DEF GraphInv, GraphTypeOK, InstallNode
  <2>5. dependencies' \in [DependencyKey -> SUBSET DependencyKey]
    BY <1>1, <1>3 DEF GraphInv, GraphTypeOK, InstallNode
  <2>6. reverse' \in [DependencyKey -> SUBSET DependencyKey]
    BY <1>1, <1>3 DEF GraphInv, GraphTypeOK, InstallNode
  <2> QED BY <2>2, <2>3, <2>4, <2>5, <2>6 DEF GraphTypeOK
<1>5. ReverseIsInverse'
  BY <1>1, <1>3, InstallNodeKeepsInverse DEF GraphInv
<1>6. ASSUME NEW k \in kept
      PROVE  dependencies[k] \subseteq kept
  BY <1>2, InvalidationKeepsSupport DEF GraphInv, ValidRestsOnValid
<1>7. dependencies' = [dependencies EXCEPT ![key] = {}]
  BY <1>3 DEF InstallNode
<1>8. ValidRestsOnValid'
  <2> HIDE DEF kept, key
  <2> QED BY <1>1, <1>3, <1>6, <1>7 DEF GraphInv, GraphTypeOK, ValidRestsOnValid
<1> QED BY <1>4, <1>5, <1>8 DEF GraphInv

(* In every reachable graph the edge maps are inverse to each other and     *)
(* valid code rests on valid code: `install`, `invalidate` and `publish_*`  *)
(* together keep both, for any number of functions and tokens.              *)
THEOREM GraphCorrect == GraphSpec => []GraphInv
<1>1. GraphInit => GraphInv
  BY DEF GraphInit, GraphInv, GraphTypeOK, ReverseIsInverse, ValidRestsOnValid
<1>2. GraphInv /\ [GraphNext]_graphVars => GraphInv'
  <2> SUFFICES ASSUME GraphInv, [GraphNext]_graphVars PROVE GraphInv'
    OBVIOUS
  <2>1. CASE UNCHANGED graphVars
    BY <2>1 DEF graphVars, GraphInv, GraphTypeOK, ReverseIsInverse, ValidRestsOnValid
  <2>2. CASE GraphNext
    BY <2>2, InstallKeepsInv, InvalidateKeepsInv, PublishKeepsInv DEF GraphNext
  <2> QED BY <2>1, <2>2
<1> QED BY <1>1, <1>2, PTL DEF GraphSpec

(* Valid code rests on valid code. *)
THEOREM ValidCodeRestsOnValidCode == GraphSpec => []ValidRestsOnValid
<1>1. GraphInv => ValidRestsOnValid
  BY DEF GraphInv
<1> QED BY <1>1, GraphCorrect, PTL

------------------------------------------------------------------------------
(* Versions.  A token's node carries the token's generation as its version. *)

TokenInv ==
  /\ GraphTypeOK
  /\ OnlyPublishedTokenIsValid
  /\ \A t \in TokenId, g \in TokenGeneration : <<t, g>> \in nodes => version[<<t, g>>] = g

LEMMA InstallKeepsTokenInv ==
  ASSUME GraphInv, TokenInv, NEW k \in FunctionNode, NEW v \in NodeVersion,
         NEW ds \in SUBSET DependencyKey, Install(k, v, ds)
  PROVE  TokenInv'
<1>1. \A t \in TokenId, g \in TokenGeneration : <<t, g>> # k /\ <<t, g>> \in DependencyKey
  BY GraphAssumption DEF DependencyKey, Token
<1>2. GraphTypeOK'
  BY InstallKeepsInv DEF GraphInv
<1>3. OnlyPublishedTokenIsValid'
  BY <1>1 DEF TokenInv, OnlyPublishedTokenIsValid, Install
<1>4. (\A t \in TokenId, g \in TokenGeneration : <<t, g>> \in nodes => version[<<t, g>>] = g)'
  BY <1>1 DEF TokenInv, GraphTypeOK, Install, InstallNode
<1> QED BY <1>2, <1>3, <1>4 DEF TokenInv

LEMMA PublishKeepsTokenInv ==
  ASSUME GraphInv, TokenInv, NEW t \in TokenId, NEW g \in TokenGeneration, Publish(t, g)
  PROVE  TokenInv'
<1>1. \A u \in TokenId, h \in TokenGeneration : <<u, h>> \in DependencyKey
  BY DEF DependencyKey, Token
<1>2. GraphTypeOK'
  BY PublishKeepsInv DEF GraphInv
<1>3. ASSUME NEW u \in TokenId, NEW h \in TokenGeneration, <<u, h>> \in valid'
      PROVE  token_generation'[u] = h
  <2>1. CASE <<u, h>> = <<t, g>>
    BY <2>1 DEF Publish, TokenInv, GraphTypeOK
  <2>2. CASE <<u, h>> # <<t, g>>
    <3>1. <<u, h>> \in valid /\ token_generation[u] = h
      BY <1>3, <2>2 DEF Publish, TokenInv, OnlyPublishedTokenIsValid
    <3>2. CASE u = t
      <4>1. h # 0 /\ <<u, h>> \in Affected(<<u, h>>)
        BY <1>1, GraphAssumption, AffectedHasRoot
      <4> QED BY <1>3, <2>2, <3>1, <3>2, <4>1 DEF Publish
    <3>3. CASE u # t
      BY <3>1, <3>3 DEF Publish, TokenInv, GraphTypeOK
    <3> QED BY <3>2, <3>3
  <2> QED BY <2>1, <2>2
<1>4. (\A u \in TokenId, h \in TokenGeneration : <<u, h>> \in nodes => version[<<u, h>>] = h)'
  BY <1>1 DEF TokenInv, GraphTypeOK, Publish, InstallNode
<1> QED BY <1>2, <1>3, <1>4 DEF TokenInv, OnlyPublishedTokenIsValid

(* Publishing a generation leaves no other generation of the token valid. *)
LEMMA TokenCorrect == GraphSpec => []TokenInv
<1>1. GraphInit => TokenInv
  BY DEF GraphInit, TokenInv, GraphTypeOK, OnlyPublishedTokenIsValid
<1>2. GraphInv /\ TokenInv /\ [GraphNext]_graphVars => TokenInv'
  <2> SUFFICES ASSUME GraphInv, TokenInv, [GraphNext]_graphVars PROVE TokenInv'
    OBVIOUS
  <2>1. CASE UNCHANGED graphVars
    BY <2>1 DEF graphVars, TokenInv, GraphTypeOK, OnlyPublishedTokenIsValid
  <2>2. ASSUME NEW root \in DependencyKey, Invalidate(root) PROVE TokenInv'
    BY <2>2 DEF Invalidate, TokenInv, GraphTypeOK, OnlyPublishedTokenIsValid
  <2>3. CASE GraphNext
    BY <2>2, <2>3, InstallKeepsTokenInv, PublishKeepsTokenInv DEF GraphNext
  <2> QED BY <2>1, <2>3
<1> QED BY <1>1, <1>2, GraphCorrect, PTL DEF GraphSpec

(* Only the generation last published of a shape or prototype is valid. *)
THEOREM OnlyNewestTokenIsValid == GraphSpec => []OnlyPublishedTokenIsValid
<1>1. TokenInv => OnlyPublishedTokenIsValid
  BY DEF TokenInv
<1> QED BY <1>1, TokenCorrect, PTL

(* No operation moves a node's version back. *)
THEOREM VersionsAreMonotone == GraphSpec => VersionsNeverRegress
<1>1. TokenInv /\ [GraphNext]_graphVars
        => [\A k \in nodes : version'[k] >= version[k]]_graphVars
  <2> SUFFICES ASSUME TokenInv, GraphNext, NEW k \in nodes
               PROVE  version'[k] >= version[k]
    OBVIOUS
  <2>1. k \in DependencyKey /\ version[k] \in Nat
    BY DEF TokenInv, GraphTypeOK
  <2>2. ASSUME NEW f \in FunctionNode, NEW v \in NodeVersion, NEW ds \in SUBSET DependencyKey,
               Install(f, v, ds)
        PROVE  version'[k] >= version[k]
    BY <2>1, <2>2 DEF Install, CanInstall, InstallNode, TokenInv, GraphTypeOK
  <2>3. ASSUME NEW root \in DependencyKey, Invalidate(root)
        PROVE  version'[k] >= version[k]
    BY <2>1, <2>3 DEF Invalidate
  <2>4. ASSUME NEW t \in TokenId, NEW g \in TokenGeneration, Publish(t, g)
        PROVE  version'[k] >= version[k]
    BY <2>1, <2>4 DEF Publish, InstallNode, TokenInv, GraphTypeOK
  <2> QED BY <2>2, <2>3, <2>4 DEF GraphNext
<1> QED BY <1>1, TokenCorrect, PTL DEF GraphSpec, VersionsNeverRegress
==============================================================================
