---------------------------- MODULE MCCodeCache ----------------------------
(* Model-checking instance of CodeCache, with the sizes a compiler can       *)
(* produce, and of the memory the cached code lives in.  A behaviour has one *)
(* subject: the cache, or the memory.                                        *)
EXTENDS CodeCache, ExecutableMemory, TLC

VARIABLE subject

mcVars == <<subject, cacheVars, memoryVars>>

UnitSizes == {[code |-> 1, metadata |-> 0], [code |-> 1, metadata |-> 1]}

Init == subject \in {"cache", "memory"} /\ CacheInit /\ MemoryInit

CacheStep == subject = "cache" /\ CacheNext /\ UNCHANGED <<subject, memoryVars>>

MemoryStep == subject = "memory" /\ MemoryNext /\ UNCHANGED <<subject, cacheVars>>

Next == CacheStep \/ MemoryStep

Spec == Init /\ [][Next]_mcVars

Symmetry == Permutations(Code) \cup Permutations(Owner)
=============================================================================
