---------------------------- MODULE MCEntryCache ----------------------------
(* EntryCache on a small instance.  The functions are interchangeable. *)
EXTENDS EntryCache, TLC

Symmetry == Permutations(Function)
=============================================================================
