------------------------ MODULE MCBackgroundCompiler ------------------------
(* Model-checking instances of BackgroundCompiler. *)
EXTENDS BackgroundCompiler

(* Request n has a snapshot of n bytes and retains one byte of inline bodies. *)
OwnBytes == [j \in Job |-> j]

UnitBytes == [j \in Job |-> 1]
=============================================================================
