--------------------------- MODULE CompileService ---------------------------
(***************************************************************************)
(* What the coordinator assumes of the compile workers: a request it hands *)
(* over stays outstanding until its completion is applied; completions are *)
(* applied in any order, several in one drain, each of them once; and a    *)
(* request that was handed over never returns to the queue.  The action    *)
(* Complete of module Coordinator and its variable `outstanding` rest on   *)
(* this.                                                                   *)
(***************************************************************************)
CONSTANT Job

VARIABLES
  waiting,      \* requests not handed over
  outstanding,  \* requests handed over, their completions not applied
  decided       \* requests whose completion was applied

serviceVars == <<waiting, outstanding, decided>>

ServiceInit == waiting = Job /\ outstanding = {} /\ decided = {}

HandOver(j) ==
  /\ j \in waiting
  /\ waiting' = waiting \ {j}
  /\ outstanding' = outstanding \cup {j}
  /\ UNCHANGED decided

Apply(S) ==
  /\ S # {} /\ S \subseteq outstanding
  /\ outstanding' = outstanding \ S
  /\ decided' = decided \cup S
  /\ UNCHANGED waiting

ServiceNext ==
  \/ \E j \in Job : HandOver(j)
  \/ \E S \in SUBSET Job : Apply(S)

ServiceSpec == ServiceInit /\ [][ServiceNext]_serviceVars
=============================================================================
