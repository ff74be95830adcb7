------------------------------ MODULE TaskQueue ------------------------------
(***************************************************************************)
(* What the scheduler of the async runtime promises about spawned futures: *)
(* a task that was woken is polled again or dropped, and a dropped one is  *)
(* never polled.                                                           *)
(***************************************************************************)
CONSTANT Task

VARIABLES
  live,   \* tasks whose future was not dropped
  ready   \* tasks woken since they were last polled

vars == <<live, ready>>

Init == live = {} /\ ready = {}

Spawn(t) ==
  /\ t \notin live
  /\ live' = live \cup {t} /\ ready' = ready \cup {t}

Wake(t) ==
  /\ t \in live /\ t \notin ready
  /\ ready' = ready \cup {t} /\ UNCHANGED live

Poll(t) ==
  /\ t \in ready
  /\ ready' = ready \ {t} /\ UNCHANGED live

Drop(t) ==
  /\ t \in live
  /\ live' = live \ {t} /\ ready' = ready \ {t}

Next == \E t \in Task : Spawn(t) \/ Wake(t) \/ Poll(t) \/ Drop(t)

Spec == Init /\ [][Next]_vars /\ \A t \in Task : WF_vars(Poll(t))
=============================================================================
