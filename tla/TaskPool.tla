------------------------------- MODULE TaskPool -------------------------------
(***************************************************************************)
(* What users of util/Pool.h rely on, without queue, condition variable or *)
(* end-of-work marker: a task that is handed in is run at most once, and   *)
(* the pool is gone only when every task handed in before its destruction  *)
(* began has been run to the end.  Tasks that running tasks hand in        *)
(* during the destruction may or may not be run.                           *)
(***************************************************************************)
CONSTANT Tasks

VARIABLES
  pending,   \* handed in, not started
  running,   \* started, not finished
  done,      \* finished
  early,     \* handed in before the destruction began
  phase      \* of the pool: "live", "closing", "gone"

vars == <<pending, running, done, early, phase>>

Init == /\ pending = {} /\ running = {} /\ done = {} /\ early = {}
        /\ phase = "live"

Submit(t) ==
  /\ phase # "gone"
  /\ t \notin pending \cup running \cup done
  /\ pending' = pending \cup {t}
  /\ early' = IF phase = "live" THEN early \cup {t} ELSE early
  /\ UNCHANGED <<running, done, phase>>

Start(t) ==
  /\ phase # "gone"
  /\ t \in pending
  /\ pending' = pending \ {t}
  /\ running' = running \cup {t}
  /\ UNCHANGED <<done, early, phase>>

Finish(t) ==
  /\ t \in running
  /\ running' = running \ {t}
  /\ done' = done \cup {t}
  /\ UNCHANGED <<pending, early, phase>>

Close ==
  /\ phase = "live"
  /\ phase' = "closing"
  /\ UNCHANGED <<pending, running, done, early>>

Vanish ==
  /\ phase = "closing"
  /\ early \subseteq done
  /\ running = {}
  /\ phase' = "gone"
  /\ UNCHANGED <<pending, running, done, early>>

Next == \/ \E t \in Tasks : Submit(t) \/ Start(t) \/ Finish(t)
        \/ Close \/ Vanish

Spec == Init /\ [][Next]_vars
=============================================================================
