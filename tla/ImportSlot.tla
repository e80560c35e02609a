----------------------------- MODULE ImportSlot -----------------------------
(***************************************************************************)
(* What cancel-and-replace promises for one company, seen through          *)
(* import_tasks alone: a single slot.  A new task takes the slot and ends  *)
(* whatever held it in the same step; a task that has ended stays ended.   *)
(***************************************************************************)
CONSTANTS Task, NoTask

VARIABLES
  current,  \* the PENDING or PROCESSING task, or NoTask
  ended     \* tasks in a terminal status

vars == <<current, ended>>

Held == {current} \ {NoTask}

Init == current = NoTask /\ ended = {}

\* A fresh task replaces the one in flight, if any.
Begin(t) ==
  /\ t \notin ended \cup {current}
  /\ current' = t
  /\ ended' = ended \cup Held

\* The task in flight is completed or cancelled.
End ==
  /\ current # NoTask
  /\ current' = NoTask
  /\ ended' = ended \cup {current}

\* A fresh task is created only to record that it failed, after the task in
\* flight has been cancelled for it.
Refuse(t) ==
  /\ t \notin ended \cup {current}
  /\ current' = NoTask
  /\ ended' = ended \cup Held \cup {t}

Next == End \/ \E t \in Task : Begin(t) \/ Refuse(t)

Spec == Init /\ [][Next]_vars
=============================================================================
