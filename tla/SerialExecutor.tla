--------------------------- MODULE SerialExecutor ---------------------------
(***************************************************************************)
(* What the task queue of a connection promises: tasks begin in the order  *)
(* they were submitted, one at a time; once the owner is closing, tasks    *)
(* may be discarded; when the release has returned nothing is waiting,     *)
(* nothing runs but a task that asked for the release itself, and nothing  *)
(* begins any more.  TaskDrain implements this specification.              *)
(***************************************************************************)
EXTENDS Sequences

CONSTANTS Tasks, NoTask

VARIABLES
  waiting,  \* submitted tasks, oldest first
  current,  \* the task that runs, or NoTask
  phase,    \* "open", "closing" or "released"
  by        \* the running task that asked for the release, or NoTask

execVars == <<waiting, current, phase, by>>

Init ==
  /\ waiting = <<>>
  /\ current = NoTask
  /\ phase = "open"
  /\ by = NoTask

Submit(k) ==
  /\ phase # "released"
  /\ waiting' = Append(waiting, k)
  /\ UNCHANGED <<current, phase, by>>

Begin ==
  /\ phase # "released"
  /\ current = NoTask
  /\ waiting # <<>>
  /\ current' = Head(waiting)
  /\ waiting' = Tail(waiting)
  /\ UNCHANGED <<phase, by>>

End ==
  /\ current # NoTask
  /\ by # NoTask => phase = "released"
  /\ current' = NoTask
  /\ by' = NoTask
  /\ UNCHANGED <<waiting, phase>>

StartRelease ==
  /\ phase = "open"
  /\ phase' = "closing"
  /\ by' \in {NoTask, current}
  /\ UNCHANGED <<waiting, current>>

Discard ==
  /\ phase = "closing"
  /\ waiting # <<>>
  /\ waiting' = Tail(waiting)
  /\ UNCHANGED <<current, phase, by>>

FinishRelease ==
  /\ phase = "closing"
  /\ waiting = <<>>
  /\ current = by
  /\ phase' = "released"
  /\ UNCHANGED <<waiting, current, by>>

Next ==
  \/ \E k \in Tasks : Submit(k)
  \/ Begin
  \/ End
  \/ StartRelease
  \/ Discard
  \/ FinishRelease

Spec == Init /\ [][Next]_execVars
=============================================================================
