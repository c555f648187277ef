------------------------------ MODULE RunQueue ------------------------------
(***************************************************************************)
(* What the scheduler does for its callers: the tasks handed to it queue   *)
(* up, and each switch hands the processor to the first of the queue.      *)
(***************************************************************************)
EXTENDS Naturals, Sequences

CONSTANT MaxTasks

VARIABLES
  queue,    \* tasks that have not had the processor, first to get it first
  current   \* the task that has the processor

vars == <<queue, current>>

Init == queue = <<>> /\ current = 0

(* Task numbers are handed out in order. *)
Submit ==
  LET t == current + Len(queue) + 1
  IN  /\ t < MaxTasks
      /\ queue' = Append(queue, t)
      /\ UNCHANGED current

Dispatch ==
  /\ queue # <<>>
  /\ current' = Head(queue)
  /\ queue' = Tail(queue)

Next == Submit \/ Dispatch

Spec == Init /\ [][Next]_vars
=============================================================================
