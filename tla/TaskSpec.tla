------------------------------ MODULE TaskSpec ------------------------------
(***************************************************************************)
(* What devkit::executor promises a task: it gets a turn only after it was *)
(* woken, one turn at a time, one turn for all the wakeups before it, and  *)
(* none once it is done.  Spawning it wakes it for the first time.         *)
(***************************************************************************)
CONSTANT Tasks

VARIABLES owed,     \* woken since its last turn began
          running,  \* having a turn
          done      \* finished, aborted or dropped with its executor

vars == <<owed, running, done>>

Init ==
  /\ owed = [t \in Tasks |-> FALSE]
  /\ running = [t \in Tasks |-> FALSE]
  /\ done = [t \in Tasks |-> FALSE]

Wake(t) ==
  /\ owed' = [owed EXCEPT ![t] = TRUE]
  /\ UNCHANGED <<running, done>>

StartTurn(t) ==
  /\ owed[t] /\ ~running[t] /\ ~done[t]
  /\ owed' = [owed EXCEPT ![t] = FALSE]
  /\ running' = [running EXCEPT ![t] = TRUE]
  /\ UNCHANGED done

EndTurn(t) ==
  /\ running[t]
  /\ running' = [running EXCEPT ![t] = FALSE]
  /\ UNCHANGED <<owed, done>>

\* The last turn settles every wakeup.
Finish(t) ==
  /\ running[t]
  /\ running' = [running EXCEPT ![t] = FALSE]
  /\ owed' = [owed EXCEPT ![t] = FALSE]
  /\ done' = [done EXCEPT ![t] = TRUE]

\* The executor goes, or has gone when the task is spawned.
Dropped(t) ==
  /\ ~running[t]
  /\ \E o \in {owed[t], TRUE} : owed' = [owed EXCEPT ![t] = o]
  /\ done' = [done EXCEPT ![t] = TRUE]
  /\ UNCHANGED running

Next ==
  \E t \in Tasks : Wake(t) \/ StartTurn(t) \/ EndTurn(t) \/ Finish(t) \/ Dropped(t)

Spec == Init /\ [][Next]_vars
=============================================================================
