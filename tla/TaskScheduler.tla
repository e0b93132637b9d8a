--------------------------- MODULE TaskScheduler ---------------------------
(***************************************************************************)
(* What a chromeos::MessageLoop promises its clients about tasks,          *)
(* independent of how BaseMessageLoop stores them: a task is scheduled     *)
(* under a fresh id; CancelTask succeeds exactly when the task is still    *)
(* scheduled, and then it never runs; the loop runs one task at a time; a  *)
(* one-shot task (a delayed task or a non-persistent watch) is no longer   *)
(* scheduled once it starts, a persistent watch stays scheduled; deleting  *)
(* the loop drops every task.  Readiness and timing are left open.         *)
(***************************************************************************)
EXTENDS Integers

CONSTANTS
  Ids   \* the task ids a loop may hand out (kTaskIdNull excluded)

VARIABLES
  tasks,       \* scheduled task id -> persistent
  running,     \* a task's closure is running
  cancel_ret,  \* result of the last CancelTask
  alive        \* the loop has not been destroyed

vars == <<tasks, running, cancel_ret, alive>>

Init ==
  /\ tasks = [i \in {} |-> FALSE]
  /\ running = FALSE
  /\ cancel_ret = FALSE
  /\ alive = TRUE

\* PostDelayedTask / WatchFileDescriptor: schedule a task under a fresh id.
Schedule(id, persistent) ==
  /\ alive
  /\ id \notin DOMAIN tasks
  /\ tasks' = [x \in DOMAIN tasks \cup {id} |->
                 IF x = id THEN persistent ELSE tasks[x]]
  /\ UNCHANGED <<running, cancel_ret, alive>>

\* CancelTask: succeeds exactly for a scheduled task, which is dropped.
Cancel(id) ==
  /\ alive
  /\ cancel_ret' = (id \in DOMAIN tasks)
  /\ tasks' = [x \in DOMAIN tasks \ {id} |-> tasks[x]]
  /\ UNCHANGED <<running, alive>>

\* The loop starts a scheduled task; a one-shot task stops being scheduled.
Start(id) ==
  /\ alive
  /\ ~running
  /\ id \in DOMAIN tasks
  /\ running' = TRUE
  /\ tasks' = IF tasks[id] THEN tasks
              ELSE [x \in DOMAIN tasks \ {id} |-> tasks[x]]
  /\ UNCHANGED <<cancel_ret, alive>>

\* The running closure returns.
Finish ==
  /\ running
  /\ running' = FALSE
  /\ UNCHANGED <<tasks, cancel_ret, alive>>

\* The loop is deleted while no closure runs: every task is dropped.
Destroy ==
  /\ alive
  /\ ~running
  /\ alive' = FALSE
  /\ tasks' = [i \in {} |-> FALSE]
  /\ UNCHANGED <<running, cancel_ret>>

Next ==
  \/ \E id \in Ids, p \in BOOLEAN : Schedule(id, p)
  \/ \E id \in Ids \cup {0} : Cancel(id)
  \/ \E id \in Ids : Start(id)
  \/ Finish
  \/ Destroy

Spec == Init /\ [][Next]_vars
=============================================================================
