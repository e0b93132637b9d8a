----------------------- MODULE BaseMessageLoopRefinement -----------------------
(***************************************************************************)
(* BaseMessageLoop implements the abstract TaskScheduler.  A task is       *)
(* scheduled while its delayed_tasks_ entry still holds a non-null closure *)
(* or while its IOTask exists; a closure is running while the loop is in a *)
(* callback; the loop is alive until its destructor ran.                   *)
(***************************************************************************)
EXTENDS BaseMessageLoop

\* The ids the client may still cancel with success.
Scheduled == {i \in DOMAIN delayed_tasks : delayed_tasks[i]} \cup DOMAIN io_tasks
\* A scheduled task is persistent only if it is a persistent watch.
MappedTasks == [i \in Scheduled |-> i \in DOMAIN io_tasks /\ io_tasks[i]]

TS == INSTANCE TaskScheduler WITH
        Ids <- TaskIds \ {kTaskIdNull},
        tasks <- MappedTasks,
        running <- (pc = "cb"),
        cancel_ret <- cancel_ret,
        alive <- (pc # "destroyed")

\* BaseMessageLoop keeps the MessageLoop task contract: CancelTask returns
\* true exactly for a task that is still scheduled (a delayed task whose
\* closure was moved out to run, or a one-shot watch that erased itself
\* before running, is no longer scheduled), a canceled task never runs, a
\* one-shot task runs at most once, and closures never nest.
ImplementsScheduler == TS!Spec

\* What the refinement needs beyond TypeOK, and keeps: no id is both a
\* delayed task and a watch (NextTaskId checks both maps), and the entry of
\* a running delayed closure holds a null closure.
TasksDisjoint == DOMAIN delayed_tasks \cap DOMAIN io_tasks = {}
RunningNotScheduled ==
  pc = "cb" /\ cur.kind = "delayed" =>
    cur.id \in DOMAIN delayed_tasks /\ ~delayed_tasks[cur.id]
RefInv == TypeOK /\ TasksDisjoint /\ RunningNotScheduled
=============================================================================
