------------------- MODULE BaseMessageLoopRefinementProofs -------------------
(***************************************************************************)
(* Proof, for every IdSpace >= 2, that BaseMessageLoop implements the      *)
(* abstract TaskScheduler under the mapping of BaseMessageLoopRefinement.  *)
(* The mapping needs RefInv: without TasksDisjoint a canceled delayed entry *)
(* could hide a live watch of the same id, and without RunningNotScheduled *)
(* erasing the entry of a running closure could drop a scheduled task.     *)
(***************************************************************************)
EXTENDS BaseMessageLoopRefinement, BaseMessageLoopProofs, TLAPS

\* The ids the abstract scheduler hands out are the non-null TaskIds.
LEMMA IdsCover == TaskIds = (TaskIds \ {kTaskIdNull}) \cup {0}
BY IdSpaceAssumption DEF TaskIds, kTaskIdNull

\* Emplacing a key that is absent and erasing it again restores the map.
LEMMA EmplaceErase ==
  ASSUME NEW D, NEW f \in [D -> BOOLEAN], NEW k, k \notin D, NEW v
  PROVE  Erase(Emplace(f, k, v), k) = f
BY DEF Emplace, Erase

LEMMA RefInvInit == Init => RefInv
<1> SUFFICES ASSUME Init PROVE RefInv
  OBVIOUS
<1>1. TypeOK
  BY TypeOKInit
<1>2. TasksDisjoint /\ RunningNotScheduled
  BY DEF Init, TasksDisjoint, RunningNotScheduled, NoTask
<1>3. QED
  BY <1>1, <1>2 DEF RefInv

LEMMA RefInvNext == RefInv /\ [Next]_vars => RefInv'
<1> SUFFICES ASSUME RefInv, [Next]_vars PROVE RefInv'
  OBVIOUS
<1> USE IdSpaceAssumption
<1>0. TypeOK /\ TasksDisjoint /\ RunningNotScheduled
  BY DEF RefInv
<1>1. TypeOK'
  BY <1>0, TypeOKNext
<1> SUFFICES TasksDisjoint' /\ RunningNotScheduled'
  BY <1>1 DEF RefInv
<1>2. CASE PostDelayedTask
  <2>1. NextTaskId \in TaskIds /\ Free(NextTaskId)
    BY <1>0, <1>2, NextTaskIdFree DEF PostDelayedTask, TypeOK
  <2>2. CASE delayed_tasks' = Emplace(delayed_tasks, NextTaskId, TRUE)
    <3>1. DOMAIN delayed_tasks' = DOMAIN delayed_tasks \cup {NextTaskId}
      BY <2>2 DEF Emplace
    <3>2. \A x \in DOMAIN delayed_tasks : delayed_tasks'[x] = delayed_tasks[x]
      BY <2>2 DEF Emplace
    <3>3. QED
      BY <1>0, <1>2, <2>1, <3>1, <3>2
         DEF PostDelayedTask, Free, TasksDisjoint, RunningNotScheduled
  <2>3. CASE UNCHANGED delayed_tasks
    BY <1>0, <1>2, <2>3 DEF PostDelayedTask, TasksDisjoint, RunningNotScheduled
  <2>4. QED
    BY <1>2, <2>2, <2>3 DEF PostDelayedTask
<1>3. CASE WatchFileDescriptor
  <2>1. NextTaskId \in TaskIds /\ Free(NextTaskId)
    BY <1>0, <1>3, NextTaskIdFree DEF WatchFileDescriptor, TypeOK
  <2>2. DOMAIN io_tasks' \subseteq DOMAIN io_tasks \cup {NextTaskId}
    BY <1>3 DEF WatchFileDescriptor, Emplace, Erase
  <2>3. QED
    BY <1>0, <1>3, <2>1, <2>2
       DEF WatchFileDescriptor, Free, TasksDisjoint, RunningNotScheduled
<1>4. ASSUME NEW id \in TaskIds, CancelTask(id) PROVE TasksDisjoint' /\ RunningNotScheduled'
  <2>1. CASE delayed_tasks' = [delayed_tasks EXCEPT ![id] = FALSE] /\ UNCHANGED io_tasks
    BY <1>0, <1>4, <2>1 DEF CancelTask, TasksDisjoint, RunningNotScheduled
  <2>2. CASE io_tasks' = Erase(io_tasks, id) /\ UNCHANGED delayed_tasks
    BY <1>0, <1>4, <2>2 DEF CancelTask, TasksDisjoint, RunningNotScheduled, Erase
  <2>3. CASE UNCHANGED <<delayed_tasks, io_tasks>>
    BY <1>0, <1>4, <2>3 DEF CancelTask, TasksDisjoint, RunningNotScheduled
  <2>4. QED
    BY <1>4, <2>1, <2>2, <2>3 DEF CancelTask
<1>5. ASSUME NEW may_block \in BOOLEAN, RunOnce(may_block)
      PROVE  TasksDisjoint' /\ RunningNotScheduled'
  BY <1>0, <1>5 DEF RunOnce, TasksDisjoint, RunningNotScheduled
<1>6. CASE Run
  BY <1>0, <1>6 DEF Run, TasksDisjoint, RunningNotScheduled
<1>7. CASE LoopReturn
  BY <1>0, <1>7 DEF LoopReturn, TasksDisjoint, RunningNotScheduled
<1>8. ASSUME NEW id \in TaskIds, OnRanPostedTask(id)
      PROVE  TasksDisjoint' /\ RunningNotScheduled'
  <2>1. CASE delayed_tasks[id]
    BY <1>0, <1>8, <2>1 DEF OnRanPostedTask, TasksDisjoint, RunningNotScheduled
  <2>2. CASE ~delayed_tasks[id]
    BY <1>0, <1>8, <2>2 DEF OnRanPostedTask, TasksDisjoint, RunningNotScheduled, Erase
  <2>3. QED
    BY <2>1, <2>2
<1>9. ASSUME NEW id \in TaskIds, OnFileReady(id)
      PROVE  TasksDisjoint' /\ RunningNotScheduled'
  BY <1>0, <1>9 DEF OnFileReady, TasksDisjoint, RunningNotScheduled, Erase
<1>10. CASE DelayedClosureReturn
  BY <1>0, <1>10 DEF DelayedClosureReturn, TasksDisjoint, RunningNotScheduled,
                     Erase, NoTask
<1>11. CASE IoClosureReturn
  BY <1>0, <1>11 DEF IoClosureReturn, TasksDisjoint, RunningNotScheduled, NoTask
<1>12. CASE BreakLoop
  BY <1>0, <1>12 DEF BreakLoop, TasksDisjoint, RunningNotScheduled
<1>13. CASE Destroy
  BY <1>0, <1>13 DEF Destroy, TasksDisjoint, RunningNotScheduled
<1>14. CASE UNCHANGED vars
  BY <1>0, <1>14 DEF vars, TasksDisjoint, RunningNotScheduled
<1>15. QED
  BY <1>2, <1>3, <1>4, <1>5, <1>6, <1>7, <1>8, <1>9, <1>10, <1>11, <1>12,
     <1>13, <1>14 DEF Next

-----------------------------------------------------------------------------
(* The refinement.  A step that changes neither map, nor whether a closure *)
(* runs, nor cancel_ret, nor whether the loop exists, is an abstract       *)
(* stutter; every other step is one abstract step.                         *)

\* With both maps unchanged, the scheduled tasks are unchanged.
LEMMA MapsUnchanged ==
  ASSUME UNCHANGED <<delayed_tasks, io_tasks>>
  PROVE  MappedTasks' = MappedTasks
BY DEF MappedTasks, Scheduled

LEMMA MappedDomain == DOMAIN MappedTasks = Scheduled
BY DEF MappedTasks

LEMMA StutterStep ==
  ASSUME UNCHANGED <<delayed_tasks, io_tasks, cancel_ret>>,
         (pc' = "cb") = (pc = "cb"),
         (pc' # "destroyed") = (pc # "destroyed")
  PROVE  UNCHANGED TS!vars
BY MapsUnchanged DEF TS!vars

LEMMA InitRefines == Init => TS!Init
<1> SUFFICES ASSUME Init PROVE TS!Init
  OBVIOUS
<1>1. Scheduled = {}
  BY DEF Init, Scheduled
<1>2. MappedTasks = [i \in {} |-> FALSE]
  BY <1>1 DEF MappedTasks
<1>3. QED
  BY <1>2 DEF Init, TS!Init

LEMMA NextRefines == RefInv /\ [Next]_vars => [TS!Next]_TS!vars
<1> SUFFICES ASSUME RefInv, [Next]_vars PROVE [TS!Next]_TS!vars
  OBVIOUS
<1> USE IdSpaceAssumption
<1>0. TypeOK /\ TasksDisjoint /\ RunningNotScheduled
  BY DEF RefInv
<1> DEFINE Ids == TaskIds \ {kTaskIdNull}
<1>1. CASE PostDelayedTask
  <2> DEFINE n == NextTaskId
  <2>1. n \in Ids /\ Free(n)
    BY <1>0, <1>1, NextTaskIdFree DEF PostDelayedTask, TypeOK, Free
  <2>2. CASE delayed_tasks' = Emplace(delayed_tasks, n, TRUE)
    <3>1. /\ DOMAIN delayed_tasks' = DOMAIN delayed_tasks \cup {n}
          /\ delayed_tasks'[n]
          /\ \A x \in DOMAIN delayed_tasks : delayed_tasks'[x] = delayed_tasks[x]
      BY <2>1, <2>2 DEF Emplace, Free
    <3>2. Scheduled' = Scheduled \cup {n}
      BY <1>1, <3>1 DEF PostDelayedTask, Scheduled
    <3>3. n \notin Scheduled /\ n \notin DOMAIN io_tasks
      BY <2>1 DEF Free, Scheduled
    <3>4. MappedTasks' = [x \in Scheduled \cup {n} |->
                            IF x = n THEN FALSE ELSE MappedTasks[x]]
      BY <1>1, <3>2, <3>3 DEF PostDelayedTask, MappedTasks
    <3>5. TS!Schedule(n, FALSE)
      BY <1>1, <3>3, <3>4 DEF PostDelayedTask, ApiCallers, TS!Schedule, MappedTasks
    <3>6. QED
      BY <2>1, <3>5 DEF TS!Next
  <2>3. CASE UNCHANGED delayed_tasks
    BY <1>1, <2>3, StutterStep DEF PostDelayedTask
  <2>4. QED
    BY <1>1, <2>2, <2>3 DEF PostDelayedTask
<1>2. CASE WatchFileDescriptor
  <2> DEFINE n == NextTaskId
  <2>1. n \in Ids /\ Free(n)
    BY <1>0, <1>2, NextTaskIdFree DEF WatchFileDescriptor, TypeOK, Free
  <2>2. PICK persistent \in BOOLEAN, scheduled \in BOOLEAN :
          io_tasks' = IF scheduled
                        THEN Emplace(io_tasks, n, persistent)
                        ELSE Erase(Emplace(io_tasks, n, persistent), n)
    BY <1>2 DEF WatchFileDescriptor
  <2>3. CASE scheduled
    <3>1. /\ DOMAIN io_tasks' = DOMAIN io_tasks \cup {n}
          /\ io_tasks'[n] = persistent
          /\ \A x \in DOMAIN io_tasks : io_tasks'[x] = io_tasks[x]
      BY <2>1, <2>2, <2>3 DEF Emplace, Free
    <3>2. Scheduled' = Scheduled \cup {n}
      BY <1>2, <3>1 DEF WatchFileDescriptor, Scheduled
    <3>3. n \notin Scheduled /\ n \notin DOMAIN io_tasks
      BY <2>1 DEF Free, Scheduled
    <3>4. MappedTasks' = [x \in Scheduled \cup {n} |->
                            IF x = n THEN persistent ELSE MappedTasks[x]]
      BY <1>2, <3>1, <3>2, <3>3 DEF WatchFileDescriptor, MappedTasks
    <3>5. TS!Schedule(n, persistent)
      BY <1>2, <3>3, <3>4 DEF WatchFileDescriptor, ApiCallers, TS!Schedule, MappedTasks
    <3>6. QED
      BY <2>1, <3>5 DEF TS!Next
  <2>4. CASE ~scheduled
    <3>1. io_tasks' = io_tasks
      BY <1>0, <2>1, <2>2, <2>4, EmplaceErase DEF Free, TypeOK
    <3>2. QED
      BY <1>2, <3>1, StutterStep DEF WatchFileDescriptor
  <2>5. QED
    BY <2>3, <2>4
<1>3. ASSUME NEW id \in TaskIds, CancelTask(id) PROVE [TS!Next]_TS!vars
  <2>1. TS!Cancel(id) => TS!Next
    BY IdsCover DEF TS!Next
  <2>2. pc \in ApiCallers /\ UNCHANGED <<pc>>
    BY <1>3 DEF CancelTask
  <2>3. CASE /\ id # kTaskIdNull /\ id \in DOMAIN delayed_tasks /\ delayed_tasks[id]
             /\ delayed_tasks' = [delayed_tasks EXCEPT ![id] = FALSE]
             /\ cancel_ret' = TRUE /\ UNCHANGED io_tasks
    <3>1. id \notin DOMAIN io_tasks
      BY <1>0, <2>3 DEF TasksDisjoint
    <3>2. Scheduled' = Scheduled \ {id} /\ id \in Scheduled
      BY <2>3, <3>1 DEF Scheduled
    <3>3. MappedTasks' = [x \in Scheduled \ {id} |-> MappedTasks[x]]
      BY <2>3, <3>2 DEF MappedTasks
    <3>4. TS!Cancel(id)
      BY <1>3, <2>2, <2>3, <3>2, <3>3 DEF CancelTask, ApiCallers, TS!Cancel, MappedTasks
    <3>5. QED
      BY <2>1, <3>4
  <2>4. CASE /\ id # kTaskIdNull /\ id \notin DOMAIN delayed_tasks /\ id \in DOMAIN io_tasks
             /\ io_tasks' = Erase(io_tasks, id)
             /\ cancel_ret' = TRUE /\ UNCHANGED delayed_tasks
    <3>1. Scheduled' = Scheduled \ {id} /\ id \in Scheduled
      BY <2>4 DEF Scheduled, Erase
    <3>2. MappedTasks' = [x \in Scheduled \ {id} |-> MappedTasks[x]]
      BY <2>4, <3>1 DEF MappedTasks, Erase
    <3>3. TS!Cancel(id)
      BY <1>3, <2>2, <2>4, <3>1, <3>2 DEF CancelTask, ApiCallers, TS!Cancel, MappedTasks
    <3>4. QED
      BY <2>1, <3>3
  <2>5. CASE /\ \/ id = kTaskIdNull
                \/ id \in DOMAIN delayed_tasks /\ ~delayed_tasks[id]
                \/ id \notin LiveIds
             /\ cancel_ret' = FALSE
             /\ UNCHANGED <<delayed_tasks, io_tasks>>
    <3>1. id \notin Scheduled
      BY <1>0, <2>5 DEF TypeOK, TasksDisjoint, LiveIds, Scheduled
    <3>2. MappedTasks' = [x \in Scheduled \ {id} |-> MappedTasks[x]]
      BY <2>5, <3>1, MapsUnchanged DEF MappedTasks
    <3>3. /\ pc \in ApiCallers /\ pc' = pc
      BY <1>3, <2>2 DEF CancelTask
    <3>4. cancel_ret' = (id \in DOMAIN MappedTasks)
      <4>1. cancel_ret' = FALSE
        BY <2>5
      <4>2. id \notin DOMAIN MappedTasks
        BY <3>1, MappedDomain
      <4>3. (id \in DOMAIN MappedTasks) = FALSE
        BY <4>2
      <4>4. QED
        BY <4>1, <4>3
    <3>5. MappedTasks' = [x \in DOMAIN MappedTasks \ {id} |-> MappedTasks[x]]
      BY <3>2, MappedDomain
    <3>6. TS!Cancel(id)
      BY <3>3, <3>4, <3>5 DEF ApiCallers, TS!Cancel
    <3>7. QED
      BY <2>1, <3>6
  <2>6. QED
    BY <1>3, <2>3, <2>4, <2>5 DEF CancelTask
<1>4. ASSUME NEW may_block \in BOOLEAN, RunOnce(may_block) PROVE [TS!Next]_TS!vars
  BY <1>4, StutterStep DEF RunOnce
<1>5. CASE Run
  BY <1>5, StutterStep DEF Run
<1>6. CASE LoopReturn
  BY <1>6, StutterStep DEF LoopReturn
<1>7. CASE BreakLoop
  BY <1>7, StutterStep DEF BreakLoop
<1>8. ASSUME NEW id \in TaskIds, OnRanPostedTask(id) PROVE [TS!Next]_TS!vars
  <2>1. id \in DOMAIN delayed_tasks /\ id \notin DOMAIN io_tasks /\ pc = "loop"
    BY <1>0, <1>8 DEF OnRanPostedTask, TasksDisjoint
  <2>2. CASE delayed_tasks[id]
    <3>1. delayed_tasks' = [delayed_tasks EXCEPT ![id] = FALSE] /\ pc' = "cb"
      BY <1>8, <2>2 DEF OnRanPostedTask
    <3>2. Scheduled' = Scheduled \ {id} /\ id \in Scheduled
      BY <1>8, <2>1, <2>2, <3>1 DEF OnRanPostedTask, Scheduled
    <3>3. MappedTasks' = [x \in Scheduled \ {id} |-> MappedTasks[x]]
      BY <1>8, <3>1, <3>2 DEF OnRanPostedTask, MappedTasks
    <3>4. ~MappedTasks[id]
      BY <2>1, <3>2 DEF MappedTasks
    <3>5. TS!Start(id)
      BY <1>8, <2>1, <3>1, <3>2, <3>3, <3>4 DEF OnRanPostedTask, TS!Start, MappedTasks
    <3>6. QED
      BY <3>5, <2>1, <1>0 DEF TS!Next, TypeOK
  <2>3. CASE ~delayed_tasks[id]
    <3>1. delayed_tasks' = Erase(delayed_tasks, id) /\ UNCHANGED <<pc, io_tasks, cancel_ret>>
      BY <1>8, <2>3 DEF OnRanPostedTask
    <3>2. Scheduled' = Scheduled
      BY <2>1, <2>3, <3>1 DEF Scheduled, Erase
    <3>3. MappedTasks' = MappedTasks
      BY <3>1, <3>2 DEF MappedTasks
    <3>4. QED
      BY <3>1, <3>3 DEF TS!vars
  <2>4. QED
    BY <2>2, <2>3
<1>9. ASSUME NEW id \in TaskIds, OnFileReady(id) PROVE [TS!Next]_TS!vars
  <2>1. /\ id \in DOMAIN io_tasks /\ pc = "loop" /\ pc' = "cb"
        /\ UNCHANGED <<delayed_tasks, cancel_ret>>
    BY <1>9 DEF OnFileReady
  <2>2. id \in Scheduled /\ MappedTasks[id] = io_tasks[id]
    BY <1>0, <2>1 DEF Scheduled, MappedTasks, TypeOK
  <2>3. CASE io_tasks[id]
    <3>1. io_tasks' = io_tasks
      BY <1>9, <2>3 DEF OnFileReady
    <3>2. TS!Start(id)
      BY <2>1, <2>2, <2>3, <3>1, MapsUnchanged, MappedDomain DEF TS!Start
    <3>3. QED
      BY <3>2, <2>1, <1>0 DEF TS!Next, TypeOK
  <2>4. CASE ~io_tasks[id]
    <3>1. io_tasks' = Erase(io_tasks, id)
      BY <1>9, <2>4 DEF OnFileReady
    <3>2. id \notin DOMAIN delayed_tasks
      BY <1>0, <2>1 DEF TasksDisjoint
    <3>3. Scheduled' = Scheduled \ {id}
      BY <2>1, <3>1, <3>2 DEF Scheduled, Erase
    <3>4. MappedTasks' = [x \in Scheduled \ {id} |-> MappedTasks[x]]
      BY <2>1, <3>1, <3>3 DEF MappedTasks, Erase
    <3>5. TS!Start(id)
      BY <2>1, <2>2, <2>4, <3>4, MappedDomain DEF TS!Start
    <3>6. QED
      BY <3>5, <2>1, <1>0 DEF TS!Next, TypeOK
  <2>5. QED
    BY <2>3, <2>4
<1>10. CASE DelayedClosureReturn
  <2>1. /\ pc = "cb" /\ pc' = "loop" /\ cur.kind = "delayed"
        /\ delayed_tasks' = Erase(delayed_tasks, cur.id)
        /\ UNCHANGED <<io_tasks, cancel_ret>>
    BY <1>10 DEF DelayedClosureReturn
  <2>2. cur.id \in DOMAIN delayed_tasks /\ ~delayed_tasks[cur.id]
    BY <1>0, <2>1 DEF RunningNotScheduled
  <2>3. Scheduled' = Scheduled
    BY <2>1, <2>2 DEF Scheduled, Erase
  <2>4. MappedTasks' = MappedTasks
    BY <2>1, <2>3 DEF MappedTasks
  <2>5. TS!Finish
    BY <2>1, <2>4 DEF TS!Finish
  <2>6. QED
    BY <2>5 DEF TS!Next
<1>11. CASE IoClosureReturn
  <2>1. /\ pc = "cb" /\ pc' = "loop"
        /\ UNCHANGED <<delayed_tasks, io_tasks, cancel_ret>>
    BY <1>11 DEF IoClosureReturn
  <2>2. TS!Finish
    BY <2>1, MapsUnchanged DEF TS!Finish
  <2>3. QED
    BY <2>2 DEF TS!Next
<1>12. CASE Destroy
  <2>1. /\ pc = "client" /\ pc' = "destroyed"
        /\ delayed_tasks' = [i \in {} |-> TRUE] /\ io_tasks' = [i \in {} |-> TRUE]
        /\ UNCHANGED cancel_ret
    BY <1>12 DEF Destroy
  <2>2. MappedTasks' = [i \in {} |-> FALSE]
    BY <2>1 DEF MappedTasks, Scheduled
  <2>3. TS!Destroy
    BY <2>1, <2>2 DEF TS!Destroy
  <2>4. QED
    BY <2>3 DEF TS!Next
<1>13. CASE UNCHANGED vars
  BY <1>13, StutterStep DEF vars
<1>14. QED
  BY <1>1, <1>2, <1>3, <1>4, <1>5, <1>6, <1>7, <1>8, <1>9, <1>10, <1>11, <1>12,
     <1>13 DEF Next

\* BaseMessageLoop implements the MessageLoop task contract (see
\* ImplementsScheduler): CancelTask succeeds exactly for a scheduled task,
\* canceled tasks never run, one-shot tasks run at most once, closures do
\* not nest, and destruction drops every task, for every size of the
\* TaskId range.
THEOREM Refinement == Spec => ImplementsScheduler
<1>1. Init => RefInv /\ TS!Init
  BY RefInvInit, InitRefines
<1>2. RefInv /\ [Next]_vars => RefInv' /\ [TS!Next]_TS!vars
  BY RefInvNext, NextRefines
<1>3. QED
  BY <1>1, <1>2, PTL DEF Spec, ImplementsScheduler, TS!Spec

=============================================================================
