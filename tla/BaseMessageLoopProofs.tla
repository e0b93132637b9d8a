------------------------ MODULE BaseMessageLoopProofs ------------------------
(***************************************************************************)
(* Proofs about BaseMessageLoop for every IdSpace >= 2: type correctness,  *)
(* and that delayed_tasks_ and the base loop's pending notifications stay  *)
(* in one-to-one correspondence (DelayedMatchesTimers), and that RunOnce   *)
(* reports exactly one closure run (RunOnceReportsOneClosure).             *)
(***************************************************************************)
EXTENDS BaseMessageLoop, WellFoundedInduction, TLAPS

\* Every non-empty set of naturals has a least element.
LEMMA NatSetHasMin ==
  ASSUME NEW T \in SUBSET Nat, T # {}
  PROVE  \E x \in T : \A y \in T : x <= y
<1>1. PICK x \in T : \A y \in T : ~(<<y, x>> \in OpToRel(<, Nat))
  BY NatLessThanWellFounded, WFMin
<1>2. ASSUME NEW y \in T PROVE x <= y
  <2>1. <<y, x>> \in Nat \X Nat /\ ~(<<y, x>> \in OpToRel(<, Nat))
    BY <1>1
  <2>2. ~(y < x)
    BY <2>1 DEF OpToRel
  <2>3. QED
    BY <2>2
<1>3. QED
  BY <1>2

\* When some id is free, the do-while loop of NextTaskId stops at a free,
\* hence non-null, id of the TaskId range.
LEMMA NextTaskIdFree ==
  ASSUME last_id \in TaskIds, IdAvailable
  PROVE  /\ NextTaskId \in TaskIds
         /\ Free(NextTaskId)
<1> USE IdSpaceAssumption
<1> DEFINE Ok(k) == Free(Candidate(k))
           T == {k \in 1 .. IdSpace : Ok(k)}
<1>1. PICK i \in TaskIds : Free(i)
  BY DEF IdAvailable
<1>2. \E k \in 1 .. IdSpace : Candidate(k) = i
  <2> DEFINE k0 == IF i > last_id THEN i - last_id ELSE i - last_id + IdSpace
  <2>1. k0 \in 1 .. IdSpace /\ Candidate(k0) = i
    BY <1>1 DEF TaskIds, Candidate
  <2>2. QED
    BY <2>1
<1>3. T # {} /\ T \subseteq Nat
  BY <1>1, <1>2
<1>4. PICK m \in T : \A y \in T : m <= y
  BY <1>3, NatSetHasMin
<1>5. \E k \in 1 .. IdSpace : Ok(k) /\ \A j \in 1 .. k - 1 : ~Ok(j)
  BY <1>4
<1>6. PICK k \in 1 .. IdSpace : NextTaskId = Candidate(k) /\ Ok(k)
  BY <1>5 DEF NextTaskId
<1>7. Candidate(k) \in TaskIds
  BY DEF Candidate, TaskIds
<1>8. QED
  BY <1>6, <1>7

\* std::map emplace and erase on a map to BOOLEAN.
LEMMA EmplaceFacts ==
  ASSUME NEW D, NEW f \in [D -> BOOLEAN], NEW k, NEW v \in BOOLEAN
  PROVE  /\ Emplace(f, k, v) \in [D \cup {k} -> BOOLEAN]
         /\ DOMAIN Emplace(f, k, v) = D \cup {k}
         /\ \A x \in D : Emplace(f, k, v)[x] = f[x]
BY DEF Emplace

LEMMA EraseFacts ==
  ASSUME NEW D, NEW f \in [D -> BOOLEAN], NEW k
  PROVE  /\ Erase(f, k) \in [D \ {k} -> BOOLEAN]
         /\ DOMAIN Erase(f, k) = D \ {k}
         /\ \A x \in D \ {k} : Erase(f, k)[x] = f[x]
BY DEF Erase

\* The run_once_ epilogue keeps the two flags Boolean.
LEMMA EpilogueType ==
  ASSUME run_once \in BOOLEAN, quit \in BOOLEAN, RunOnceEpilogue
  PROVE  run_once' \in BOOLEAN /\ quit' \in BOOLEAN
<1>1. CASE run_once
  BY <1>1 DEF RunOnceEpilogue
<1>2. CASE ~run_once
  BY <1>2 DEF RunOnceEpilogue
<1>3. QED
  BY <1>1, <1>2

\* TypeOK is inductive.
LEMMA TypeOKInit == Init => TypeOK
<1> SUFFICES ASSUME Init PROVE TypeOK
  OBVIOUS
<1>1. NoTask \in Closures
  BY IdSpaceAssumption DEF NoTask, Closures, TaskIds, kTaskIdNull
<1>2. timers \in [TaskIds -> Nat] /\ last_id \in TaskIds
  BY IdSpaceAssumption DEF Init, TaskIds
<1>3. DOMAIN delayed_tasks = {} /\ DOMAIN io_tasks = {}
  BY DEF Init
<1>4. delayed_tasks \in [{} -> BOOLEAN] /\ io_tasks \in [{} -> BOOLEAN]
  BY DEF Init
<1>5. QED
  BY <1>1, <1>2, <1>3, <1>4 DEF Init, TypeOK

LEMMA TypeOKNext == TypeOK /\ [Next]_vars => TypeOK'
<1> SUFFICES ASSUME TypeOK, [Next]_vars PROVE TypeOK'
  OBVIOUS
<1> USE IdSpaceAssumption
<1> DEFINE D == DOMAIN delayed_tasks
           IO == DOMAIN io_tasks
<1>0. /\ delayed_tasks \in [D -> BOOLEAN]
      /\ io_tasks \in [IO -> BOOLEAN]
  BY DEF TypeOK
<1>1. CASE PostDelayedTask
  <2>1. NextTaskId \in TaskIds /\ Free(NextTaskId)
    BY <1>1, NextTaskIdFree DEF PostDelayedTask, TypeOK
  <2>2. NextTaskId # kTaskIdNull
    BY <2>1 DEF Free
  <2>3. CASE timers' = [timers EXCEPT ![NextTaskId] = @ + 1]
             /\ delayed_tasks' = Emplace(delayed_tasks, NextTaskId, TRUE)
    <3>1. delayed_tasks' \in [D \cup {NextTaskId} -> BOOLEAN]
      BY <2>3, <1>0, EmplaceFacts
    <3>2. timers' \in [TaskIds -> Nat]
      BY <2>1, <2>3 DEF TypeOK
    <3>3. QED
      BY <1>1, <2>1, <2>2, <3>1, <3>2 DEF PostDelayedTask, TypeOK
  <2>4. CASE UNCHANGED <<timers, delayed_tasks>>
    BY <1>1, <2>1, <2>4 DEF PostDelayedTask, TypeOK
  <2>5. QED
    BY <1>1, <2>3, <2>4 DEF PostDelayedTask
<1>2. CASE WatchFileDescriptor
  <2>1. PICK persistent \in BOOLEAN, scheduled \in BOOLEAN :
          /\ IdAvailable
          /\ last_id' = NextTaskId
          /\ io_tasks' = IF scheduled
                           THEN Emplace(io_tasks, NextTaskId, persistent)
                           ELSE Erase(Emplace(io_tasks, NextTaskId, persistent), NextTaskId)
    BY <1>2 DEF WatchFileDescriptor
  <2>2. NextTaskId \in TaskIds /\ NextTaskId # kTaskIdNull
    BY <2>1, NextTaskIdFree DEF TypeOK, Free
  <2>3. Emplace(io_tasks, NextTaskId, persistent) \in [IO \cup {NextTaskId} -> BOOLEAN]
    BY <1>0, EmplaceFacts
  <2>4. Erase(Emplace(io_tasks, NextTaskId, persistent), NextTaskId)
          \in [(IO \cup {NextTaskId}) \ {NextTaskId} -> BOOLEAN]
    BY <2>3, EraseFacts
  <2>5. io_tasks' \in [DOMAIN io_tasks' -> BOOLEAN]
        /\ DOMAIN io_tasks' \subseteq TaskIds \ {kTaskIdNull}
    BY <2>1, <2>2, <2>3, <2>4 DEF TypeOK
  <2>6. QED
    BY <1>2, <2>1, <2>2, <2>5 DEF WatchFileDescriptor, TypeOK
<1>3. ASSUME NEW id \in TaskIds, CancelTask(id) PROVE TypeOK'
  <2>1. CASE io_tasks' = Erase(io_tasks, id) /\ UNCHANGED delayed_tasks
    <3>1. io_tasks' \in [DOMAIN io_tasks' -> BOOLEAN]
          /\ DOMAIN io_tasks' \subseteq TaskIds \ {kTaskIdNull}
      BY <1>0, <2>1 DEF TypeOK, Erase
    <3>2. QED
      BY <1>3, <2>1, <3>1 DEF CancelTask, TypeOK
  <2>2. CASE delayed_tasks' = [delayed_tasks EXCEPT ![id] = FALSE] /\ UNCHANGED io_tasks
    BY <1>3, <2>2 DEF CancelTask, TypeOK
  <2>3. CASE UNCHANGED <<delayed_tasks, io_tasks>>
    BY <1>3, <2>3 DEF CancelTask, TypeOK
  <2>4. QED
    BY <1>3, <2>1, <2>2, <2>3 DEF CancelTask
<1>4. ASSUME NEW may_block \in BOOLEAN, RunOnce(may_block) PROVE TypeOK'
  BY <1>4 DEF RunOnce, TypeOK
<1>5. CASE Run
  BY <1>5 DEF Run, TypeOK
<1>6. CASE LoopReturn
  BY <1>6 DEF LoopReturn, TypeOK
<1>7. ASSUME NEW id \in TaskIds, OnRanPostedTask(id) PROVE TypeOK'
  <2>1. timers' \in [TaskIds -> Nat]
    BY <1>7 DEF OnRanPostedTask, TypeOK
  <2>2. CASE delayed_tasks[id]
    <3>1. cur' \in Closures /\ ran' \in 0 .. 2
      <4>1. cur' = [kind |-> "delayed", id |-> id, persistent |-> FALSE]
        BY <1>7, <2>2 DEF OnRanPostedTask
      <4>2. ran' = RanInc
        BY <1>7, <2>2 DEF OnRanPostedTask
      <4>3. QED
        BY <4>1, <4>2 DEF TypeOK, Closures, RanInc
    <3>2. QED
      BY <1>7, <2>1, <2>2, <3>1 DEF OnRanPostedTask, TypeOK
  <2>3. CASE ~delayed_tasks[id]
    BY <1>0, <1>7, <2>1, <2>3 DEF OnRanPostedTask, TypeOK, Erase
  <2>4. QED
    BY <2>2, <2>3
<1>8. ASSUME NEW id \in TaskIds, OnFileReady(id) PROVE TypeOK'
  <2>1. cur' \in Closures /\ ran' \in 0 .. 2
    BY <1>0, <1>8 DEF OnFileReady, TypeOK, Closures, RanInc
  <2>2. io_tasks' \in [DOMAIN io_tasks' -> BOOLEAN]
        /\ DOMAIN io_tasks' \subseteq TaskIds \ {kTaskIdNull}
    BY <1>0, <1>8 DEF OnFileReady, TypeOK, Erase
  <2>3. QED
    BY <1>8, <2>1, <2>2 DEF OnFileReady, TypeOK
<1>9. CASE DelayedClosureReturn
  <2>1. delayed_tasks' \in [DOMAIN delayed_tasks' -> BOOLEAN]
        /\ DOMAIN delayed_tasks' \subseteq TaskIds \ {kTaskIdNull}
    BY <1>0, <1>9 DEF DelayedClosureReturn, TypeOK, Erase
  <2>2. cur' \in Closures /\ run_once' \in BOOLEAN /\ quit' \in BOOLEAN
    BY <1>9, EpilogueType, IdSpaceAssumption DEF DelayedClosureReturn, TypeOK,
                                   NoTask, Closures, kTaskIdNull, TaskIds
  <2>3. QED
    BY <1>9, <2>1, <2>2 DEF DelayedClosureReturn, TypeOK
<1>13. CASE IoClosureReturn
  <2>1. cur' \in Closures /\ run_once' \in BOOLEAN /\ quit' \in BOOLEAN
    BY <1>13, EpilogueType, IdSpaceAssumption DEF IoClosureReturn, TypeOK,
                                    NoTask, Closures, kTaskIdNull, TaskIds
  <2>2. QED
    BY <1>13, <2>1 DEF IoClosureReturn, TypeOK
<1>14. CASE Destroy
  BY <1>14, IdSpaceAssumption DEF Destroy, TypeOK
<1>10. CASE BreakLoop
  BY <1>10 DEF BreakLoop, TypeOK
<1>11. CASE UNCHANGED vars
  BY <1>11 DEF vars, TypeOK
<1>12. QED
  BY <1>1, <1>2, <1>3, <1>4, <1>5, <1>6, <1>7, <1>8, <1>9, <1>10, <1>11, <1>13,
     <1>14 DEF Next

\* The model's variables always keep their types.
THEOREM TypeCorrect == Spec => []TypeOK
BY TypeOKInit, TypeOKNext, PTL DEF Spec


-----------------------------------------------------------------------------
(* DelayedMatchesTimers.  It is not inductive by itself: a closure that is *)
(* running keeps its entry without a pending notification, and the proof  *)
(* of DelayedClosureReturn needs to know that none is pending for it either.      *)

RunningHasNoTimer == \A i \in TaskIds : RunningDelayed(i) => timers[i] = 0

DelayedInv == TypeOK /\ DelayedMatchesTimers /\ RunningHasNoTimer

\* The per-id form of DelayedInv's two non-type conjuncts.
IdOk(i) ==
  /\ timers[i] <= 1
  /\ (i \in DOMAIN delayed_tasks) <=> (timers[i] = 1 \/ RunningDelayed(i))
  /\ RunningDelayed(i) => timers[i] = 0

LEMMA DelayedInvInit == Init => DelayedInv
<1> SUFFICES ASSUME Init PROVE DelayedInv
  OBVIOUS
<1>1. TypeOK
  BY TypeOKInit
<1>2. \A i \in TaskIds : IdOk(i)
  BY DEF Init, IdOk, RunningDelayed, NoTask
<1>3. QED
  BY <1>1, <1>2 DEF DelayedInv, IdOk, DelayedMatchesTimers, RunningHasNoTimer

LEMMA DelayedInvNext == DelayedInv /\ [Next]_vars => DelayedInv'
<1> SUFFICES ASSUME DelayedInv, [Next]_vars PROVE DelayedInv'
  OBVIOUS
<1> USE IdSpaceAssumption
<1>0. TypeOK /\ \A i \in TaskIds : IdOk(i)
  BY DEF DelayedInv, DelayedMatchesTimers, RunningHasNoTimer, IdOk
<1>1. TypeOK'
  BY <1>0, TypeOKNext
<1> SUFFICES ASSUME NEW i \in TaskIds PROVE IdOk(i)'
  BY <1>1 DEF DelayedInv, DelayedMatchesTimers, RunningHasNoTimer, IdOk
<1>2. CASE PostDelayedTask
  <2> DEFINE n == NextTaskId
  <2>1. n \in TaskIds /\ Free(n)
    BY <1>0, <1>2, NextTaskIdFree DEF PostDelayedTask, TypeOK
  <2>2. timers[n] = 0 /\ ~RunningDelayed(n)
    BY <1>0, <2>1 DEF IdOk, Free, TypeOK
  <2>3. CASE timers' = [timers EXCEPT ![n] = @ + 1]
             /\ delayed_tasks' = Emplace(delayed_tasks, n, TRUE)
    <3>1. DOMAIN delayed_tasks' = DOMAIN delayed_tasks \cup {n}
      BY <2>3 DEF Emplace
    <3>2. timers'[i] = IF i = n THEN 1 ELSE timers[i]
      BY <2>1, <2>2, <2>3, <1>0 DEF TypeOK
    <3>3. RunningDelayed(i)' = RunningDelayed(i)
      BY <1>2 DEF PostDelayedTask, RunningDelayed
    <3>4. QED
      BY <1>0, <2>2, <3>1, <3>2, <3>3 DEF IdOk
  <2>4. CASE UNCHANGED <<timers, delayed_tasks>>
    BY <1>0, <1>2, <2>4 DEF PostDelayedTask, IdOk, RunningDelayed
  <2>5. QED
    BY <1>2, <2>3, <2>4 DEF PostDelayedTask
<1>3. CASE WatchFileDescriptor
  BY <1>0, <1>3 DEF WatchFileDescriptor, IdOk, RunningDelayed
<1>4. ASSUME NEW id \in TaskIds, CancelTask(id) PROVE IdOk(i)'
  <2>1. DOMAIN delayed_tasks' = DOMAIN delayed_tasks
    BY <1>4 DEF CancelTask
  <2>2. QED
    BY <1>0, <1>4, <2>1 DEF CancelTask, IdOk, RunningDelayed
<1>5. ASSUME NEW may_block \in BOOLEAN, RunOnce(may_block) PROVE IdOk(i)'
  BY <1>0, <1>5 DEF RunOnce, IdOk, RunningDelayed
<1>6. CASE Run
  BY <1>0, <1>6 DEF Run, IdOk, RunningDelayed
<1>7. CASE LoopReturn
  BY <1>0, <1>7 DEF LoopReturn, IdOk, RunningDelayed
<1>8. ASSUME NEW id \in TaskIds, OnRanPostedTask(id) PROVE IdOk(i)'
  <2>1. timers[id] = 1 /\ timers'[id] = 0 /\ pc = "loop"
    BY <1>0, <1>8 DEF OnRanPostedTask, IdOk, TypeOK
  <2>2. i # id => timers'[i] = timers[i]
    BY <1>0, <1>8 DEF OnRanPostedTask, TypeOK
  <2>3. CASE delayed_tasks[id]
    <3>1. DOMAIN delayed_tasks' = DOMAIN delayed_tasks
      BY <1>8, <2>3 DEF OnRanPostedTask
    <3>2. RunningDelayed(i)' <=> i = id
      BY <1>8, <2>3 DEF OnRanPostedTask, RunningDelayed
    <3>3. ~RunningDelayed(i)
      BY <2>1 DEF RunningDelayed
    <3>4. QED
      BY <1>0, <2>1, <2>2, <3>1, <3>2, <3>3 DEF IdOk
  <2>4. CASE ~delayed_tasks[id]
    <3>1. DOMAIN delayed_tasks' = DOMAIN delayed_tasks \ {id}
      BY <1>8, <2>4 DEF OnRanPostedTask, Erase
    <3>2. RunningDelayed(i)' = RunningDelayed(i) /\ ~RunningDelayed(i)
      BY <1>8, <2>1, <2>4 DEF OnRanPostedTask, RunningDelayed
    <3>3. QED
      BY <1>0, <2>1, <2>2, <3>1, <3>2 DEF IdOk
  <2>5. QED
    BY <2>3, <2>4
<1>9. ASSUME NEW id \in TaskIds, OnFileReady(id) PROVE IdOk(i)'
  <2>1. ~RunningDelayed(i)' /\ ~RunningDelayed(i)
    BY <1>9 DEF OnFileReady, RunningDelayed
  <2>2. QED
    BY <1>0, <1>9, <2>1 DEF OnFileReady, IdOk
<1>10. CASE DelayedClosureReturn
  <2>1. ~RunningDelayed(i)'
    BY <1>10 DEF DelayedClosureReturn, RunningDelayed, NoTask
  <2>2. DOMAIN delayed_tasks' = DOMAIN delayed_tasks \ {cur.id}
    BY <1>10 DEF DelayedClosureReturn, Erase
  <2>3. RunningDelayed(cur.id) /\ (i # cur.id => ~RunningDelayed(i))
    BY <1>10 DEF DelayedClosureReturn, RunningDelayed
  <2>4. cur.id \in TaskIds
    BY <1>0 DEF TypeOK, Closures
  <2>5. QED
    BY <1>0, <1>10, <2>1, <2>2, <2>3, <2>4 DEF DelayedClosureReturn, IdOk
<1>14. CASE IoClosureReturn
  <2>1. ~RunningDelayed(i)' /\ ~RunningDelayed(i)
    BY <1>14 DEF IoClosureReturn, RunningDelayed, NoTask
  <2>2. QED
    BY <1>0, <1>14, <2>1 DEF IoClosureReturn, IdOk
<1>15. CASE Destroy
  BY <1>0, <1>15 DEF Destroy, IdOk, RunningDelayed
<1>11. CASE BreakLoop
  BY <1>0, <1>11 DEF BreakLoop, IdOk, RunningDelayed
<1>12. CASE UNCHANGED vars
  BY <1>0, <1>12 DEF vars, IdOk, RunningDelayed
<1>13. QED
  BY <1>2, <1>3, <1>4, <1>5, <1>6, <1>7, <1>8, <1>9, <1>10, <1>11, <1>12, <1>14,
     <1>15 DEF Next

\* Every pending base notification finds its delayed_tasks_ entry (the
\* DCHECK of OnRanPostedTask), at most one is pending per id, and no entry
\* outlives its notification, for every size of the TaskId range.
THEOREM DelayedMatchesTimersHolds == Spec => []DelayedMatchesTimers
<1>1. DelayedInv => DelayedMatchesTimers
  BY DEF DelayedInv
<1>2. QED
  BY DelayedInvInit, DelayedInvNext, <1>1, PTL DEF Spec


-----------------------------------------------------------------------------


-----------------------------------------------------------------------------
(* RunOnce *)

\* How far a drive call has got fixes run_once_ and the pending QuitNow():
\* outside a drive call neither is set; Run never sets run_once_; within
\* RunOnce, before any closure ran run_once_ is set and no QuitNow() is
\* pending, while the one closure runs run_once_ is still set, and after it
\* returned the epilogue has reset run_once_ and quit the base loop.
RunOnceInv ==
  /\ pc \in {"client", "destroyed"} => ~quit /\ ~run_once
  /\ caller = "Run" => ~run_once
  /\ caller = "RunOnce" /\ pc = "loop" =>
       \/ ran = 0 /\ run_once /\ ~quit
       \/ ran = 1 /\ ~run_once /\ quit
  /\ caller = "RunOnce" /\ pc = "cb" => ran = 1 /\ run_once
  /\ RunOnceReportsOneClosure


LEMMA RunOnceInvInit == Init => RunOnceInv
BY DEF Init, RunOnceInv, RunOnceReportsOneClosure

LEMMA RunOnceInvNext == TypeOK /\ RunOnceInv /\ [Next]_vars => RunOnceInv'
<1> SUFFICES ASSUME TypeOK, RunOnceInv, [Next]_vars PROVE RunOnceInv'
  OBVIOUS
<1> DEFINE ctl == <<run_once, quit, pc, caller, ran, once_ret>>
<1>0. /\ run_once \in BOOLEAN /\ quit \in BOOLEAN /\ once_ret \in BOOLEAN
      /\ ran \in 0 .. 2
  BY DEF TypeOK
<1>1. CASE UNCHANGED ctl
  BY <1>1 DEF RunOnceInv, RunOnceReportsOneClosure
<1>2. CASE PostDelayedTask \/ WatchFileDescriptor \/ (\E id \in TaskIds : CancelTask(id))
             \/ UNCHANGED vars
  <2>1. UNCHANGED ctl
    BY <1>2 DEF PostDelayedTask, WatchFileDescriptor, CancelTask, vars
  <2>2. QED
    BY <1>1, <2>1
<1>3. ASSUME NEW may_block \in BOOLEAN, RunOnce(may_block)
      PROVE  RunOnceInv'
  BY <1>0, <1>3 DEF RunOnce, RunOnceInv, RunOnceReportsOneClosure
<1>4. CASE Run
  BY <1>0, <1>4 DEF Run, RunOnceInv, RunOnceReportsOneClosure
<1>5. CASE LoopReturn
  <2>1. /\ pc = "loop" /\ (quit \/ loop_mode = "RunUntilIdle")
        /\ quit' = FALSE /\ pc' = "client"
        /\ UNCHANGED <<caller, ran>>
    BY <1>5 DEF LoopReturn
  <2>2. CASE caller = "RunOnce"
    <3>1. once_ret' = ~run_once /\ run_once' = FALSE
      BY <1>5, <2>2 DEF LoopReturn
    <3>2. QED
      BY <1>0, <2>1, <2>2, <3>1 DEF RunOnceInv, RunOnceReportsOneClosure
  <2>3. CASE caller # "RunOnce"
    <3>1. UNCHANGED <<once_ret, run_once>>
      BY <1>5, <2>3 DEF LoopReturn
    <3>2. caller = "Run"
      BY <2>3 DEF TypeOK
    <3>3. QED
      BY <1>0, <2>1, <2>3, <3>1, <3>2 DEF RunOnceInv, RunOnceReportsOneClosure
  <2>4. QED
    BY <2>2, <2>3
<1>6. ASSUME NEW id \in TaskIds, OnRanPostedTask(id)
      PROVE  RunOnceInv'
  <2>1. /\ pc = "loop" /\ ~quit
        /\ UNCHANGED <<run_once, quit, caller, once_ret>>
    BY <1>6 DEF OnRanPostedTask
  <2>2. CASE pc' = "cb" /\ ran' = RanInc
    BY <1>0, <2>1, <2>2 DEF RunOnceInv, RunOnceReportsOneClosure, RanInc
  <2>3. CASE UNCHANGED <<pc, ran>>
    BY <2>1, <2>3 DEF RunOnceInv, RunOnceReportsOneClosure
  <2>4. QED
    BY <1>6, <2>2, <2>3 DEF OnRanPostedTask
<1>7. ASSUME NEW id \in TaskIds, OnFileReady(id)
      PROVE  RunOnceInv'
  BY <1>0, <1>7 DEF OnFileReady, RunOnceInv, RunOnceReportsOneClosure, RanInc
<1>8. CASE DelayedClosureReturn \/ IoClosureReturn
  <2>1. /\ pc = "cb" /\ pc' = "loop" /\ RunOnceEpilogue
        /\ UNCHANGED <<caller, ran, once_ret>>
    BY <1>8 DEF DelayedClosureReturn, IoClosureReturn
  <2>2. CASE caller = "RunOnce"
    <3>1. run_once' = FALSE /\ quit' = TRUE /\ ran = 1
      BY <2>1, <2>2 DEF RunOnceInv, RunOnceEpilogue
    <3>2. QED
      BY <2>1, <2>2, <3>1 DEF RunOnceInv, RunOnceReportsOneClosure
  <2>3. CASE caller # "RunOnce"
    <3>1. caller = "Run" /\ ~run_once
      BY <2>3 DEF TypeOK, RunOnceInv
    <3>2. UNCHANGED <<run_once, quit>>
      BY <2>1, <3>1 DEF RunOnceEpilogue
    <3>3. QED
      BY <2>1, <2>3, <3>1, <3>2 DEF RunOnceInv, RunOnceReportsOneClosure
  <2>4. QED
    BY <2>2, <2>3
<1>9. CASE BreakLoop
  BY <1>9 DEF BreakLoop, RunOnceInv, RunOnceReportsOneClosure
<1>10. CASE Destroy
  BY <1>10 DEF Destroy, RunOnceInv, RunOnceReportsOneClosure
<1>11. QED
  BY <1>2, <1>3, <1>4, <1>5, <1>6, <1>7, <1>8, <1>9, <1>10 DEF Next

\* RunOnce returns true exactly when one closure ran during it, for every
\* size of the TaskId range: the closure's epilogue resets run_once_ and
\* quits the base loop, so no second closure starts, and a canceled
\* delayed task that is only consumed does not count.
THEOREM RunOnceReportsOneClosureHolds == Spec => []RunOnceReportsOneClosure
<1>1. TypeOK /\ RunOnceInv /\ [Next]_vars => (TypeOK /\ RunOnceInv)'
  BY TypeOKNext, RunOnceInvNext
<1>2. Init => TypeOK /\ RunOnceInv
  BY TypeOKInit, RunOnceInvInit
<1>3. RunOnceInv => RunOnceReportsOneClosure
  BY DEF RunOnceInv
<1>4. QED
  BY <1>1, <1>2, <1>3, PTL DEF Spec

=============================================================================
