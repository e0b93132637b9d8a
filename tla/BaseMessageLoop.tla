-------------------------- MODULE BaseMessageLoop --------------------------
(***************************************************************************)
(* chromeos::BaseMessageLoop (src/chromeos/message_loops/                  *)
(* base_message_loop.cc): task ids, the delayed-task store, the            *)
(* file-descriptor-watch store and the run-loop control, layered on a      *)
(* base::MessageLoopForIO.  The base loop is the environment: it holds one *)
(* pending OnRanPostedTask(id) notification per accepted PostDelayedTask   *)
(* (timers) and dispatches OnFileReady for any live watch (readiness is    *)
(* left nondeterministic).  Everything runs on one thread: a closure runs  *)
(* to completion (pc = "cb") and may call the public API while it runs.    *)
(* Callbacks do not re-enter Run/RunOnce (nested loops are not modelled).  *)
(***************************************************************************)
EXTENDS Integers

CONSTANTS
  IdSpace   \* number of distinct TaskId values (2^64 for uint64_t TaskId)

ASSUME IdSpaceAssumption == IdSpace \in Nat /\ IdSpace >= 2

VARIABLES
  last_id,        \* BaseMessageLoop::last_id_
  delayed_tasks,  \* delayed_tasks_: task id -> "closure is not null"
  io_tasks,       \* io_tasks_: task id -> IOTask::persistent_
  timers,         \* base loop: pending OnRanPostedTask(id) notifications per id
  run_once,       \* BaseMessageLoop::run_once_
  quit,           \* base loop: QuitNow() requested for the current Run
  pc,             \* "client" | "loop" (in base Run) | "cb" (in a closure) | "destroyed"
  loop_mode,      \* base drive call in progress: "Run" | "RunUntilIdle"
  caller,         \* which BaseMessageLoop method drives the base loop
  cur,            \* the closure being run: kind, task id, persistence
  ran,            \* history: closures started in the current drive (saturates at 2)
  once_ret,       \* return value of the last RunOnce
  cancel_ret      \* return value of the last CancelTask

vars == <<last_id, delayed_tasks, io_tasks, timers, run_once, quit, pc,
          loop_mode, caller, cur, ran, once_ret, cancel_ret>>

kTaskIdNull == 0
TaskIds == 0 .. IdSpace - 1
WatchModes == {"kWatchRead", "kWatchWrite"}
\* Inputs of WatchFileDescriptor: only the sign of fd and the validity of
\* the mode are ever inspected.
FdInputs == {-1, 0}
ModeInputs == WatchModes \cup {"kWatchOther"}
NoTask == [kind |-> "none", id |-> kTaskIdNull, persistent |-> FALSE]
Closures == [kind : {"none", "delayed", "io"}, id : TaskIds, persistent : BOOLEAN]

\* std::map::emplace never overwrites an existing key; erase removes it.
Emplace(f, k, v) ==
  IF k \in DOMAIN f THEN f
  ELSE [x \in DOMAIN f \cup {k} |-> IF x = k THEN v ELSE f[x]]
Erase(f, k) == [x \in DOMAIN f \ {k} |-> f[x]]

LiveIds == DOMAIN delayed_tasks \cup DOMAIN io_tasks

\* NextTaskId: res = ++last_id (wrapping) until res is non-null and in
\* neither store.  It never terminates when no id is free.
Free(i) == i # kTaskIdNull /\ i \notin DOMAIN delayed_tasks /\ i \notin DOMAIN io_tasks
Candidate(k) == (last_id + k) % IdSpace
IdAvailable == \E i \in TaskIds : Free(i)
\* Mutant of NextTaskId (a plausible bug, for mutation runs only): the
\* loop forgets to skip 0.
NextTaskIdNotSkippingNull ==
  LET free(i) == i \notin LiveIds
  IN  Candidate(CHOOSE k \in 1 .. IdSpace :
                  free(Candidate(k)) /\ \A j \in 1 .. k - 1 : ~free(Candidate(j)))
NextTaskId ==
  Candidate(CHOOSE k \in 1 .. IdSpace :
              /\ Free(Candidate(k))
              /\ \A j \in 1 .. k - 1 : ~Free(Candidate(j)))

ApiCallers == {"client", "cb"}
RanInc == IF ran < 2 THEN ran + 1 ELSE 2

Init ==
  /\ last_id = 0
  /\ delayed_tasks = [i \in {} |-> TRUE]
  /\ io_tasks = [i \in {} |-> TRUE]
  /\ timers = [i \in TaskIds |-> 0]
  /\ run_once = FALSE
  /\ quit = FALSE
  /\ pc = "client"
  /\ loop_mode = "Run"
  /\ caller = "Run"
  /\ cur = NoTask
  /\ ran = 0
  /\ once_ret = FALSE
  /\ cancel_ret = FALSE

\* PostDelayedTask: take an id, post OnRanPostedTask(id) to the base loop;
\* only if the base loop accepted it is the DelayedTask stored.
PostDelayedTask ==
  /\ pc \in ApiCallers
  /\ IdAvailable
  /\ last_id' = NextTaskId
  /\ \E base_scheduled \in BOOLEAN :
       IF base_scheduled
         THEN /\ timers' = [timers EXCEPT ![NextTaskId] = @ + 1]
              /\ delayed_tasks' = Emplace(delayed_tasks, NextTaskId, TRUE)
         ELSE UNCHANGED <<timers, delayed_tasks>>
  /\ UNCHANGED <<io_tasks, run_once, quit, pc, loop_mode, caller, cur, ran,
                 once_ret, cancel_ret>>

\* WatchFileDescriptor: reject fd < 0 and unknown modes; otherwise take an
\* id, emplace the IOTask, then ask the base loop to watch; on failure erase
\* the entry under that id again.
WatchFileDescriptor ==
  /\ pc \in ApiCallers
  /\ \E fd \in FdInputs, mode \in ModeInputs, persistent, scheduled \in BOOLEAN :
       /\ fd >= 0
       /\ mode \in WatchModes
       /\ IdAvailable
       /\ last_id' = NextTaskId
       /\ LET inserted == Emplace(io_tasks, NextTaskId, persistent)
          IN  io_tasks' = IF scheduled THEN inserted ELSE Erase(inserted, NextTaskId)
  /\ UNCHANGED <<delayed_tasks, timers, run_once, quit, pc, loop_mode, caller,
                 cur, ran, once_ret, cancel_ret>>

\* CancelTask: a delayed task only has its closure reset (its base
\* notification cannot be withdrawn); an IOTask is destroyed, which stops
\* the watch.
CancelTask(id) ==
  /\ pc \in ApiCallers
  /\ \/ /\ id # kTaskIdNull
        /\ id \in DOMAIN delayed_tasks
        /\ delayed_tasks[id]
        /\ delayed_tasks' = [delayed_tasks EXCEPT ![id] = FALSE]
        /\ cancel_ret' = TRUE
        /\ UNCHANGED io_tasks
     \/ /\ id # kTaskIdNull
        /\ id \notin DOMAIN delayed_tasks
        /\ id \in DOMAIN io_tasks
        /\ io_tasks' = Erase(io_tasks, id)
        /\ cancel_ret' = TRUE
        /\ UNCHANGED delayed_tasks
     \/ /\ \/ id = kTaskIdNull
           \/ id \in DOMAIN delayed_tasks /\ ~delayed_tasks[id]
           \/ id \notin LiveIds
        /\ cancel_ret' = FALSE
        /\ UNCHANGED <<delayed_tasks, io_tasks>>
  /\ UNCHANGED <<last_id, timers, run_once, quit, pc, loop_mode, caller, cur,
                 ran, once_ret>>

\* RunOnce(may_block): set run_once_, then base RunUntilIdle() or Run().
RunOnce(may_block) ==
  /\ pc = "client"
  /\ run_once' = TRUE
  /\ pc' = "loop"
  /\ loop_mode' = IF may_block THEN "Run" ELSE "RunUntilIdle"
  /\ caller' = "RunOnce"
  /\ ran' = 0
  /\ UNCHANGED <<last_id, delayed_tasks, io_tasks, timers, quit, cur,
                 once_ret, cancel_ret>>

\* Run: base Run(), which returns only after QuitNow().
Run ==
  /\ pc = "client"
  /\ pc' = "loop"
  /\ loop_mode' = "Run"
  /\ caller' = "Run"
  /\ ran' = 0
  /\ UNCHANGED <<last_id, delayed_tasks, io_tasks, timers, run_once, quit,
                 cur, once_ret, cancel_ret>>

\* The base drive call returns: on QuitNow, or, for RunUntilIdle, once no
\* work is ready.  RunOnce then reports whether run_once_ was reset.
LoopReturn ==
  /\ pc = "loop"
  /\ quit \/ loop_mode = "RunUntilIdle"
  /\ quit' = FALSE
  /\ pc' = "client"
  /\ IF caller = "RunOnce"
       THEN /\ once_ret' = ~run_once
            /\ run_once' = FALSE
       ELSE UNCHANGED <<once_ret, run_once>>
  /\ UNCHANGED <<last_id, delayed_tasks, io_tasks, timers, loop_mode, caller,
                 cur, ran, cancel_ret>>

\* Mutant of OnRanPostedTask: the closure is copied, not moved out and
\* nulled, so the task still looks scheduled while it runs.
OnRanPostedTaskCopyingClosure(id) ==
  /\ pc = "loop"
  /\ ~quit
  /\ timers[id] > 0
  /\ id \in DOMAIN delayed_tasks
  /\ timers' = [timers EXCEPT ![id] = @ - 1]
  /\ \/ /\ delayed_tasks[id]
        /\ pc' = "cb"
        /\ cur' = [kind |-> "delayed", id |-> id, persistent |-> FALSE]
        /\ ran' = RanInc
        /\ UNCHANGED delayed_tasks
     \/ /\ ~delayed_tasks[id]
        /\ delayed_tasks' = Erase(delayed_tasks, id)
        /\ UNCHANGED <<pc, cur, ran>>
  /\ UNCHANGED <<last_id, io_tasks, run_once, quit, loop_mode, caller,
                 once_ret, cancel_ret>>

\* OnRanPostedTask(id): the base loop delivers a delayed notification.  A
\* non-null closure is moved out and marked null before it runs; a null
\* (canceled) one is dropped and the entry erased at once.
OnRanPostedTask(id) ==
  /\ pc = "loop"
  /\ ~quit
  /\ timers[id] > 0
  /\ id \in DOMAIN delayed_tasks
  /\ timers' = [timers EXCEPT ![id] = @ - 1]
  /\ \/ /\ delayed_tasks[id]
        /\ delayed_tasks' = [delayed_tasks EXCEPT ![id] = FALSE]
        /\ pc' = "cb"
        /\ cur' = [kind |-> "delayed", id |-> id, persistent |-> FALSE]
        /\ ran' = RanInc
     \/ /\ ~delayed_tasks[id]
        /\ delayed_tasks' = Erase(delayed_tasks, id)
        /\ UNCHANGED <<pc, cur, ran>>
  /\ UNCHANGED <<last_id, io_tasks, run_once, quit, loop_mode, caller,
                 once_ret, cancel_ret>>

\* IOTask::OnFileReady: a persistent task runs its closure in place; a
\* one-shot task moves the closure out and erases itself first.
OnFileReady(id) ==
  /\ pc = "loop"
  /\ ~quit
  /\ id \in DOMAIN io_tasks
  /\ cur' = [kind |-> "io", id |-> id, persistent |-> io_tasks[id]]
  /\ io_tasks' = IF io_tasks[id] THEN io_tasks ELSE Erase(io_tasks, id)
  /\ pc' = "cb"
  /\ ran' = RanInc
  /\ UNCHANGED <<last_id, delayed_tasks, timers, run_once, quit, loop_mode,
                 caller, once_ret, cancel_ret>>

\* Mutant of RunOnceEpilogue: run_once_ is reset without QuitNow().
RunOnceEpilogueWithoutQuit ==
  /\ run_once' = FALSE
  /\ UNCHANGED quit

\* After a closure returns (OnRanPostedTask and OnFileReady alike): if
\* run_once_ is set, reset it and QuitNow() the base loop.
RunOnceEpilogue ==
  IF run_once
    THEN run_once' = FALSE /\ quit' = TRUE
    ELSE UNCHANGED <<run_once, quit>>

\* Mutant of DelayedClosureReturn: the entry is never erased.
DelayedClosureReturnKeepingEntry ==
  /\ pc = "cb"
  /\ cur.kind = "delayed"
  /\ RunOnceEpilogue
  /\ pc' = "loop"
  /\ cur' = NoTask
  /\ UNCHANGED <<last_id, delayed_tasks, io_tasks, timers, loop_mode, caller,
                 ran, once_ret, cancel_ret>>

\* A delayed closure returns: epilogue, then the entry is erased through
\* the iterator found before the closure ran.
DelayedClosureReturn ==
  /\ pc = "cb"
  /\ cur.kind = "delayed"
  /\ RunOnceEpilogue
  /\ delayed_tasks' = Erase(delayed_tasks, cur.id)
  /\ pc' = "loop"
  /\ cur' = NoTask
  /\ UNCHANGED <<last_id, io_tasks, timers, loop_mode, caller, ran, once_ret,
                 cancel_ret>>

\* A watch closure returns: only the epilogue, through the saved loop_ptr.
IoClosureReturn ==
  /\ pc = "cb"
  /\ cur.kind = "io"
  /\ RunOnceEpilogue
  /\ pc' = "loop"
  /\ cur' = NoTask
  /\ UNCHANGED <<last_id, delayed_tasks, io_tasks, timers, loop_mode, caller,
                 ran, once_ret, cancel_ret>>

\* BreakLoop, called from a closure: base QuitNow().
BreakLoop ==
  /\ pc = "cb"
  /\ quit' = TRUE
  /\ UNCHANGED <<last_id, delayed_tasks, io_tasks, timers, run_once, pc,
                 loop_mode, caller, cur, ran, once_ret, cancel_ret>>

\* ~BaseMessageLoop, called by the client while no loop runs: every
\* remaining IOTask stops watching its descriptor and the maps are
\* destroyed; pending base notifications hold a weak pointer that is now
\* invalid, so none reaches this loop again.
Destroy ==
  /\ pc = "client"
  /\ pc' = "destroyed"
  /\ io_tasks' = [i \in {} |-> TRUE]
  /\ delayed_tasks' = [i \in {} |-> TRUE]
  /\ timers' = [i \in TaskIds |-> 0]
  /\ UNCHANGED <<last_id, run_once, quit, loop_mode, caller, cur, ran,
                 once_ret, cancel_ret>>

Next ==
  \/ PostDelayedTask
  \/ WatchFileDescriptor
  \/ \E id \in TaskIds : CancelTask(id)
  \/ \E may_block \in BOOLEAN : RunOnce(may_block)
  \/ Run
  \/ LoopReturn
  \/ \E id \in TaskIds : OnRanPostedTask(id)
  \/ \E id \in TaskIds : OnFileReady(id)
  \/ DelayedClosureReturn
  \/ IoClosureReturn
  \/ BreakLoop
  \/ Destroy

Spec == Init /\ [][Next]_vars

\* Scheduling the code relies on: base MessageLoopForIO delivers every
\* posted task while it runs undisturbed, every closure returns, and a
\* drive call whose QuitNow() is pending returns.  Nothing is assumed of
\* the client (it may never call the loop again) nor of descriptor
\* readiness (a watched fd may never become ready).
Fairness ==
  /\ \A id \in TaskIds : WF_vars(OnRanPostedTask(id))
  /\ WF_vars(DelayedClosureReturn)
  /\ WF_vars(IoClosureReturn)
  /\ WF_vars(LoopReturn)

FairSpec == Spec /\ Fairness

-----------------------------------------------------------------------------
(* Properties *)

\* The variables keep their types; stored task ids are never kTaskIdNull.
TypeOK ==
  /\ last_id \in TaskIds
  /\ DOMAIN delayed_tasks \subseteq TaskIds \ {kTaskIdNull}
  /\ delayed_tasks \in [DOMAIN delayed_tasks -> BOOLEAN]
  /\ DOMAIN io_tasks \subseteq TaskIds \ {kTaskIdNull}
  /\ io_tasks \in [DOMAIN io_tasks -> BOOLEAN]
  /\ timers \in [TaskIds -> Nat]
  /\ run_once \in BOOLEAN
  /\ quit \in BOOLEAN
  /\ pc \in {"client", "loop", "cb", "destroyed"}
  /\ loop_mode \in {"Run", "RunUntilIdle"}
  /\ caller \in {"Run", "RunOnce"}
  /\ cur \in Closures
  /\ ran \in 0 .. 2
  /\ once_ret \in BOOLEAN
  /\ cancel_ret \in BOOLEAN

RunningDelayed(i) == pc = "cb" /\ cur.kind = "delayed" /\ cur.id = i

\* OnRanPostedTask DCHECKs that its id is still in delayed_tasks_ (and
\* dereferences the iterator regardless), and the entry is kept only until
\* that notification is consumed: at every moment each id has at most one
\* pending base notification, and it has a delayed_tasks_ entry exactly
\* when a notification is pending or its closure is running.  Breaks if a
\* live id is reissued, or an entry outlives its notification (a leak).
DelayedMatchesTimers ==
  \A i \in TaskIds :
    /\ timers[i] <= 1
    /\ (i \in DOMAIN delayed_tasks) <=> (timers[i] = 1 \/ RunningDelayed(i))

\* RunOnce returns true exactly when one closure ran during it: the closure
\* that ran resets run_once_ and quits the base loop, so no second closure
\* runs, and consuming a canceled delayed task does not count.
RunOnceReportsOneClosure ==
  pc = "client" /\ caller = "RunOnce" => (once_ret <=> ran = 1)

\* RunOnce(true) blocks in base Run() until a closure has run; once a
\* delayed task that is not canceled has its notification pending, the
\* blocking RunOnce does return to its caller.
RunOnceReturns ==
  \A i \in TaskIds :
    (/\ pc = "loop" /\ caller = "RunOnce" /\ loop_mode = "Run"
     /\ i \in DOMAIN delayed_tasks /\ delayed_tasks[i] /\ timers[i] > 0)
      ~> pc = "client"

\* IOTask::OnFileReady comments that after a persistent closure cancels its
\* own task id "we can't access |this| anymore"; but closure_.Run() is itself
\* running from |this|: while a persistent watch's closure runs, the IOTask
\* owning that closure must still exist.
ClosureStorageAlive ==
  pc = "cb" /\ cur.kind = "io" /\ cur.persistent => cur.id \in DOMAIN io_tasks
=============================================================================
