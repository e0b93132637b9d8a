# Verification of libbrillo's BaseMessageLoop and file utilities

TLA+ models of the code in `src/`. TLC checks them on small instances, and
TLAPS proves theorems about them for every value of their constants.

## 1. Inventory

### Components

| Component | Source | State | Operations |
|---|---|---|---|
| Task identity allocator | `base_message_loop.cc:171-180` | `last_id_` | `NextTaskId` |
| Delayed task store | `base_message_loop.cc:46-65, 115-147, 182-203` | `delayed_tasks_`: id -> {location, closure}. A null closure means the task ran or was canceled. | `PostDelayedTask`, `CancelTask`, `OnRanPostedTask` |
| Descriptor watch store | `base_message_loop.cc:67-147, 205-248` | `io_tasks_`: id -> IOTask {persistent_, closure_, fd watcher} | `WatchFileDescriptor`, `CancelTask`, `IOTask::OnFileReady` |
| Run-loop controller | `base_message_loop.cc:149-169` | `run_once_` | `RunOnce(may_block)`, `Run`, `BreakLoop` |
| Teardown | `base_message_loop.cc:22-44` | — | `~BaseMessageLoop` |
| base::MessageLoopForIO | libchrome, not in this repository | pending posted tasks, fd watchers, quit flag | `PostDelayedTask`, `WatchFileDescriptor`, `Run`, `RunUntilIdle`, `QuitNow` |
| TouchFile | `file_utils.cc:63-185` | the file system entry at a path | `RegularFileOrDelete`, `TouchFileInternal`, `TouchFile` |
| Atomic and plain writes | `file_utils.cc:187-212, 251-314` | the destination, a temp file, an fd | `WriteToFile`, `WriteToFileAtomic`, `Write*ToFile*` |
| SyncFileOrDirectory | `file_utils.cc:214-249` | an fd | open, fsync/fdatasync, close |
| GetRandomSuffix | `file_utils.cc:135-151` | — | pure function: 6 random bytes -> `[A-Za-z0-9]{6}` |
| AsynchronousSignalHandler | only `asynchronous_signal_handler_unittest.cc` | — | the implementation is not in this repository |

### How the components interact

`BaseMessageLoop` sits on a `base::MessageLoopForIO`.

- `PostDelayedTask` posts `OnRanPostedTask(id)` to the base loop through a
  weak pointer. Only if the base loop accepts the post does it store a
  `DelayedTask`.
- `WatchFileDescriptor` first stores an `IOTask`, then registers it with the
  base loop as a watcher. If the registration fails, it erases the task.
- The base loop calls back into `OnRanPostedTask` and `IOTask::OnFileReady`.
  These run the user's closure synchronously. The closure can call any public
  method: `CancelTask` (including on its own id), `PostDelayedTask`,
  `WatchFileDescriptor` and `BreakLoop`.
- `RunOnce` sets `run_once_`. The closure's epilogue clears it and quits the
  base loop, so one run of one closure ends the call.

Everything runs on one thread. There are no locks, and no other thread
interleaves with the loop. What is hard here is re-entrancy:

- A closure changes the stores while the handler that called it still holds
  an iterator, a `this` pointer or the closure object.
- Notifications cannot be withdrawn. A canceled delayed task's notification
  still arrives later.
- Ids wrap around.

The file utilities share no state with the loop. Their hard behaviours come
from outside the process:

- another process changing the same path between a check and a use;
- a crash between the steps of the atomic write;
- partial writes and failing system calls.

### What makes each component correct

- **Allocator.** An issued id is never `kTaskIdNull` and is never live in
  either store, even after `last_id_` wraps. This includes the id of a
  delayed task whose closure is running.
  No property restates this: it is the exit test of the allocation loop.
  It is checked through what a wrong id would break: `TypeOK` keeps 0 out
  of both maps, and a reissued live id breaks `DelayedMatchesTimers` and
  the refinement `ImplementsScheduler`.
- **Delayed store.**
  - Each pending base notification finds its entry. This is the `DCHECK` at
    line 184.
  - An entry lives exactly until its notification is consumed, so it neither
    dangles nor leaks.
  - A closure runs at most once, and never after `CancelTask` returned true.
  - `CancelTask` returns true exactly once per task.
- **Watch store.**
  - A one-shot watch is retired before its closure runs, and it never fires
    twice.
  - A persistent watch fires until it is canceled, and never after that.
  - The closure object that is running stays alive.
- **Controller.**
  - `RunOnce` runs at most one closure and reports whether one ran.
  - `RunOnce(true)` returns once a live task fires.
  - `BreakLoop` from a closure ends `Run`.
- **File utilities.**
  - The destination of `WriteToFileAtomic` holds either the old contents or
    the complete new contents, even across a crash.
  - A failure leaves no temp file that the call itself created.
  - `TouchFile` only reports success when a regular file owned by the given
    user and group is at the path.

The hazards these properties are aimed at are listed, each at its source line,
under `hazards` in `PROJECT.json`.

## 2. Modules and runs

### `BaseMessageLoop.tla`: the loop

| Variable | Code |
|---|---|
| `last_id` | `last_id_` |
| `delayed_tasks` | `delayed_tasks_`, as id -> "closure is not null" |
| `io_tasks` | `io_tasks_`, as id -> `persistent_` |
| `run_once` | `run_once_` |
| `timers` | the base loop's pending `OnRanPostedTask(id)` notifications, counted per id |
| `quit` | the base loop's `QuitNow` request |
| `pc` | where control is: the client, the base loop, a closure, or destroyed |
| `cur` | the closure that is running |

`loop_mode` and `caller` record which drive call is in progress.
`once_ret` and `cancel_ret` are return values. `ran` is a history variable:
the number of closures started in the current drive, saturating at 2.

Each public method, and each handler the base loop calls, is one action.

- **`PostDelayedTask` and `WatchFileDescriptor`.** These include the id
  allocation and the base loop's accept/reject choice. `WatchFileDescriptor`
  also covers the emplace-then-erase failure path. `std::map::emplace` is
  modelled as "never overwrite".
- **`CancelTask(id)`.** Its three disjuncts are: reset a delayed closure,
  erase a watch, or return false.
- **`RunOnce`, `Run` and `LoopReturn`.** `LoopReturn` is the base drive call
  returning, followed by the tail of `RunOnce`.
- **`OnRanPostedTask(id)`.** A non-null closure is moved out and starts
  running. A null closure is dropped and its entry erased.
- **`OnFileReady(id)`.** A persistent watch runs in place. A one-shot watch
  is erased first.
- **`DelayedClosureReturn` and `IoClosureReturn`.** These are the code after
  `closure.Run()` in the two handlers. Both use `RunOnceEpilogue`.
- **`BreakLoop` and `Destroy`.**

While `pc = "cb"` the closure may call any API action, any number of times.

What the model abstracts:

- Descriptor numbers and readiness. Any live watch may fire while the base
  loop runs.
- Deadlines. Any pending notification may be delivered.
- When `RunUntilIdle` finds no ready work. It may return whenever no quit is
  pending.
- A `NextTaskId` call when no id is free. In the code it never returns. The
  model only allocates when an id is free.
- Nested `Run`/`RunOnce` from a closure. This is not modelled yet.

The constant `IdSpace` is the number of TaskId values (2^64 in the code), with
`ASSUME IdSpace >= 2`.

`MC_BaseMessageLoop.tla` sets `IdSpace = 4`. That gives ids 1..3, and
`last_id_` wraps after three allocations. This is enough to fill the id space,
to reuse ids after wrap-around, and to have a running delayed task, a pending
canceled entry and a watch live at the same time. The full state graph is
98,755 states and is checked in about 30 s.

Deadlock checking is off. A base `Run()` with no watch and no pending
notification really blocks forever, and a destroyed loop does nothing.

| Run | cfg | Expect | Checks |
|---|---|---|---|
| `loop_core` | `MC_BaseMessageLoop.cfg` | pass | `TypeOK`; `DelayedMatchesTimers` (one pending notification per id, and an entry exactly while a notification is pending or its closure runs); `RunOnceReportsOneClosure` (`RunOnce` returns true iff exactly one closure ran during it) |
| `loop_persistent_self_cancel` | `MC_BaseMessageLoop_selfcancel.cfg` | violation | `ClosureStorageAlive`: while a persistent watch's closure runs, its IOTask exists |

**Finding.** TLC finds the violation in 5 steps: `WatchFileDescriptor`
(persistent), then `RunOnce`, `OnFileReady`, and `CancelTask` of the closure's
own id. In the code, `closure_.Run()` (line 234) executes from the IOTask's
member. `CancelTask` erases the IOTask, which destroys `closure_` and drops
its bound state while that closure is still running. The comment at lines
232-233 only guards accesses made after the call returns. Spec §4.4 declares
the self-cancel legal.

Every property of a passing run has a mutant: a plausible bug that TLC must
catch under the run's own cfg.

| Property | Mutant |
|---|---|
| `TypeOK` | `NextTaskId` does not skip 0 |
| `DelayedMatchesTimers` | the delayed entry is never erased |
| `RunOnceReportsOneClosure` | the epilogue clears `run_once_` without `QuitNow` |

### `BaseMessageLoopProofs.tla`: proofs

All of these hold for every `IdSpace >= 2`.

- **`TypeCorrect`.** `Spec => []TypeOK`. `TypeOK` is inductive. The proof
  has one step per action. It rests on:
  - `NextTaskIdFree`: when some id is free, the CHOOSE in `NextTaskId`
    denotes a free id of the range. This in turn uses `NatSetHasMin`, the
    least-number principle, taken from `WellFoundedInduction`'s `WFMin`. The
    do-while loop picks the first free candidate, and one exists.
  - `EmplaceFacts` and `EraseFacts`.
  - `EpilogueType`.
- **`DelayedMatchesTimersHolds`.** `Spec => []DelayedMatchesTimers`.
  `DelayedMatchesTimers` is not inductive by itself. The inductive invariant
  `DelayedInv` adds `TypeOK` and `RunningHasNoTimer`: a delayed closure that
  is running has no pending notification. `DelayedClosureReturn` erases that
  entry, and without the conjunct the proof could not exclude a notification
  that would later find no entry. The step proof works per id (`IdOk(i)`),
  with one case per action. `PostDelayedTask` relies on `NextTaskIdFree`: a
  free id has no entry, and so no pending notification.
- **`RunOnceReportsOneClosureHolds`.** `Spec => []RunOnceReportsOneClosure`.
  The property speaks only of the final state of `RunOnce`, so it is not
  inductive. The inductive invariant `RunOnceInv` says how far a `RunOnce`
  has got:
  - outside a drive call, neither `quit` nor `run_once` is set;
  - `Run` never sets `run_once`;
  - in a `RunOnce` loop, either no closure has run yet (`run_once` set, no
    quit), or exactly one has, and its epilogue cleared `run_once` and quit;
  - inside a closure under `RunOnce`, one closure has run and `run_once` is
    still set.
  TLC checked `RunOnceInv` on the `loop_core` instance before the proof. The
  step proof has one case per action. Its typing comes from `TypeOKNext`.

### Abstract scheduler and refinement

`TaskScheduler.tla` states what a `chromeos::MessageLoop` promises its
clients, with no storage detail. Its state is:

- `tasks`: scheduled id -> persistent;
- `running`: whether a closure is running;
- `cancel_ret`: the result of the last cancel;
- `alive`: whether the loop still exists.

Its actions:

- `Schedule(id, p)` adds a fresh id.
- `Cancel(id)` returns whether the id is scheduled, and drops it.
- `Start(id)` runs one task while none runs. A one-shot task stops being
  scheduled; a persistent one stays.
- `Finish` ends the running closure.
- `Destroy` drops every task while no closure runs.

`BaseMessageLoopRefinement.tla` maps `BaseMessageLoop` onto it:

- `tasks` is `MappedTasks`: delayed ids whose closure is not null, as
  one-shot, plus every watch with its `persistent_` flag;
- `running` is `pc = "cb"`;
- `alive` is `pc # "destroyed"`.

Run `loop_refines_scheduler` checks `TS!Spec` as a PROPERTY on the 98,755
states of the `IdSpace = 4` instance. It passes.

Its mutant copies the closure out in `OnRanPostedTask` instead of moving it.
The delayed entry then stays non-null while its closure runs. A self-cancel
from that closure returns true, which the abstract `Cancel` forbids for a
started one-shot task. TLC finds this.

The refinement covers the hazards at lines 192 and 239: a self-cancel
returns false, and a one-shot task runs at most once and never after a
successful cancel.

### Liveness

`FairSpec` adds weak fairness to these actions, and to nothing else:

- `OnRanPostedTask(id)`: base `MessageLoopForIO` delivers every posted task
  while it runs.
- `DelayedClosureReturn` and `IoClosureReturn`: closures return.
- `LoopReturn`: a drive call whose `QuitNow` is pending returns.

The client gets no fairness; it may never call the loop again. Descriptor
readiness gets none either; a watched fd may never become ready.

`RunOnceReturns` says: when `RunOnce` drives the loop in `Run` mode and a
live delayed task with a pending notification exists, control eventually
returns to the client. Run `loop_liveness` checks it.

Its mutant drops the `QuitNow` from the `run_once_` epilogue. The closure
still runs, but `Run()` then never returns.

A `RunOnce(true)` with nothing live has no such guarantee, and the property
does not claim one (hazard at line 154).

### `BaseMessageLoopRefinementProofs.tla`: the refinement, proved

`THEOREM Refinement == Spec => ImplementsScheduler` holds for every
`IdSpace >= 2`.

The mapping is not a refinement from every type-correct state. It needs the
inductive invariant `RefInv`, which is `TypeOK` plus two conjuncts:

- **`TasksDisjoint`.** No id is in both stores. Without it, a canceled
  delayed entry could hide a live watch of the same id in `MappedTasks`.
- **`RunningNotScheduled`.** The running delayed task's entry is already
  null. Without it, `DelayedClosureReturn`'s erase could remove a task that
  is still scheduled, which is an abstract step no action allows.

The proof is built from these lemmas:

- `RefInvInit` and `RefInvNext`: `RefInv` is inductive. The proof has one
  case per action, and uses `NextTaskIdFree` for the fresh ids.
- `InitRefines`: the initial state maps to the abstract initial state.
- `NextRefines`: every step maps to an abstract step or a stutter. Each
  action has one case:
  - a post or watch that is accepted is `Schedule`;
  - the three disjuncts of `CancelTask` are `Cancel`;
  - a firing with a non-null closure is `Start`;
  - a closure's return is `Finish`;
  - everything else stutters (`StutterStep`).
  `EmplaceErase` covers a watch that the base loop rejected: it is emplaced,
  then erased, which leaves the map as it was.

The theorem follows from these by `PTL`.

### `WriteToFileAtomic.tla`: atomic writes, crashes, concurrent writers

The file system is a directory over inodes:

- `dest` is the inode named `<path>`;
- `temps` maps a suffix to an inode;
- each inode has `len`, the bytes a reader sees, and `synced`, the bytes
  that survive a crash.

Directory operations are atomic and durable. `Crash` ends every call and
sets each inode's `len` to its `synced`.

Each writer runs `WriteToFileAtomic` as six actions, each taking every
failure branch of its lines:

| Action | Lines | What it does |
|---|---|---|
| `Begin` | 255-266 | directory creation, `GetRandomSuffix` |
| `Open` | 267-273 | `O_EXCL`; a failure unlinks the name |
| `Write` | 275-286 | one `write()` of 1..remaining bytes, or a failure |
| `Sync` | 288-293 | `fdatasync` |
| `Close` | 294-298 | `close` |
| `Rename` | 300-306 | `rename` |

`SuffixChar` is the byte -> character arithmetic of line 141.

Contents are abstracted to a byte count: a destination with `Size` bytes
holds a whole call's data.

Bounds: `Size = 2` allows a short write. `SuffixLen = 1` with bytes
{0, 52, 62} gives two suffixes: "a" from 0 and 62, so names can collide,
and "0" from 52, the first value of the digit range, where an off-by-one
in the range boundaries would show. One crash is allowed.

| Run | Expect | Checks |
|---|---|---|
| `atomic_write_single_writer` | pass | `DestOldOrComplete`. Mutant: `Sync` without the `fdatasync`. |
| `atomic_write_two_writers` | pass | `TypeOK`, `SuffixAlphabet` (every temp file created has a [0-9A-Za-z] suffix) and `TempOnlyWhileInProgress` (a temp name belongs to a call in progress or to a crashed one). Mutants: a write counted as the whole size, a failed write that skips the unlink, and an upper-case range shifted by one. |
| `atomic_write_suffix_collision` | violation | `DestOldOrComplete` with two writers |

**Finding (`file_utils.cc:271`).** TLC's 11-step trace:

1. Writer 1 creates and fills temp "a".
2. Writer 2's `O_EXCL` open of "a" fails, and its failure path unlinks
   writer 1's file.
3. Writer 2 calls again and creates a new, empty "a".
4. Writer 1 renames that empty file over `<path>` and returns true.

The destination is torn although the call reported success.

### `WriteToFileAtomicProofs.tla`: proofs

These hold for every number of writers, calls, bytes, suffix characters and
crashes. They rest on `ConstantsAssumption`, which includes
`RandBytes # {}`: `base::RandBytes` always yields some byte, and `Init`
chooses an initial suffix from `Suffixes`.

- **`TypeCorrect`.** `Spec => []TypeOK`, for any number of writers.
- **`SuffixAlphabetHolds`.** `Spec => []SuffixAlphabet`. It follows from
  the operator lemma `SuffixCharAlnum`: `SuffixChar(b)` is the code of a
  letter or a digit for every natural `b`, through `b % 62`. The lemma
  `SuffixesAlnum` lifts this to every suffix of every length.
- **`TempOnlyWhileInProgressHolds`.** `Spec => []TempOnlyWhileInProgress`,
  for any number of writers.
- **`DestOldOrCompleteSingleWriter`.** Under `Writers = {w0}`,
  `Spec => []DestOldOrComplete`. The hypothesis is the real precondition:
  with two writers the suffix-collision trace above breaks the property.

The inductive invariant is `IInv == TypeOK /\ InodesTyped /\ CallFiles /\
TempsOwned`. TLC checked it on both atomic-write instances before the
proof.

- `InodesTyped`: each inode is a record whose epoch is not in the future.
- `CallFiles` is what the loop does to the call's own inode:
  - at `open` the position is 0;
  - in the loop, `len = position` and `synced = 0`;
  - after `fdatasync`, `len = synced = Size`;
  - calls in progress hold distinct inodes.
- `TempsOwned` strengthens `TempOnlyWhileInProgress`: the witness call is
  also the one that drew that suffix. An unlink by another call therefore
  never removes a witness's name.

The step proof has one lemma per action. `EndCallInv` covers every path
that unlinks the temp name and returns, both the failures and `rename`.
`DestOldOrComplete` adds `SingleWriterInv`:

- while in progress, the temp name is still the writer's own file;
- the loop's inode is not `dest`;
- `dest` has `Size` durable bytes, so a `Crash` keeps them.

### `TouchFile.tla`: TouchFile against a concurrent process

One `TouchFile` call is modelled as these actions:

| Action | Code |
|---|---|
| `Start` | the permission check, then `RegularFileOrDelete`'s `openat(O_NOFOLLOW)`: ELOOP, ENOENT or another failure |
| `CheckExisting` | `fstat` and the uid/gid/regular check, then `DeleteFile(path)`, which may fail |
| `Create` | `CreateDirectory` and `openat(O_CREAT|O_EXCL)` |
| `Chmod` | `fchmod`; a failure deletes by path, and that `DeleteFile`, whose result is ignored, may fail and leave the file |

`Interfere` is another process that removes the entity at the path or puts a
new one there, between any two calls. `MaxInterference` bounds it.

| Run | Expect | Checks |
|---|---|---|
| `touch_sequential` | pass | `TouchSuccessPostcondition`, with no interference. Mutant: the gid comparison dropped. |
| `touch_concurrent` | pass | `TypeOK`, with one interference. Mutant: the permission check dropped. |
| `touch_replaced_path` | violation | `DeletesOnlyWhatItJudged` |

**Finding (`file_utils.cc:85`).** TLC's 4-step trace:

1. `openat` sees entity 0.
2. The other process replaces it with entity 1.
3. `fstat` on the fd rejects entity 0.
4. `DeleteFile(path, true)` recursively deletes entity 1, which was never
   inspected.

Line 174 deletes by path in the same way. Its result is ignored, so that
`DeleteFile` may also fail and leave the file the call created behind; the
model lets it fail, and nothing is claimed about what a failed call
leaves at the path.

### `TouchFileProofs.tla`: proofs

These hold for every set of permission inputs and every `MaxInterference`:

- **`TypeCorrect`.** `Spec => []TypeOK`. `fchmod` only ever sets a mode
  in 0..0777, because the permission check comes first.
- **`TouchSuccessPostconditionHolds`.** Under `MaxInterference = 0`,
  `Spec => []TouchSuccessPostcondition`. The hypothesis is needed. With one
  interference TLC finds the path removed after `fstat` accepted it, and
  the call still returns true. That is the unavoidable window between the
  check and the return, not a defect of the code.

The inductive invariant is `IInv == TypeOK /\ Progress /\ Undisturbed`.

- `Progress` ties the program counter to what the call has done:
  - nothing is created before `Create`;
  - the permissions are legal from `fstat` on;
  - at `chmod`, the fd is the created file.
- `Undisturbed` holds while `interference = 0`:
  - the fd is the entity at the path;
  - the created file is a regular file of the caller;
  - the postcondition holds.

`TypeOK` is split into `EntsTyped`, the typing of the entity map, and
`TypeRest`. The lemma `AddEntity` types a map extended by a fresh entity,
for both `Create` and `Interfere`.

### `WriteToFile.tla`: size_t -> int and SyncFileOrDirectory

The widths are scaled down: `size_t` is 5 bits and `int` is 4 bits.
`CastToInt` is two's complement of the low bits. `WriteFileResults` is
libchrome `base::WriteFile`: `creat` may fail, then a prefix is written,
then `close` may fail. `SyncFileOrDirectory` takes every open, sync and
close outcome.

Run `write_to_file` checks `WriteReportsAllWritten` for every size in
0..31. Its mutant drops the `INT_MAX` check; sizes 16 and up then wrap.
`SyncFileOrDirectory` keeps every failure path, but no property is stated
about it: one would only restate the `fsync` result check at line 230.

### `WriteToFileProofs.tla`: proofs

- **`WriteReportsAllWrittenHolds`.** `Spec => []WriteReportsAllWritten`,
  for every pair of widths with `IntBits <= SizeBits` (`WidthAssumption`):
  the 64-bit build, where `int` is narrower than `size_t`, and the 32-bit
  build, where they have the same width and a size above `INT_MAX` still
  exists.

The inductive invariant `IInv` records types and the order of the steps:
no result before its step, and a true result of `WriteToFile` only with
the file written. The lemma `CastSmall` states that `CastToInt(n) = n` for
`n <= INT_MAX`.

`WriteToFile.tla` states `PowersOfTwo`, the facts about `2^IntBits` and
`2^SizeBits` that the proof needs. They are true for every width. It is an
assumption only because the provers have no axioms for `^`. TLC evaluates
it on every run.

## 3. What is proved, and what only TLC checks

TLAPS proves these for every value of the constants:

| Module | Theorem | Run that checks the same property |
|---|---|---|
| `BaseMessageLoopProofs` | `TypeCorrect`, `DelayedMatchesTimersHolds`, `RunOnceReportsOneClosureHolds` | `loop_core` |
| `BaseMessageLoopRefinementProofs` | `Refinement` | `loop_refines_scheduler` |
| `WriteToFileAtomicProofs` | `TypeCorrect`, `SuffixAlphabetHolds`, `TempOnlyWhileInProgressHolds` | `atomic_write_two_writers` |
| `WriteToFileAtomicProofs` | `DestOldOrCompleteSingleWriter` (one writer) | `atomic_write_single_writer` |
| `TouchFileProofs` | `TypeCorrect` | `touch_concurrent` |
| `TouchFileProofs` | `TouchSuccessPostconditionHolds` (no interference) | `touch_sequential` |
| `WriteToFileProofs` | `WriteReportsAllWrittenHolds` | `write_to_file` |

Each safety proof follows the same pattern:

1. an inductive invariant, first checked by TLC as an invariant of the run;
2. `Init => IInv`;
3. `IInv /\ [Next]_vars => IInv'`, one case or lemma per action;
4. the temporal step, by PTL.

These are only model-checked:

- Liveness (`RunOnceReturns`). Fairness and `ENABLED` are beyond TLAPS.
- The violation runs. They are counterexamples, and nothing there is to
  prove.

## 4. Not modelled

- **`AsynchronousSignalHandler`.** Only its unit test is in the repository.
- **Nested `Run`/`RunOnce` from a closure** (hazard at line 156). Modelling
  it needs a stack of loop frames.
- **Logging.** This covers `DVLOG_LOC`, the destructor's leak messages and
  the slow-sync warning.
- **The internals of `base::MessageLoopForIO`.** They are reduced to the
  interface above.
- **File byte contents.** They are reduced to counts.
- **The forwarding overloads.** These are `WriteBlobToFile`,
  `WriteStringToFile`, `WriteBlobToFileAtomic` and `TouchFile(path)`.
