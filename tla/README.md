# TLA+ models and proofs for the operating systems labs

The repository holds lab exercises in C (and one shell script). Their substance is
concurrency: worker pools driven by signals, a fork-join pool, a sequence lock, parallel
sums, bounded buffers, message queues. This directory models those programs in TLA+, checks
the models with TLC and proves their safety properties with TLAPS for every number of workers,
tasks, threads, elements and slots.

    tlc -workers 2 -config MCWorkerPool.cfg MCWorkerPool.tla      # one run
    tlapm WorkerPoolProofs.tla                                    # the proofs of one module

## 1. Inventory

| Component (source) | State | Operations | Interaction | Modelled in |
|---|---|---|---|---|
| Thread pool, `lab_4/prob1_FIFO` | ring `wrk_fifo` with head, tail, size, mutex; per worker a slot `worker[]` and a flag `wrkid_busy[]`; task list | `bkwrk_create_worker`, `bktask_init`, `bkwrk_get_worker`, `bktask_assign_worker`, `bkwrk_dispatch_worker`, `bkwrk_worker` | shared memory of cloned threads, SIGUSR1 by `tkill`, `sigwait` | `WorkerPool`, `PoolContract` |
| Process pool, `lab_4/prob2_forkAPI` | the same, slots and flags in `MAP_SHARED` mappings, one ring **per process** | the same, with `fork`, `kill` | shared mappings, signals | `ForkPool` |
| Fork-join pool, `lab_4/prob3_ForkJoin/test` | task table, `task_count`, `active`, pool lock and condition, a lock and a condition per task | `fj_pool_init`, `fj_fork`, `fj_join`, `worker_function`, `get_next_task`, `fj_pool_shutdown`; client `fibonacci` | mutexes, condition variables; workers block in joins | `ForkJoinPool` |
| Fork-join framework, `fork_join_framework.c` | a `task_t` per task on the stack of its parent, with lock, condition and flag | `fork_task`, `join_task`, `run_task`; client `worker_sum` | a thread per task, mutex and condition of the task | `ForkJoinFramework` |
| Sequence lock, `lab_3/exercises/prob_1` | `sequence`, mutex; a shared pair of values | `init`, `rdlock`, `rdunlock`, `wrlock`, `wrunlock`; readers and writers of `test.c` | shared memory | `SeqLock` |
| Aggregated and parallel sums, `lab_3/exercises/prob_2`, `ex2aggsum`, `lab_2/problem_2` | index ranges, a shared total or a cell per thread, a mutex | argument checks, partition, `validate_and_split_argarray`, the adders, the join | `pthread_create` / `join`; `aggsum`'s child process | `RangeSum` |
| Log buffer, bounded buffers, wait/notify: `ex3logbuf`, `p2pc`, `practices/bounded_buffer.c`, `ex4waitnoti` | slots and counts | `wrlog`, `flushlog`, `put`, `get`, producer, consumer | condition variables, semaphores, a mutex | `Buffers` |
| Resource manager, philosophers, periodic detector: `ex6resreq`, `p3dinPhil`, `ex5recovery` | counters, forks, a lock | request, release, eat, check | condition variables, semaphores, mutexes | `Resources` |
| Lock-free stack and second sequence lock: `ex7lockfree`, `ex1seqlock` | top pointer and nodes; sequence | `push`, `pop`; the inline operations of `seqlock.h` | compare-and-swap | `LockFree` |
| Shared counters and movie ratings: `p1mutex`, `practices/shared_buffer.c`, `hello_thread.c`, `lab_2/problem_1` | counters | additions, forks | a mutex, or none | `Counters` |
| Two-way messages, `msgsnd` / `msgrcv`: `lab_2/problem_3`, `lab_2/practice` | queues | send, receive, removal of the queue | System V message queues | `Messages` |
| mmap sharing, `writer` / `reader`: `lab_2/problem_4`, `lab_2/practice` | a file's page; a segment | write, read, removal of the segment | shared mappings | `Sharing` |
| Calculator, `lab_1/Calc_C` | the file that keeps ANS | read a line, calculate, save | a file | `Calculator` |
| Calculator as a shell script, API templates, `multivar.c` | - | - | - | not modelled (section 5) |

What is hard in this code is the order of things: three unlocked stores that a signal makes
visible (`bkwrk.c:96-98`), a worker that cleans up and then re-enters the ring while main
assigns, signals that merge or come too early, a loop variable whose address is passed to a
thread, a ring that a `fork` silently copies, joins that block the threads needed to finish
the joined tasks, wakeups sent to the wrong condition, a reader overlapping two writers; in the
smaller programs a mutex that its last holder never gives back, a circle of philosophers, a
message queue that outlives its session, an index computed with a product that overflows.
`PROJECT.json` lists each hazard at its line with the properties that watch it.

## 2. Modules

* **`PoolContract`** - what the pool API promises: workers wait in arrival order, the
  scheduler hands out the longest-waiting one, a worker is given one task at a time and runs
  it once. No ring, no mutex, no signals.
* **`WorkerPool`** - `prob1_FIFO` in full. Every ring operation is two steps (store or read,
  then the indices) inside the mutex; assignment is three steps (flag, `func`, `arg` and id);
  dispatch is check and `tkill`; the worker's loop is one step per statement that touches
  shared state. The main thread is any client that makes the four calls for each task in
  `main.c`'s order; calls for different tasks interleave freely, so `main.c`'s own order of
  calls is one of the behaviours. `GetNoWorker`, `AssignFails`, `DispatchFaults` are the
  error path of the empty ring, ending in the fault of `wrkid_tid[UINT_MAX]`. `i` is the loop
  variable of `bkwrk_create_worker`, whose address the workers get (`IdRead` says what a late read
  of it may find once the function has returned), `j` the other `i` that its filling loop declares
  (`bkwrk.c:171`). An
  instance of `PoolContract` at the end of the module is the refinement mapping.
* **`WorkerPoolQuit`** - the same pool when the terminal's quit key sends SIGQUIT, which is in
  the workers' `sigwait` set.
* **`WorkerPoolProofs`** - the inductive invariant of `WorkerPool`, the theorems about it and its
  refinement of `PoolContract`.
* **`ForkPool`** - `prob2_forkAPI`. `wrk_fifo` is a function from processes to rings: `Fork`
  copies main's, `Requeue` changes the worker's own. Processes have one thread, so a ring
  operation is one step. `mmap` and `fork` may fail; `Dispatch` to a child that has not blocked
  SIGUSR1 yet kills it.
* **`ForkJoinPool`** - the fork-join pool with `fibonacci` as its client. One step is a
  critical section or the part of it before the next lock: `pool_lock` is held from `Fork` to
  `ForkSignal` and from `FindTask` to `MarkRunning`, a task's lock from `Store` to `Report`.
  Condition variables are the sets of threads at `wait` (for `task_available`) and `asleep` (for a
  task's `completion_cond`); a signal moves one of them on, a broadcast all, and
  `SpuriousWakeup` moves any. `tracked` covers both what `main.c` does (`parent_id` always -1)
  and the caller that the comment `main.c:32` has in mind, which passes the current task's id. Where
  the code would leave its arrays or dereference a null result the model sets `undefined` and
  stops.
* **`ForkJoinFramework`** - a thread per task. A task is named by its range; its thread exists
  from `Fork` on (or is `missing`, when `pthread_create` failed unnoticed). `join_task`'s critical
  section is one step, `run_task`'s is two (`Complete`, `Unlock`), with the late read of
  `task->result` as a third step `Return`. `completed` starts with any value, as stack memory does.
* **`SeqLock`** - the lock and `test.c`'s threads, one step per access to a shared variable, and
  callers of `rdlock`. The counter has `Modulus` values, so it wraps around.
* **`RangeSum`** - three programs that split a range among threads, from their command lines
  to their output. The split is written as the loops are, one step per range; `ToInt` is the
  wrap-around of an `int`, `IntMax` its width. `aggsum`'s child sums beside the threads. Any call of
  `pthread_create` may fail, and no program looks: the thread is `missing`, its cell holds
  what it held (`Leftovers`, in `sum_multi_thread` alone), and the join of its unset id returns, blocks
  or kills the process (`JoinFaults`).
* **`Runtime`** - what the small programs stand on: a program counter per thread, one record of
  shared memory, and mutexes, condition variables, semaphores and joins as actions on it.
* **`Buffers`**, **`Counters`**, **`Messages`**, **`Resources`**, **`LockFree`**, **`Sharing`**,
  **`Calculator`** - one module per family of small programs. Programs of a family share the
  actions their code shares; `program` says which one runs. Every module has its own `Step`,
  `Fairness`, invariants and `AtRest`, the list of the ways in which its programs may end or
  wait for ever. System calls whose failure the code handles or overlooks may fail: `msgsnd` (reported,
  and the line is gone), `shmget`, `shmat`, `shmdt` and `shmctl`, the calls of `mmap_sharing.c`, and
  `push`'s `malloc`, whose null pointer kills `lock_free.c`.
* **`Labs`** - the families side by side: a behaviour is a run of one program. It only joins
  their formulas.
* **`...Proofs`** and **`SumTheorems`** - the theorems and their proofs (section 4). `LabsProofs` is
  about all of the small programs.
* **`MC...`** - constants for TLC.

Mutants (definitions under a comment `Mutant: ...`) stand before the definition they
replace. Each one is a plausible slip in the code, and replacing the definition by it
makes TLC report the property that `PROJECT.json` names.

## 3. Runs

| Run | Instance | Shows |
|---|---|---|
| `worker_pool` | 2 workers, 4 tasks | Type and ring invariants, no worker lost or dropped, woken workers find their task, signals never merge, every dispatched task runs and its worker returns, and the pool implements `PoolContract`. |
| `worker_pool_quit` (violation) | 2 workers, 3 tasks, 1 quit key | An idle worker that takes SIGQUIT enqueues itself twice; the scheduler then returns a busy worker, against the comment `bkwrk.c:178-181`. |
| `worker_start` (violation) | 2 workers | Without the assumption on `usleep(100)` a worker reads the loop variable too late and works under a wrong id, against `bkwrk.c:46`. |
| `fork_pool` | 2 workers, 4 tasks | Slots stay consistent across processes without a lock, a task runs unless its signal kills the child early, and each worker is handed out once: main always comes to find the ring empty. |
| `fj_pool` | 3 workers, 5 table entries, fibonacci(0..4) | Tasks are taken by one worker each, children are counted before they report, results are right, no `task_available` signal is lost, faults have their two causes, a shutdown that begins returns and leaves everything at rest, and a waiting task starves only when every worker blocks in a join. `SignalledTooEarly` shows that `completion_cond` is signalled only while its task still runs. |
| `fj_join` (violation) | 2 workers | A thread that begins to wait in `fj_join` before the task completes waits for ever. |
| `fj_framework` | 3 elements, 5 tasks | A finished task holds the sum of its range in every order of threads; a `task_t` is in use only while its parent's frame exists, but for the read in line 34; nobody sleeps on a completed task; a join waits for ever only if a thread below it was not created. |
| `seqlock` | 3 writers, 2 readers, 1 caller, 8 counter values | Writers exclude each other and keep the sequence odd while they store, no reader accepts a torn pair, every thread finishes. |
| `sums` | command lines with up to 7 elements and 5 threads, ints from -8 to 7 | The split covers the elements exactly, with `aggsum`'s minimum per thread unless the product in its check overflows. Every printed total is the sum of the elements of the threads that were created, and of what the cells of the missing ones held; with none missing it is the sequential sum. For every order of the additions and every choice of failing calls. |
| `sums_create` (violation) | as `sums` | A `pthread_create` that fails goes unnoticed, and `sum_multi_thread` prints a wrong number as the sum, against the text it prints (`sum_multi_thread.c:68`). |
| `labs` | the sixteen small programs, two slots, queues of two, four philosophers | What is handed over arrives once and in order, what is taken is given back, unlocked counters lose only so much, and every program comes to rest in one of the listed ways. Several of those are faults of the code that this run documents and does not flag: a consumer that waits for ever, a circle of philosophers, a full queue, a division by a zero that was 0.5. |
| `seqlock_rdlock` (violation) | as `seqlock` | `rdlock` returns in the middle of a write, against the comment `seqlock.c:37`. |

### Bounds and why they are enough

* `WorkerPool`: with two workers and four tasks a worker is used a second time, the ring is
  full, empty and wrapped around, two requeues compete for the mutex, and the error path of
  the empty ring is taken. Three workers and four tasks have been checked too (612 thousand
  states) and show nothing new; the proofs cover every size.
* `ForkPool`: twice as many tasks as workers, so both the last handed-out worker and the
  empty ring occur, with every subset of children killed early.
* `ForkJoinPool`: fibonacci(3) fills the table of five exactly, fibonacci(4) overflows it (and
  so reaches the failed fork, the join of -1 and the scan behind the table); all workers
  blocked in joins is reachable as well as completed runs with a shutdown. With three
  workers two can block in joins while the third works on, or two leaves run side by side. Four
  workers have been checked for safety too (144 thousand states up to a renaming of the workers)
  and show nothing new.
* `ForkJoinFramework`: three elements give an inner task beside a leaf, so the second task
  may be done long before the first that is joined. Powers of two make the sums of different sets
  of elements different. Four elements (166 thousand states) have been checked for safety.
* `SeqLock`: the counter of eight values wraps around during the run. A reader could be fooled
  only if the writers went once around the whole range between its two looks - with 32 bits,
  two billion writes; three writes keep the instance below that, as `test.c`'s ten do.
* `RangeSum`: every number of elements up to seven and of threads up to five, so shares that differ by
  one, threads without an element, too many threads and the overflow of the product in
  `validate_and_split_argarray` (utils.c:68) occur; the elements are powers of two, so each set of elements has a sum of its own. An
  uninitialised cell holds 0 or 1000, more than all elements together: a leftover that goes
  unnoticed by its value, and one that does not.
* `Labs`: five items through two slots wrap the ring around twice; three additions per thread
  are the least for which the smallest unlocked result (2) differs from all simpler guesses;
  requests of 2, 3, 2 and 1 units out of 3 make two processes wait at once; three heap nodes let
  `malloc` give a node out again while a second client holds its old address; two lines through
  the calculator use ANS once. One spurious wakeup per run (`MaxSpurious`). The proofs cover every
  size and every number of spurious wakeups.

### Fairness

Threads and processes are scheduled: weak fairness on every thread's steps. In `WorkerPool` and
`ForkPool` a worker may not stop inside its loop; `WorkerPool` leaves it open whether main goes on
between two calls (only calls it has begun are finished), `ForkPool` lets main run on as
`main.c` does. After main's fault the threads of `WorkerPool` are under no obligation (they share
main's memory), the processes of `ForkPool` are. Mutexes need no strong fairness here, because
each of them is taken only finitely often by others (in `Labs` every program makes finitely many
passes, but for consumers that wait, and a consumer that waits leaves the mutex alone). Spurious wakeups may happen at any
time and are never relied on; nor is the failure of `msgsnd` (`SendFails`), which no thread owes: a
sender before a full queue may be blocked for ever. `fj_join` is checked under the same fairness: the thread stays
asleep although every other thread runs.

## 4. Proofs

Eight modules hold theorems; between them they state every safety invariant that a passing run
checks. Each inductive invariant has been checked by TLC on small instances too; the named assumptions of
the modules are the only ones used.

**`WorkerPoolProofs`** proves, for every `MAX_WORKER >= 1` and every number of tasks, that each
safety invariant of the `worker_pool` run holds. The only assumption is `PoolAssumption`; that
`usleep(100)` suffices is part of `Spec` (`PauseIsEnough`).

None of the invariants is inductive by itself. That the scheduler returns an idle
worker needs to know that everything in the ring is idle; that holds because a worker cleans
up before it enqueues itself; that it meets a free cell needs all workers to be somewhere
else than in the ring twice; and so on round. `IndInv` closes the circle in two layers:

* `Inv1` (control): the types; which task and worker the main thread's current call is about
  (`CallOK`); who holds the mutex (`MutexOK`); workers boot one at a time and know their id
  (`ThreadOK`); nothing is assigned during creation (`CreatingOK`).
* `Inv2` (data): the tail is the cell behind the last worker (`TailOK`); what a half-finished
  ring operation has stored (`RingOK`); no worker twice in the ring (`Distinct`), all of them
  idle (`InIdle`); what a returning worker has cleaned (`ReturnOK`); a reserved worker sleeps
  outside the ring for one task only (`ReservedOK`), its slot is empty and then full
  (`SlotOK`); a signalled worker has its task (`DutyOK`); every worker is somewhere (`PlaceOK`).

Each conjunct has a lemma that every action preserves it, from the conjuncts it needs. The
arithmetic of the ring is isolated in lemmas about one step of an index (`NextCell`), about
the tail, and about the set of workers in the ring before and after each operation.
`RequeueNeverDropped` is a counting argument on top: a full ring of distinct workers holds
all of them, so the enqueuing one would have to be in it, which `InIdle` excludes.

Its last part proves that `WorkerPool` implements `PoolContract` (`PoolKeepsItsContract`). The
contract's queue is the sequence of the ring's cells from head to tail; its steps are the
second half of an enqueue (`Park`), the second half of a dequeue (`Take`), the last store of an
assignment (`Give`) and the call of the task's function (`Run`); every other step stutters. The
simulation needs `IndInv` and one invariant more, `DispatchedOK`: a dispatched task's worker is on
its way to run it or has run it.

**`ForkPoolProofs`** proves the four safety invariants of `ForkPool`. Main's ring is filled once with
0, 1, ... and then only dequeued, because the children requeue themselves in their own copies: so
it holds the workers from some number on, in order (`RingOK`), a worker below that number belongs
to one task for good, and `Stage` says how far the two have come in step with each other. That
the unlocked slots in shared memory stay consistent is a consequence.

**`ForkJoinFrameworkProofs`** is about every size of the array. Whoever is joined exists, the flag is
set by its task alone, and nobody sleeps on a completed task (`ControlInv`). Stack frames: a task at
work is always still to be joined by the one thread whose frame holds its `task_t`
(`FramesLastLongEnough`), for which one has to know that no two threads fork the same range. This
is geometry: the ranges of existing tasks are nested in one half of each other or apart, and one
that lies in a half was forked after that half (`TreeInv`). `RangesForkedOnce` turns that round: a
fork always creates a new range, so the module's naming of tasks by ranges identifies nothing
that differs. `SumsAreCorrect` says that a finished task holds the sum of its range: `SumInv` follows
the sums from `res` to `result` to `v1`, and a lemma adds those of two halves.

**`SumTheorems`** holds the lemmas on sums that this module and `RangeSumProofs` share. That a sum does
not depend on the order of its terms is proved from the library's definition of `SumFunctionOnSet`
(`SumsExist`, `SumInsert`, `SumUnion`); the functions may have any finite domain.

**`ForkJoinPoolProofs`** covers every finite set of workers, every size of the table and every n, in
six layers. `ControlInv`: the types, which thread holds which lock, and which worker is at work on
which task, so that a task runs in one worker (`TasksRunOnce`). `WakeupInv`: while a worker waits,
the workers that are on their way to the table are at least as many as the tasks that wait there, up
to one while `pool_lock` is held: the fork that adds a task sends a worker before it lets go of the
lock (`WakeupsReachWorkers`). `CountInv`: the counters of a task are the sizes of the sets of its
children, announced and reported (`ChildrenAreCounted`). `QuietInv`: a worker exits only after the
shutdown, and the last one only when it has found no waiting task (`DestroyFindsQuiet`).

The last two layers are about what the tasks compute. `ValueInv`: every number in a result or in a
parent's locals is the Fibonacci number of the task it comes from, or the null pointer of a failed
malloc, and a null result or a task number -1 has one of two causes (`ResultsAreFibonacci`,
`FaultsHaveCauses`). `OpenInv`: a child that has not reported is still to be joined by the worker at
work on its parent, so whoever is woken by its report finds the parent unfinished
(`SignalsComeEarly`); this is why the run `fj_join` finds a thread asleep for ever.

The library's induction theorems take an operator as a parameter, which the provers do not
instantiate. Where a proof needs induction - over numbers for the equation of `fib` (`FibEquation`),
over sets of indices for sums, over the number of sub-ranges - it goes by a smallest counterexample:
the lemmas `Least` and `SmallestMember` derive its existence from `FS_StrictSubsetOrderingWellFounded` and `WFMin`.

**`SeqLockProofs`** covers any number of writers, readers and callers, and any even size of the
counter. Between two increments a writer holds the mutex and the sequence is odd
(`WritersStoreAlone`). A reader's accepted pair is one write's pair (`NoTornReadBeforeWrap`) under
the explicit hypothesis `NoWrap`: all writes so far do not take the counter around its whole range.
Without it the statement is false, and the code does nothing about it.

**`RangeSumProofs`** gives the split of the sums in closed form (`RangesAreTheClosedForm`): after any
number of steps of the loop, every range made is the one its number determines. From it
`SplitIsExact`: for every width of `int`, every accepted number of elements and threads, the ranges
cover the elements exactly once and in order. `TotalsAlwaysAgree` goes on to the additions: at any time
the total is the sum of the parts of the threads that are done (`TotalOK`), since whoever has read
the total holds the mutex and finds nothing changed when it stores (`MutexOK`). When main has joined,
each thread is done or was never created. The ranges lie apart (`RangesApart`), so the parts of those
that are done make up the sum of what they cover (`CoveredSum`), and if none is missing the sum of all
elements (`SumOfRanges`). That holds for every array, every number of threads, every order and every
choice of threads that fail to be created.

**`LabsProofs`** covers the small programs: buffers, queues, stacks and counters of every size, any
number of items, messages, additions, requests and philosophers. A behaviour of `Labs` runs one
program (`ProgramKept`); `IndInv` has, for each program, an invariant of its own, which says what its
memory looks like and why `NothingLost`, `ResourcesKept` and `UpdatesBounded` hold.

* `pc.c` (`PcInv`): the two semaphores and the threads between a wait and a post add up to the slots
  (`PcCount`), which is why the ring is neither overrun nor read when empty; the ring holds the items
  made and not yet taken, in order, around its wrap (`PcRing`), and `put` and `get` exclude each
  other (`PcMutex`).
* `wait_noti.c`, `logbuf.c` (`WnInv`): the mutex has an owner exactly when a thread is in a critical
  section, a wait that gives it up and a spurious wakeup included (`Excluded`); what was made is in
  the buffer or was taken (`Handed`). No argument about `waiting` is needed: the predicate is
  tested again after every wakeup.
* `shrdmem.c`, `shared_buffer.c`, `hello_thread.c`, `movie_ratings.c` (`CntInv`): `Bounds` puts a
  counter between limits given by what each of the two adders has added to it, which is not
  inductive without `SeenBounds`, the limits on a value that an adder has read and will store, perhaps
  over later additions of the other. Under the mutex (`CntLocked`) what was read is still there.
* `two_way_msg.c` (`TwoInv`): what a receiver got, followed by what is in its queue, is what an earlier
  session left, followed by what this one has sent. `msgsnd.c` and `msgrcv.c` (`MsgInv`): the
  receiver reads the sender's own queue until the sender removes it (`MsgIds`), so it gets a prefix
  of what was sent (`MsgPrefix`), and loses at most what the removal destroys (`MsgOrder`).
* `async_res_request.c` (`ArrInv`): the units available and those held add up to `NUM_RESOURCES`, a
  sum over any set of processes. `dinPhil.c` (`DinInv`): a fork's semaphore and its users add up to
  one, on a circle of any size; a philosopher who eats has two different forks, so one who is alone
  at the table never eats.
  `periodic_check.c` (`PerInv`): the detector that leaves its loop keeps the mutex for ever.
* `seqlock.h` (`PairInv`): the writer keeps the sequence odd while it stores, and what the reader has
  copied is the writer's pair as long as the sequence is the one the reader has seen.
* `lock_free.c` (`LfInv`): following `next` from `head` visits each node of the stack once (`Stack`, a
  sequence without repetitions from the bottom to the head); a node in use is on the stack
  or in one client's hands (`LfHands`); what a client holds of an old head is right unless it has
  gone stale (`LfReads`), so its compare-and-swap succeeds only on the stack it has read. Only a
  second client can make a client stale (`LfAlone`).
* `mmap_sharing.c`, `writer.c` and `reader.c`, `calc.c` (`MmapInv`, `ShmInv`, `CalcInv`): what a reader
  shows was written, a segment is removed by the writer alone, ANS on file is the last result.

The assumptions on the constants are those of the code: a buffer has a slot, there is a philosopher,
a thread adds at least once; a movie's ratings are positive (they are 1 to 5 in the files beside
the program; with a rating of 0 or below, a sum need not grow with its count); typed
lines are strings; `NULL` is no node and there are finitely many; the mark `Free` of a mutex is no thread's name.

### What is only model-checked

Everything temporal under fairness: `TaskRunsAndWorkerReturns`, `RunsUnlessKilledEarly`,
`PoolRunsDry`, `TakenUnlessAllJoin`, `ShutdownReturns`, `JoinReturns`, `AllThreadsJoin`,
`ComesToRest`. TLAPS has no rules for `ENABLED`, on which fairness rests. The properties of the runs that
expect a violation are false.

## 5. Not modelled

* Memory layout: the stacks given to `clone` (`bkwrk.c:122`) are assumed disjoint, and the
  cells `id[]` that tasks point to are not tracked.
* `WorkerPool`'s branch without `WORK_THREAD` and `ForkPool`'s branch with it are not compiled.
* Failures of `pthread_create` where the code does not look at its result (`ForkJoinFramework`
  and `RangeSum` do model them), of `clone` and of mutex calls.
* In `prob2_forkAPI`, what the workers forked before a failing fork do after main has returned.
* Compiler and processor reordering of the unsynchronised accesses: the models take the
  accesses in program order. Compare-and-swap fails only when the values differ.
* The calculator's conversions of numbers beyond an `int`, and `INT_MIN % -1`. Movie numbers
  outside the arrays of `movie_ratings.c`.
* `calc.sh`: its arithmetic is `bc`'s, and its history is text. The API templates under
  `lab_3/labSync-student/API` and `multivar.c` show single library calls and addresses. The
  sources under `lab2-student` repeat those of `lab_2/practice`.
* The width of the sums in `RangeSum`: int elements, fewer than 2^31 of them, cannot overflow a 64-bit
  total; `sum_multi_thread` could with n above 4 * 10^9.
* Output, prompts and layout.

## 6. Plan, and what is left

Done, in this order: the thread pool with its contract and proofs; the process pool; the
fork-join pool and framework; the sequence lock; the parallel sums; the small programs; the proofs
of everything named in section 4. Left, should the code grow:

1. The second client of the lock-free stack with counted pointers, if `lock_free.c` gets them.
2. A repaired `fj_join` that signals the task's own condition, to be checked by the run `fj_join`.
