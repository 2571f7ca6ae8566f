# Sleeping, waking and handing over in Linux 2.6.32.21: a TLA+ verification project

The repository is the Linux kernel, version 2.6.32.21. This project models
the part of it that every other part relies on and that testing reaches least:
the code that makes tasks wait for each other. These are the locks a task may
sleep on (counting semaphores, mutexes with five architecture fast paths and
optimistic spinning, both implementations of reader/writer semaphores, page
locks on hashed wait queues), the work queues with their flush and cancel
functions, sleepable RCU, and the lock-free byte FIFO. With them come the task
sleep and wakeup protocol and the linked lists they are built from. TLC checks the
modules on small instances, and TLAPS proves the safety of the locks, the FIFO and
the work queues for any number of tasks and any size.

Paths below are relative to `src/linux-2.6.32.21/`.

## Inventory

| component | state | operations | interacts with |
|---|---|---|---|
| counting semaphore, `kernel/semaphore.c` | `count`, `wait_list`, a waiter with `up` on each sleeper's stack | `down`, `down_interruptible`, `down_killable`, `down_timeout`, `down_trylock`, `up` | spinlock `sem->lock` around everything but the sleep; signals, timers |
| mutex, `kernel/mutex.c`, `mutex.h`, `mutex-debug.c` | atomic `count`, `owner`, `wait_lock`, `wait_list`; `debug_locks` of the debugging build | lock (three variants), unlock, trylock, optimistic spinning | fast path of the architecture; `mutex_spin_on_owner()` of the scheduler; signals |
| mutex fast paths, `asm-generic/mutex-{dec,xchg,null}.h`, `arch/arm/include/asm/mutex.h`, `arch/x86/include/asm/mutex_32.h` | `count` only | lock, unlock, trylock, "does the slow path unlock?" | run concurrently with the slow path, without its lock |
| rwsem by exchange-and-add, `lib/rwsem.c`, `arch/x86/include/asm/rwsem.h`, `arch/x86/lib/{semaphore_32,rwsem_64}.S` | `count` (active part, negative waiting part), `wait_list`, a waiter with `task` and `flags` per sleeper | down/up for read and write, both trylocks, downgrade | locked instructions outside `wait_lock`; grant by another task |
| rwsem by spinlock, `lib/rwsem-spinlock.c` | `activity`, `wait_list`, waiters | the same | as above, but the state changes under `wait_lock` only |
| task sleep and wakeup, `kernel/sched.c`, `signal.c`, `timer.c` | `->state`, pending signals | `set_task_state`, `schedule`, `wake_up_process`, `signal_wake_up`, `process_timeout` | all of the above |
| lists, `include/linux/list.h` | entries in order | add at the tail, delete, first, empty | all of the above |
| wait queues, `kernel/wait.c`, `__wake_up_common()`; page locks, `mm/filemap.c` | `PG_locked`, a hashed queue shared by several pages, an entry per sleeper | lock (killable or not), wait, unlock; prepare, finish, abort, wake | bit tests outside `q->lock`; fatal signals |
| kfifo, `kernel/kfifo.c` | `in`, `out`, `buffer` | put, get, reset, with and without `fifo->lock` | one writer and one reader with no lock between them |
| work queues, `kernel/workqueue.c` | per CPU: `worklist`, `current_work`, a worker thread; per work: pending bit, `data`, timer | queue (at once, delayed), flush (work, queue), cancel (with and without waiting), destroy | timers, completions, `kthread_stop()` |
| SRCU, `kernel/srcu.c` | `completed`, two counters per CPU, `mutex` | `srcu_read_lock`, `srcu_read_unlock`, `synchronize_srcu` | `synchronize_sched()`, which stands in for the readers' missing barriers |
| futexes, rt-mutexes | | | not modelled; see the end |
| RCU, lockdep, scheduler classes, process, memory, file-system, network, block, driver and architecture code | | | not modelled; see the end |

What is hard about the modelled parts:

- two protocols on one word, a fast path by atomic instructions and a slow path
  under a spinlock, that must agree on what every value of the word means;
- waiters on the stack of the sleeper, handed between tasks and gone as soon as
  the sleeper is told that it may go on;
- sleeping and waking without a common lock, where a wakeup must not fall between
  the test and the sleep;
- signals, timeouts and stray wakeups that arrive together with the real one;
- arithmetic on a word that counts two things at once;
- state read without a lock and acted upon under one, or under the wrong one;
- indices and counters that wrap, and counters that only mean something in sum;
- readers without barriers, whose accesses drift out of their critical sections;
- progress: someone has to be left responsible for waking the next waiter.

For each lock correctness means: exclusion (or conservation of units), no
lost wakeup, wait lists that link exactly the tasks that wait, order or freedom
from starvation where the code promises it, and auxiliary fields (`owner`,
`activity`, `count`) that say what their readers take them to say. For the FIFO it
means that it is a queue; for work queues, that a request is neither lost nor done
twice at once and that flush and cancel have waited for what they promise; for SRCU,
that nothing is freed which a reader may still use. The list
`hazards` in PROJECT.json gives the lines where each could go wrong.

## Modules

| module | models |
|---|---|
| `TaskSleep` | `->state`, pending signals and the steps that change them |
| `KernelList` | a list as the sequence of its entries; an entry is named by the task on whose stack it lives |
| `Semaphore` | `kernel/semaphore.c` |
| `Mutex` | `kernel/mutex.c` over the five fast paths |
| `RwSem` | `lib/rwsem.c` with the x86 fast paths |
| `RwSemSpinlock` | `lib/rwsem-spinlock.c` |
| `FairRwLock` | what a fair reader/writer semaphore promises: one queue, everybody who can be let in at once |
| `PageLock` | `kernel/wait.c` and `__wake_up_common()` as the page locks of `mm/filemap.c` use them |
| `KFifo` | `kernel/kfifo.c` |
| `BoundedQueue` | what the FIFO promises: a queue whose put and get take effect at once |
| `WorkQueue` | `kernel/workqueue.c`, with the parts of timers, completions and kernel threads it uses |
| `Srcu` | `kernel/srcu.c` |
| `MCSemaphore`, `MCMutex`, `MCRwSem`, `MCRwSemSpinlock`, `MCPageLock`, `MCKFifo`, `MCWorkQueue`, `MCSrcu` | instances for TLC |
| `KernelListProofs` | what the list operations do to the entries of a list, to their order and positions, and to the absence of duplicates |
| `SemaphoreProofs`, `MutexProofs`, `RwSemProofs`, `RwSemSpinlockProofs`, `PageLockProofs`, `WorkQueueProofs`, `CounterProofs` (kfifo and SRCU) | the theorems |

`Semaphore`, `Mutex`, `RwSem`, `RwSemSpinlock` and `PageLock` extend `TaskSleep` and
`KernelList`; `WorkQueue` extends `KernelList`. `RwSemSpinlock` is shown to
implement `FairRwLock`, `KFifo` to implement `BoundedQueue`, each by an INSTANCE with
a refinement mapping.

A definition whose name ends in a suffix such as `_off_by_one`, and which is
announced by a comment "Mutant of", is a plausible mistake in the definition
that follows it. It is not part of the model: PROJECT.json lists it, and the
property named there fails when it takes the definition's place.

### Grain of atomicity

*Semaphore.* All of its state is protected by `sem->lock`, so a function is one
action, except that a `down` which has to wait is cut at `schedule_timeout()`.
`down` queues the waiter; `DownReturnsZero`, `DownGivesUp` and `DownSleepsAgain`
are what it does when it runs again, in the order of the tests in the code
(`waiter.up` first). The count of jiffies is abstracted to none left, some left
and `MAX_SCHEDULE_TIMEOUT`. `taken` and `extra` are ghosts: units that callers
have, and units added by an `up()` without a `down()`, which the kernel allows.

*Mutex.* `count` and `owner` are accessed without a lock, so an action contains
at most one access to one of them. `pc` says where in the code a task is.
The steps are: fast path, spin loop (read the owner, spin on it, compare and
exchange), `LockSlowpath` (take `wait_lock`, queue, first exchange), `LockRetry`
(exchange, then succeed, leave with `-EINTR`, or sleep), `LockWakes`, `LockDone`
and `LockDoneCount`, `mutex_unlock` (clear the owner), `UnlockFastpath`,
`__mutex_unlock_slowpath`, and the trylocks. Whether the owner that a spinner
watches is running, whether the spinner holds the BKL and whether it should
reschedule are free choices. `fastpath` is chosen initially and never changes: one
specification, and one run, stands for all builds. `dec386` is the build for CPUs without
`cmpxchg` (`mutex_32.h:120`): the decrementing fast paths run beside the trylock under
`wait_lock`, which therefore takes three steps (exchange, owner, count). Unlocking under
`wait_lock` is one action: its two accesses, to `owner` and `count`, are both made under
`wait_lock`, and the former only in the debugging build (`null`), where nobody reads `owner`
without that lock. In that build `debug_mutex_unlock()` clears the owner, but not any more
once a misuse of some lock anywhere in the kernel has turned `debug_locks` off
(`mutex-debug.c:74`), which may happen at any time (action `debug_locks_off`).

*RwSem.* One access to `count`, or to one `waiter->task`, per action, so the
windows between an increment and its undo, between zeroing `task` and the
wakeup, and between a waiter's test and its sleep are all open to the others.
`count` is an unbounded integer: the limit of 32767 lockers (2147483647 on
x86-64) documented in `rwsem.h:60` is an assumption
(`Cardinality(Tasks) < RWSEM_ACTIVE_MASK`). `WAKE_MASK` is the part of the
old value that `call_rwsem_wake` tests: `decw %dx` sees 16 bits, which is all of
the active part on i386 and half of it on x86-64. `undone` is a history variable
for the finding below. A trylock that fails changes nothing and has no action.

*RwSemSpinlock.* Everything but the wait loop happens under `wait_lock`, and so
is one action. A waiter released in the middle of `__rwsem_do_wake()` cannot do
anything to the semaphore before the lock is dropped.

*PageLock.* One look at `PG_locked`, at a `->state` or at the queue per action. What is
done under `q->lock` is one action, except that the walk of `__wake_up_common()` takes
several for each entry: test the key and the bit, `try_to_wake_up()`, and the two
stores of `list_del_init()`, in either order. Waiters run on beside it, up to
`finish_wait()`, which looks at its entry without the lock. `try_to_wake_up()` is
modelled with its result: a task that is still on the run queue gets its state set
but does not count as woken, so `asleep` is a `pc` of its own. Lock modes differ by
`TASK_KILLABLE` only; the masks of the wakers match both. `unlock_page()` from an
interrupt is one more task.

*KFifo.* A call is: sample the other side's index, copy byte by byte, publish the own
index. The barriers of the code order these three. With `locked`, a call excludes the
others from its first to its last step, and `kfifo_get()` starts over at 0. Indices
are taken modulo `UINT_RANGE`; the size divides it, which a power of two does.

*WorkQueue.* `cwq->lock` sections are one action, but for the two tests of
`try_to_grab_pending()` and `flush_work()`, between which `set_wq_data()` of
`queue_delayed_work_on()`, which takes no lock, may come. Every use of the pending bit,
of `work->data` and of the timer outside the lock is an action. A barrier is named by
the caller on whose stack it is. A callback is two steps, its start and its end, and
may queue anything meanwhile. `On` says on which CPUs a work may be queued; it also bounds the
CPU on which the work's timer fires and the one on which a caller of `flush_delayed_work()` runs,
which queues the work itself (`workqueue.c:664`). `Cancelled` are the works that somebody
cancels and waits for. `destroy_workqueue()` includes `kthread_stop()` and the
worker's exit. `asked` and `todo` are ghosts: works whose callback must start once
more, and what a flush found on entry. Single-threaded queues are the case of one CPU.

*Srcu.* A reader takes its index, counts up and down on the CPU it is on at the time,
and may migrate in between, as it may sleep. Each CPU sees its own counters at once,
memory sees them later (`own` and `c`). A reader may fetch the object before
`srcu_read_lock()` and use it after `srcu_read_unlock()`, up to the next context switch
of its CPU. `synchronize_sched()` is abstracted to what it promises, without the machinery
of `kernel/rcu*.c`: it waits until every CPU has switched, and a switch writes the CPU's
counters back. An updater replaces the object and reads `completed` in one step (`Enter`),
although no barrier orders the two at `srcu.c:158`. Done early, the load can precede
the replacement by at most one flip, because each grace period's `synchronize_sched()` makes
the updater's CPU switch as well; an advance of two then still contains a grace period that
begins after the replacement. The scan of the counters is one step per
CPU. `sp->completed` is kept as its lowest bit and, for each updater, the distance
from the value it read before taking the mutex.

Apart from `Srcu`, memory is sequentially consistent. On x86 the code uses locked
instructions or barriers at every point where it matters; the delayed plain store to
`lock->owner` is covered because a task may linger in `set_owner` while others
act. ARM's weaker order is not modelled beyond the failing `strex`.

Reference counts of tasks (`get_task_struct`, `put_task_struct`), lockdep
annotations, preemption counts and the debugging checks that change no state of the
lock are left out.

## What the runs check

| run | instance | properties |
|---|---|---|
| `semaphore` | 3 tasks, 1 unit, 1 extra | `UnitConservation`: free, promised and taken units add up whatever races with `up()`. `NoIdleUnit`: nobody is queued while a unit is free. `WaitListExact`: the list links exactly the waiters not yet served. `GrantedIsAwake`: a waiter with a unit is never put back to sleep. `ServedInOrder`: first come, first served. `WaiterServed`: nobody waits for ever |
| `mutex` | 3 tasks, 5 fast paths | `MutualExclusion`; `OwnerIsHolder`: `owner` never names a task that has let go, as long as lock debugging is on where the build has it, and always names a caller between lock and unlock; `WaitListExact`; `NoLostWakeup`: never do all waiters sleep on a free mutex with nobody on his way to wake them |
| `rwsem` | 4 tasks, x86-64 | `ReadersExcludeWriter`; `CountExact`: the value of `count` at every step; `NoDanglingWaiter`; `LostOnlyByUndo`; `NoOvertaking`: no fast path or trylock succeeds past the queue; `ServedInOrder`: the queue is served first come, first served |
| `rwsem_live` | 3 tasks, i386 | `WaiterServed` |
| `rwsem_lost` | 3 tasks, i386 | `NoLostWakeup`, which fails: the first finding |
| `rwsem_spinlock` | 4 tasks | `IsFairLock`: it implements `FairRwLock`; `ActivityExact`; `FrontMustWait`: whoever is first could not be let in, which `__rwsem_wake_one_writer()` takes for granted; `WaitersExact`; `WaiterServed` |
| `pagelock` | 3 tasks, 2 pages on one queue | `EntriesAlive`: no waker writes to an entry whose task has left; `NoLostWakeup`: nobody sleeps on for a page that was unlocked, even when the waiter that was woken is killed |
| `kfifo` | 4 bytes, indices modulo 8, up to 3 bytes a call, locked and not | `IsQueue`: it implements `BoundedQueue`; `NoOverlap`: the two sides never touch the same byte |
| `workqueue` | 2 CPUs, 1 work on both and 1 delayed work on one, 1 caller of everything | `PendingIsToken`: the pending bit has exactly one holder; `RunsWhereQueued`; `FlushComplete`, `CancelComplete`, `DestroyComplete`: they have waited for what they promise; `NoLostWakeup` of the workers |
| `workqueue_live` | 1 CPU, 1 delayed work, 2 callers | `BarrierAlive`: a barrier is gone from the list before its stack frame; `RequestServed`: no request is lost; `FlushReturns` |
| `workqueue_grab` | 2 CPUs, 1 delayed work on both | `CancelComplete`, which fails: the second finding |
| `srcu` | 2 CPUs, 2 readers, 2 updaters | `GracePeriod`: nothing is freed that a reader has or may still use; `SumCovers`: the sum under way misses no reader |

The type invariants of `Semaphore`, `Mutex` and `RwSemSpinlock` are checked too: there they
say that `count` and `activity` stay in range, which depends on the rest being right. In
the other modules `TypeOK` only documents the variables.

### Bounds

Three tasks suffice for a holder, a waiter and a third party that interferes (a
newcomer, a spinner, a second waiter). Four are needed where readers share:
two readers, a writer queued behind them and a waker, or three readers for
the 16-bit wake test (`WAKE_MASK = 1` against an active mask of 7 is to the
instance what 16 bits are to 32). Sequence and counter bounds follow from the
number of tasks; the only artificial bound is `MaxExtra`, the number of `up()`
calls without a `down()`. In `mutex` one fatal and one ordinary signal would
behave alike for the interruptible lock, so only ordinary ones are sent, and the
killable lock has to ignore them. Tasks are interchangeable, and symmetry is used
in the runs that check no liveness.

Two pages and three tasks give `pagelock` a holder, the waiter that is woken and
killed, and the next one, and strangers on the queue to be passed over. A FIFO of
four bytes with `UINT_RANGE = 8` wraps the indices at twice the size, the worst ratio
the assumption allows; three bytes a call make copies that are cut at the end of
the buffer and calls that find too little room. In `workqueue` the constants `On`,
`Cancelled` and `Ops` say on which CPUs a work is queued, which works are cancelled and
which functions a caller uses. A delayed work is bound to one CPU in the passing runs, because
it is cancelled there and the second finding breaks them otherwise; a plain work moves
between two. Delayed works that move and are not cancelled are left to the proofs. In `srcu`, `INT_RANGE = 6` is
the least value at which an advance of two is told from wrapping round, and
`COUNT_RANGE = 3` lets two readers be counted while single counters wrap.

With `FairSpec` TLC checks liveness without symmetry. Deadlock checking is on in
every run.

### Fairness

- A task that can run does (`WF` on its steps): the scheduler's promise.
- A holder lets go in the end, as part of the same condition: without it no
  lock serves anyone. Nothing forces a task to call `down` or `lock`, to downgrade,
  or signals, timers and stray wakeups to come, so no liveness result leans on them.
- `SF` on taking `wait_lock` in `RwSem` and `cwq->lock` in `WorkQueue`: x86 spinlocks
  are ticket locks and serve whoever waits, however often others take them.
- In `WorkQueue`, callbacks return and timers expire. Nothing makes a context queue a
  work or a caller flush.

Mutexes and page locks promise no freedom from starvation: newcomers take a free one
ahead of the queue. What is checked for them is `NoLostWakeup`. `up()` of the
semaphore and both reader/writer semaphores hand over to the queue, and their
`WaiterServed` needs no premise about newcomers.

## Findings

### The undo of `rwsem.c` loses a wakeup

`lib/rwsem.c:139` announces "undo the change to count, but check for a transition
1->0". The test that follows compares the whole `count` with 0. With somebody on
the queue its waiting part is negative, so it never is 0, and the retry is never
taken. `rwsem_lost` shows what that costs, with three tasks:

1. A has the semaphore for reading, B queues as a writer. A's `up_read()` brings
   the active part to 0 and is on its way into `rwsem_wake()`.
2. C's `down_read()` fails, C queues, finds no active locker and grants B.
3. A gets `wait_lock`, increments `count` and sees the active B: it must undo.
4. B's `up_write()` comes first. The old active part is 2, so `call_rwsem_wake` does
   nothing: it leaves the waking to the other active locker, A.
5. A undoes its increment. The active part goes from 1 to 0, the whole count does
   not become 0, A leaves. C sleeps, nobody has the semaphore, and nobody is going
   to wake C until some later call happens to.

`LostOnlyByUndo` and `WaiterServed` say that this is the only way: as long as no
undo has ended with an active part of 0, no wakeup is lost and every waiter is
served. `rwsem-spinlock.c` does not have the problem (`FrontMustWait`).

### `try_to_grab_pending()` can be fooled by a lock-free store

`kernel/workqueue.c:470` says that after a successful return "the caller 'owns'
WORK_STRUCT_PENDING bit, so this work can't be re-armed in any way".
`queue_delayed_work_on()` stores `work->data` without `cwq->lock` (line 257).
`workqueue_grab` shows, with a delayed work last queued on CPU 1:

1. The work moves to CPU 2's list. The canceller has read CPU 1 from `work->data` before,
   takes CPU 1's lock and finds the work linked, on CPU 2's list.
2. Before its second test CPU 2's worker takes the work and clears the pending bit, and a new
   `queue_delayed_work()` on CPU 1 sets it and stores CPU 1 in `work->data`.
3. The second test, `cwq == get_wq_data(work)`, succeeds. The canceller believes it has
   taken the work off CPU 1's list and owns the bit; the timer is being armed.
4. `cancel_delayed_work_sync()` clears the pending bit and returns with the timer armed. The
   next `queue_delayed_work()` meets `BUG_ON(timer_pending(timer))` at line 251.

The request has to come from another context than the callback, which would store the
CPU it runs on, and the canceller has to be on a third CPU: it has interrupts off between its
two tests, while CPU 2 runs the worker and CPU 1 the new request. Nothing in the code keeps it off
one. (The model does not say where callers run.) Continued, the trace also reaches
`BUG_ON(get_wq_data(work) != cwq)` at line 296: the bit is clear, so the work can be queued on CPU 2
while the timer function queues it on CPU 1. In the passing runs, where a delayed work stays
on one CPU, `CancelComplete` holds; the theorems show it wherever the delayed works that are
cancelled do.

## What is proved

All theorems hold for any set of tasks and all values of the constants that the
named assumptions allow (`SemAssumption`, `MutexAssumption`, `RwSemAssumption`,
`RwSemSpinlockAssumption`, `PageLockAssumption`, `KFifoAssumption`, `WorkQueueAssumption`).

*Semaphore* (`SemaphoreProofs`). `TypeOK` is inductive by itself (`TypeCorrect`).
`SemInv` adds `UnitConservation`, `NoIdleUnit`, `WaitListExact` and `GrantedRunning`,
and is inductive. `GrantedRunning` (a waiter with a unit is in state RUNNING) is
the strengthening of `GrantedIsAwake` that steps preserve: whether `schedule()`
returns also depends on pending signals, which other steps change. `WaitListExact` is needed for
conservation: `__up()` promises a unit to the head of the list, and the number of
promised units only grows by one if that task was waiting and had none.
`NoIdleUnit` rests on the test in `up()`. Theorems: `TypeCorrect`,
`ConservationCorrect`, `NoIdleUnitCorrect`, `WaitListCorrect`, `GrantedAwakeCorrect`.
For the action property `ServedInOrder` every step is shown to be a `QueueMove`: the
list stays as it is, gets a newcomer at the end, loses the waiter that gives up, or
loses its head to `__up()`, the only step that gives a unit to anybody. The lemmas about
`Precedes` in `KernelListProofs` say that each of these keeps the order of the others
(`ServedInOrderCorrect`).

*Mutex* (`MutexProofs`), for all five fast paths at once.

- `ExclusionInv` = types, `MutualExclusion`, `FreeIffOne` (`count` is 1 exactly
  while nobody has the mutex), `RestoreNegative` (the exchange trylock puts back
  negative values only), `WaitLockHeld` (who is inside `wait_lock`) and `FailedTrylock`: between
  the exchange and the store of 0 of a trylock that did not get the mutex, the fast paths of
  `dec386` cannot give it up, since they find the count negative. Every step of a task is a `SafeMove`: it takes a free
  mutex, gives up a held one, or changes neither the holder nor whether `count` is
  1; and every `SafeMove` preserves the invariant. Theorem `ExclusionCorrect`.
- `WakeupInv` adds `WaitListExact`, `SleepersContended` (if all
  waiters sleep, `count` is negative or some task is on its way to the wakeup or to
  making it negative) and `DoneContended` (the same for the window in which the
  new holder has not yet looked at the list). Steps outside the slow path are
  `QuietMove`s, the others are treated one by one. Theorems `WaitListCorrect` and
  `WakeupCorrect`.
- `OwnerInv` adds `OwnerCleared`: between clearing the owner and giving the mutex up,
  `owner` is NULL. Theorem `OwnerCorrect`: in every build but the debugging one `debug_locks`
  stays on and `owner` never names a task that has let go; in that one it holds until `debug_locks`
  goes off, and that a caller between lock and unlock is named holds even then.

*RwSemSpinlock* (`RwSemSpinlockProofs`). `RwInv` = `TypeOK`, `WaitersExact`, `HolderFlags`
(what a holder or waiter is recorded for is what it asked for), `ActivityExact` and
`FrontMustWait`. The last two need each other: `__up_read()` calls `__rwsem_wake_one_writer()`
without looking, which is right only because the front of a queue behind readers is a writer,
and that in turn because every earlier wakeup let in everybody it could. `__rwsem_do_wake()`
lets in the leading readers, however many: `LeadingFacts` says that their number exists and is
unique, so the walk of the code and the definition agree. Theorems: one for each property of
the run, and `RwSpinlockIsFair`, the refinement of `FairRwLock`: a down that succeeds or
queues is `Request`, an up `Release`, a downgrade `Downgrade`; wakeups and returns stutter.

*RwSem* (`RwSemProofs`). `RwInv` = `QueueInv`, `Tally`, `Exclusive` and `WakeDue`.

- `QueueInv`: the list, the waiters and the locals of the tasks in the slow path. One
  task at a time is inside `wait_lock` (`OneWaker`); what a waker has yet to grant is the
  front of the list (`FrontOK`, `LoopOK`); `task` is cleared exactly for those let go.
- `Tally`: `count` = active - bias * waiting, where a task is counted as active from its
  atomic add to its atomic subtract, wakers' increments and grants in progress included. This
  is the invariant that the code never states, and `CountExact` follows from it because
  fewer tasks than `RWSEM_ACTIVE_MASK` exist.
- `Exclusive`: a writer is alone, nobody has the semaphore while a waker is about to grant a
  writer, and no writer has it while a waker lets readers in.
- `WakeDue`: with waiters and no active locker, somebody is on his way to wake them or an undo
  has ended at 0 (`undone`).

Theorems `RwSemExclusion`, `RwSemCount`, `RwSemWaiters`, `RwSemLostOnlyByUndo`, and the action
properties `RwSemNoOvertaking` and `RwSemServedInOrder` (the queue is served first come, first
served). Together the two are the fairness of `FairRwLock`, which
`RwSem` does not implement step by step even without the undo: two tasks may fail their fast
path, the holder leave, and the first of them queue on a free semaphore; only the
second one to queue wakes it. `RwSemLostOnlyByUndo` is the positive half of the first
finding: for any number of tasks the undo is the only hole.

*PageLock* (`PageLockProofs`), for any number of tasks and pages on one queue. `PageInv` =
`QueueInv` and `WakeDue`. `QueueInv` describes the queue while a walk is under way: which
entry the walker stands on and has saved as the next one, which of the two stores of
`list_del_init()` has been made, and that nobody leaves `finish_wait()` before both are. `WakeDue` is
the inductive form of `NoLostWakeup`: when a page is unlocked and an exclusive waiter sleeps for
it, some task is about to look at the bit or to wake somebody who will, through every
step of the walk and of `abort_exclusive_wait()`. Theorems `PageLockEntriesAlive` and
`PageLockNoLostWakeup`.

*WorkQueue* (`WorkQueueProofs`), in five layers, each of which uses the ones before it. The
first two hold for any CPUs, works, callers and any `On` and `Ops`, so also where the second
finding breaks `CancelComplete`.

- `WqInv` = `TypeOK`, `RestOK`, `CallOK` (which local variables of a call are set where),
  `HandOK`, `BarrierOnce` (a barrier is on one list once, or in the hands of one worker),
  `BarrierAlive` and `NoLostWakeup`. `BarrierAlive` needs `BarrierOnce`: the barrier's completion
  ends the wait, so there must be no second place it could be run from. Theorems
  `WorkQueueBarrierAlive` and `WorkQueueNoLostWakeup`.
- `DestroyInv`: once a work queue is being destroyed only its workers and the one destroyer use it
  (`Quiet`); what the destroyer waits for is the last entry of the list, so the list is empty when
  its barrier has run (`Drains`); whoever is told to stop has an empty list (`Stopped`). Theorem
  `WorkQueueDestroyComplete`.

The next two have the hypothesis `Settled`: the works that are *cancelled* are steady, that is
plain ones, which move freely, or delayed ones that stay on one CPU. All other delayed works
move as they like and are flushed meanwhile, so that the store to `work->data` that
`queue_delayed_work_on()` makes without `cwq->lock` does write another cwq than the one there. It is
a hypothesis of the theorems and no assumption of the model; `workqueue_grab` shows that without it
the properties are false of the code. It is used in one place, the second test of
`try_to_grab_pending()` (`GrabMatchesToken`). The last layer has the stronger hypothesis `OneCpu`, that
every work is steady: a `flush_work()` that finds a delayed work on the move may link its barrier to no
list, and `FlushInv` does not follow it there.

- `TokenInv`: the pending bit of a work is set exactly when one context, timer, list, worker or
  caller has the work, and never two (`Token`, over the places `At(w, k, x)`); no work is on a list
  twice (`WorkOnce`); `work->data` names the list that the work is on or was taken from (`DataOK`)
  and a value that a caller has read stays meaningful (`OnData`); `cwq->lock` has one holder
  (`LockExcl`); and when the second test under it succeeds for a steady work, the work is on that list
  (`MatchOK`). Every
  step leaves each token where it is, moves it, brings it or takes it away. Theorems
  `WorkQueueRunsWhereQueued` (from `DataOK`: whoever stores without the lock has the token, so no list
  and no worker has the work) and `WorkQueuePendingIsToken` (the cardinality of the
  run's `Holders` from the uniqueness of the place).
- `CancelInv`: a barrier is on the list of the CPU that its caller looks at (`BarrierAt`), a worker's
  current work has its `data` set (`CurData`, for the early return of `wait_on_work()`), and a cancel
  that has the pending bit has seen, on every CPU behind it, a worker without the work (`Sees`). That
  no worker picks the work up again behind its back is `TokenInv`: it would have to be on a list.
  Theorem `WorkQueueCancelComplete`.
- `FlushInv`: what a flush found on entry and still waits for is on a list or being run
  (`TodoOK`), at a CPU that the flush has yet to finish (`Here`), and, once its barrier is on that
  CPU's list, ahead of the barrier (`Ahead`). Queueing, stealing and other barriers keep that order
  (lemmas about `Precedes`); when the barrier is taken nothing is left ahead of it. Theorem
  `WorkQueueFlushComplete`.

*KFifo* (`CounterProofs`), for every size, index range, set of bytes and length of call that
`KFifoAssumption` allows. `KInv` = types, fill level at most `Size`, what the writer
has yet to publish fits beside it (`WriterInv`) and what the reader copies is part of it,
copied so far as it is in the buffer (`ReaderInv`); the fill level is `(in - out)` modulo the
range, so the lemmas about `%` at the head of the module carry the arithmetic.
Theorems: `NoOverlapCorrect`, and `KFifoIsQueue`: `PutPublish` is the
abstract put, `GetRelease` the abstract get, everything else stutters.

*Srcu* (`CounterProofs`), for any finite sets of CPUs and readers, any updaters, two indices and
counters that can tell as many values apart as there are readers, and one more (`SrcuAssumption`; an
`int` counts any number of tasks). `SrcuInv` is, besides `SrcuTypeOK` and the places of updaters and
readers (`UpdatersOK`, `ReadersOK`):

- `IndexOK`: nobody is under the other index unless the mutex holder has flipped, and who has taken
  the old index and not yet counted himself is on a CPU that `synchronize_sched()` still waits for.
- `OwnExact`: as the CPUs themselves see their counters, those of one index add up, modulo their
  range, to the readers inside. A single counter means nothing.
- `BehindOK`: memory may only lag behind by decrements on the CPUs already waited for, and the
  readers inside plus that lag never exceed the number of readers; so the sum is never a
  multiple of the range by accident.
- `SumOK`: the partial sum plus the counters still to be read cover the readers inside and what lags
  on those CPUs; `SumCovers` is its weaker consequence. It is lost without the second
  `synchronize_sched()`: an increment behind the scan with its decrement ahead of it cancels a reader.
- `GraceOK`: `GracePeriod` with what each phase has already secured: whom the first
  `synchronize_sched()` still waits for (`Sched1OK`), that what is still in use is used under the old
  index (`SafeOK`), and what two advances by others have done for a waiter on the mutex (`HelpedOK`).

Sums over sets are folds, whose recursive function the provers know nothing about. The lemmas from
`LeastSet` on show that this function exists and is unique, and that the sum does not depend
on the order in which the elements are taken, each by a least counterexample instead of the
library's induction theorems. Theorems `SrcuTypeCorrect`, `GracePeriodCorrect`,
`SumCoversCorrect`, and two about comments in the code that no run checks: `OldLocksDoneCorrect`
("all srcu_read_lock() calls using the old counters have completed") and `QuietSumCorrect`, the check of
`cleanup_srcu_struct()`.

The lists enter through the lemmas of `KernelListProofs` only.

## What is only model-checked

Liveness under fairness (`WaiterServed`, `RequestServed`, `FlushReturns`), which is out of the
prover's reach. Every invariant and action property of the passing runs is also proved.

## Plan

Done: `TaskSleep`, `KernelList`, `Semaphore`, `Mutex`, `RwSem`, `RwSemSpinlock` with
`FairRwLock`, `KFifo` with `BoundedQueue`, `WorkQueue`, `Srcu`, `PageLock`; the proofs
listed above. Left, in this order:

1. A weaker fair lock, in which the grants of a wakeup may wait for tasks on their way to the queue,
   as the abstract specification of `RwSem`.
2. Completions with several waiters, `complete_all()` and timeouts; `kthread_stop()` against
   a thread's own exit; `atomic_dec_and_mutex_lock()` as a client of the mutex.
3. `kernel/futex.c`: wait, wake, requeue.

## What is not modelled, and why

In the modelled components: CPU hotplug, the freezer and failing creation of work queues,
which need the notifier chains and the freezer's own protocol; `schedule_on_each_cpu()` and
`work_on_cpu()`, which are clients; `cleanup_srcu_struct()`, after which nothing may
use the structure; the `wait_event()` macros and the `sleep_on()` family, the same protocol with a condition of the caller's; `atomic_dec_and_mutex_lock()`; more
lockers than the word of `rwsem.h:60` can count, a documented limit. Futexes and real-time
mutexes (priority inheritance chains) come after that.

RCU depends on per-CPU state, interrupts and weak memory. Lockdep only observes.
The scheduler classes, process and memory management, file systems, networking and
block layer are large state machines of their own: each would be a project, with
the modules here as its foundation (`fs/jbd` and `mm/mempool.c` would be good next
candidates). Drivers, sound and most of `arch/` depend on hardware that the
repository does not describe.
