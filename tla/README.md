# A verification project for OKL4 (pistachio microkernel, SH port, and nanokernel)

TLA+ specifications of the two kernels of this tree and of the user-level code
that shares memory with them. In `src/pistachio`: the ready queue, the scheduler,
priority inheritance, kernel and hybrid mutexes, IPC and notifications, the life of
threads, and the exchange of registers. In `src/nanokernel` and its libraries: the
whole kernel, and the locks, semaphores and barriers built on its futexes. TLC checks
them on small instances; TLAPS proves, for every value of the constants, the ready queue,
the hybrid mutex's protocol, the whole nanokernel, and the library's locks, semaphores and
barriers on it.

## 1. The system

| part | state | operations | what is hard |
|---|---|---|---|
| ready queue, `prioqueue.cc` | a list per priority, a bitmap of the non-empty ones, an index of the bitmap | enqueue, dequeue, change of priority, lookup of the highest | three structures in step; priorities that span words |
| scheduler, `schedule.cc/.h` | current thread, active schedule, "invariants violated" flag | schedule, fast schedule, donate, yield, timer | fast paths that look at two threads only, donated time |
| syncpoints, `syncpoint.cc`, `endpoint.cc` | sorted list of blocked threads, donatee | block, unblock, refresh, become/release donatee | priorities along chains, cycles of waiting threads |
| mutexes, `mutex.cc` | holder, held list of each thread | lock, try, unlock, create, delete | handover before the new holder runs |
| IPC, `ipc.cc`, `interrupt.cc` | partner, state, pending notification | send, receive, call, reply, notify, interrupt | rendezvous in either order, a sender that restarts its call, notifications beside messages |
| threads, `thread.cc` | control blocks | create, start, delete, unwind | deletion of a thread others are waiting for |
| exchange registers, `exregs.cc` | halted, suspended | abort, halt, resume, suspend | a continuation that runs after a preemption |
| hybrid mutexes, `mutex.cc`, `libs/mutex` | a word in user memory, a mutex in the kernel while threads wait | compare-and-set, hybrid lock, unlock, wakeup | word and kernel change hands between any two steps |
| nanokernel, `nanokernel/`, `arch/arm/nanokernel` | threads, ready lists, futex chains, kept signals, interrupt handlers | futex, IPC, signal, thread, interrupt calls | signals before waits, threads used again, interrupts at any time |
| its library, `libs/nano`, `arch/arm/libs/nano`, `libs/okl4/src/nano` | words in user memory | lock, unlock, down, up, barrier | restartable instructions, lost wakeups, a barrier used again at once |
| capabilities, spaces, ASIDs, kernel memory | | | not modelled |
| other libraries, Iguana servers, drivers, tools | | | not modelled |

The two kernels are alternatives; they share no state. Each is not preemptible and
runs on one processor: nothing else runs
between a trap and the `switch_to()` or return to user mode that ends it. The
concurrency is in the order in which the threads' system calls, the resumption of
their *continuations*, and the interrupts follow one another. A thread that blocks
in the middle of a system call leaves a continuation; between the two, anything
can happen to the objects that it works on. Nearly every hazard below is of this
kind. User-level code, on the other hand, may lose the processor between any two
accesses to memory, and there one access is one step. `PROJECT.json` lists every part
with its status, and the hazards with their line.

The builds that are modelled: pistachio for SH, one processor, schedule inheritance
on, no IPC fast path, assertions on, with kernel mutexes and, in module `Hybrid`, with
hybrid ones; the nanokernel for ARM (its only port) with one execution unit.

## 2. Modules

```
Queueing        lists (queueing.h)
ReadyQueue      what the scheduler may expect of a ready queue (abstract)
PrioQueue       prio_queue_t; implements ReadyQueue      PrioQueueProofs
KernelState     the variables, Init, ASSERT, when a call or an interrupt may begin
  Scheduler     scheduler_t, on the abstract ready queue
    SyncPoint   syncpoint_t, endpoint_t, priority inheritance, SYS_SCHEDULE
      Mutex     mutex_t, SYS_MUTEX, SYS_MUTEX_CONTROL
        Ipc     SYS_IPC, notifications, interrupts
          Thread   SYS_THREAD_CONTROL, deletion, errors
            Exregs   SYS_EXCHANGE_REGISTERS
              Kernel   Next, the properties, fairness
            Hybrid   hybrid mutexes: libs/mutex, hybrid_lock() and hybrid_unlock()
HybridWord      what a hybrid mutex promises (abstract)   HybridWordProofs

NanoState       the nanokernel's variables, its boot image, ASSERT
  NanoSched     the scheduler
    NanoFutex   sys_futex_wait(), sys_futex_signal()
      NanoIpc   messages and signals
        NanoThread   threads and interrupts
          Nano       Next, the properties
            NanoFutexProofs, NanoProofs
          NanoSync   locks, semaphores and barriers of the library on that kernel
            SyncObjects   what they promise: FutexSemaphore, Barrier
            SyncObjectProofs, SyncBarrierProofs, NanoSyncProofs
FutexSemaphore  what a lock and a semaphore promise (abstract)  FutexSemaphoreProofs
Barrier         what a barrier promises (abstract)
Permits         a semaphore as its users see it: the target of both proofs

MC*             instances for TLC
```

**Steps.** A system call, continuation or interrupt handler is one action,
including the schedule with which it ends. Its code is written as operators on a
record `s`, a snapshot of all variables, in the order of the calls in the code:
`Release(s, m)` is `mutex_t::release()`, and so on. `Commit` makes the last
snapshot the next state. The order of the calls matters (a priority is recalculated
from queues that an earlier call has changed), and this form keeps it.

**Continuations.** `tcb[t].cont` is what `t` does when it is switched to. `"user"`
means that it is in user mode and may make any call of the instance; any other value
forces the action of that continuation. `sys` holds what the continuation reads from
`sys_data`.

**Assertions.** `ASSERT(c)` is `Require(s, c, name)`: a failed one is recorded in
`failed`, and the kernel stops. `NoAssertionFails` is thus a statement about
the assertions of the code. With deadlock checking on, a run that does not check it
still reports a kernel that stopped.

**Ready queue.** `Scheduler` uses one sequence per priority. This is the
state of `ReadyQueue`, which `PrioQueue` (lists, bitmap, index) is proved to implement.

**Hybrid mutexes.** `Hybrid` adds to the kernel's variables the word of each mutex and,
for each thread, where in `libs/mutex` it is. A compare-and-set, an assertion that reads
the word, and a system call are each a step. The word is a holder and the contention
bit. It is assumed that its page is mapped (the kernel's access does not fault), that
the compare-and-set of `libs/atomic_ops` is atomic, that the kernel's mutex lives as
long as the library's, and that a thread handle is not given to a new thread.

**Nanokernel.** A system call or interrupt is one action, as above. The lists that
`next` and `prev` link are sequences, and putting a thread on a list while it is on
another is a failed assertion. `waits_for` is the one of `futex_tag`, `ipc_waiting_for`
and `signal_mask` that the kernel reads in the thread's state. ARM builds assembler
versions of `enqueue()`, `do_schedule()` and `activate_schedule()` (`schedule.S`) that
do the same as those of `c_schedule.c` without their assertions; the model has the
assertions. `switch_to.tangled.S` is `switch_to.S` in another order of instructions. The
boot image is the one that `kernel_nano.py` writes, with at least one spare thread.
`NanoSync` runs the library on this kernel: one step is a load, a store or a system
call. The atomic operations of ARMv5 are a load and a store that the kernel restarts
after an interrupt (`user_helper_fixup`); they are modelled as that, not as atomic.

**Abstractions.** A message is its rendezvous, and whether its copy fails. A
notification is one pending bit that every mask selects. A timer tick
ends the timeslice or does not. A capability to a thread is valid while the thread
exists. `Acceptors` is fixed per instance. Continuations that only return a value to
the user are `"user"`. A call that fails before it changes anything is a stuttering
step, and mostly left out. The walk along a chain of donatees is bounded by
`ChainBound`; reaching it is recorded as a failed assertion, so `NoAssertionFails`
also says that the loops of `syncpoint.cc` end.

**Seeded faults.** An operator whose comment begins "Seeded fault" is a plausible
wrong version of the one that follows it. No specification uses it. `PROJECT.json`
("mutants") pairs each property of each passing run with a fault; with the fault in
place TLC finds that property violated.

## 3. Runs

All instances start in the state in which the kernel schedules for the first time
(`init_all_threads()`, `__kernel_main`).

| run | instance | asks |
|---|---|---|
| `prio_queue` | 3 threads, 7 priorities, words of 3 bits | bitmaps exact, highest found, refinement of `ReadyQueue` |
| `mutex` | 4 threads, 3 priorities, 2 mutexes | inheritance along chains, handover, creation and deletion of mutexes, scheduling while priorities change and threads deadlock |
| `ipc` | 3 threads, 2 priorities, 2 accept notifications | rendezvous, queues, order given up only for a copy; notifications, messages and interrupts race |
| `thread` | 3 threads (one not created), 1 mutex | deletion at any moment |
| `exregs` | a server, 2 clients, 3 priorities, 1 mutex | abort, halt and suspend in the middle of IPC, and while the mutex is held and waited for |
| `inversion` | 3 threads that lock 2 mutexes and one that only competes, 3 priorities | liveness: no unbounded priority inversion |
| `turns` | 3 threads of one priority, 1 mutex | liveness: round robin, with donated time |
| `hybrid` | 3 threads, 3 priorities, 2 hybrid mutexes | word and kernel agree, holders inherit, the calls of the library succeed; refinement of `HybridWord` |
| `nano` | 3 threads (one spare), 2 priorities, 2 futex tags in one hash chain, 1 signal, 1 interrupt | every system call of the nanokernel in any order |
| `nano_sync` | 3 workers, 2 priorities, an interrupt handler above them | lock, semaphore and barrier, instruction by instruction: refinement of `FutexSemaphore` and `Barrier`; liveness: everyone goes round for ever |

**Bounds.** No counters are bounded, but for the two kept signals of `nano`: the state
spaces are finite and explored in full. Four threads are enough for a chain of two
mutexes with a third thread that competes at each priority, for cycles, and for two
waiters that must be sorted. Three threads suffice for IPC: a sender, a receiver and a
third that interferes or waits behind. Two priorities leave every comparison of the
scheduler with all its outcomes. Two bitmap words and a part of a third exercise both
levels of the index. The instances choose the system calls (`Calls`), `Requests` and
`Controls`; each MC module says which. `ipc` leaves out combinations of a send and a
receive that do what the two do one after the other. `exregs` has fixed roles: only the
server waits for anyone, and only it sends to a client. `nano` gives its two first
threads roles (`Roles` in `MCNano`): one never waits for signals, the other never for
futexes and alone handles the interrupt; the third, which is created and joined again,
does everything. Its threads may all block for ever, so that it may stop: deadlock is
not an error there. In `nano_sync` it is. `mutex` and `hybrid` use the symmetry of the
mutexes, which is sound for their properties: mutexes differ in name only, and none of
these properties is a liveness property. Threads are not permuted, as their priorities
and their boot order differ.

**Properties.** Each is stated in a comment above its definition. `KernelConsistent` is
the conjunction of `NoAssertionFails`, `ReadyQueueExact`, `SyncPointsExact`,
`IpcQueuesExact` and `NobodyLeftAborted`; `PrioritiesRespected` that of
`HighestPriorityRuns` and `InheritanceExact`; `NanoConsistent` that of `TypeOK`,
`NoAssertionFails` and `ReadyListsExact` of module `Nano`. The main ones:

- `InheritanceExact`: an effective priority is the highest base priority among
  the thread and all those that wait for it, however long the chain. The right side is
  computed from the waits alone, not from the code's bookkeeping.
- `SyncPointsExact`, `ReadyQueueExact`, `IpcQueuesExact`: every thread is in exactly
  the queue that its state says, at its place.
- `HighestPriorityRuns`: the fast paths of the scheduler never pass over a ready thread.
  (The runs that ask it have no `thread_switch`: see `donate()` below.)
- `HandoverToHighest`, `DeletedMutexUnused`: a mutex goes to the highest waiter, and
  is not deleted under a thread it was just given to.
- `NoMissedRendezvous`, `ClosedWaitIsClosed`, `NotifyNotLost`, `OrderGivenUpForCopy`:
  the promises of IPC.
- `DeletedLeavesNoTrace`, `NobodyLeftAborted`, `SuspendedStaysHalted`: deletion and
  interference from outside.
- `ImplementsHybrid`, `ContentionKnown`, `HolderInherits`: a hybrid mutex is a lock whose
  word is marked exactly while threads wait in the kernel, and even a holder that never
  made a system call inherits.
- `NoLostWakeup`, `SendersNotMissed`, `InterruptsHaveWaiters`, `ThreadsAccountedFor`: the
  promises of the nanokernel's calls.
- `ImplementsLock`, `ImplementsSemaphore`, `ImplementsBarrier`, `EveryoneGoesRound`: those
  of its library. `NoSignalDropped` is what the library needs of the kernel: it ignores the
  error of a futex signal, so the array of kept signals must never be full.

### What the code's comments say, and the code does not do

Two runs expect a violation. Each checks one sentence of the source.

| run | the source says | the trace shows |
|---|---|---|
| `exregs_delete` | `exregs.cc:498` the thread of the call | it may be deleted before the continuation runs |
| `hybrid_delete` | `hybrid_lock.c:78` the system call of a lock succeeds | see below |

`hybrid_delete`: the holder of a hybrid mutex is deleted while a thread N waits for
it. `release_mutexes()` hands the mutex to N, but does not do what `hybrid_unlock()`
does next ("If mutex is uncontended, stop tracking in kernel", `mutex.cc:552`). N's
wakeup writes an uncontended word. N unlocks in user space, and the kernel does not
hear of it. Another thread takes the word; N finds it taken and calls the kernel, which
still has N as the holder and refuses.

Other divergences that the model has and no run is spent on:

- `donate()` (`schedule.h:763`) runs a thread that may be below a ready one and, unlike
  `context_switch()`, does not set the flag that says so. The next fast path then chooses
  between that thread and the one that wakes up only, although `schedule.h:648` says that
  "'current' is the highest priority thread in the system".
- `SYS_MUTEX_CONTROL` with both flags deletes the mutex and then fails: it tests the
  pointer it looked up before (`mutex.cc:268`; `mutex.cc:232` says "Do we need to delete
  the mutex? If so do it before creating a new one").
- A thread that is suspended while blocked goes back to user mode on SH when its partner
  answers: only the ARM port runs the callback that would halt it (`exregs.cc:352`;
  `exregs.cc:345` says that it executes no more userspace instructions).
- Aborting a wait for notifications after a receive calls `get_partner()` with an invalid
  partner (`exregs.cc:210`), which `tcb.h:827` asserts not to happen.
- The nanokernel treats a closed receive like an open one. Threads that wait to send to a
  thread that exits stay in the list of its tcb and reach the next thread that gets it.
  `tcb.reg:31` calls `ipc_send_head` the "Highest priority thread waiting to send"; the
  list is first come, first served. A barrier for one thread leaves a kept signal at
  each use.

These cases are kept out of the passing runs by the instance: `thread_switch` is not
combined with priorities, neither `notify` nor `thread_control` with `exregs`, and
`thread_control` not with hybrid mutexes.

Two properties have an exemption for what the code does not promise:

- `InheritanceExact` leaves out threads that are in, or waited for by, a cycle of
  waits. In a cycle each thread sees the priority that the next one inherited, so the
  walk of `syncpoint.cc:309` stops at the old value when the thread that brought the
  priority in is taken away, and the cycle keeps it.
- `DeletedLeavesNoTrace` leaves out a thread that was created and not started. It
  waits for its pager (`fake_wait_for_startup()`, `thread.cc:150`) in no queue, so the
  deletion of the pager does not find it, and its partner stays the deleted thread.

### Fairness

Fairness is written out as a temporal formula with the condition under which the
action is enabled, which is what `WF` and `SF` mean: TLC cannot evaluate `ENABLED` of
these actions in reasonable time.

- `KernelFairness`: a kernel continuation that is current is executed. The kernel
  does not wait for anything.
- `TimerFairness`: a thread that is again and again in user mode beside a ready one of
  its priority is again and again at the end of a timeslice. The timer is periodic
  and timeslices are finite; strong fairness, as the thread may make system calls
  in between.
- `UnlockFairness`: a holder that is again and again in user mode unlocks. This is the
  users' obligation (critical sections are finite), not the kernel's; without it
  nobody can promise anything to a waiter. `inversion` also assumes that the users lock
  in order, so that there is no cycle, and do not sleep with a mutex.

- `SyncSpec` (`nano_sync`): a worker that is current again and again executes again and
  again, and again and again completes an atomic operation; the kernel starts, and the
  interrupt handler, which is above the workers, runs when it is current. Interrupts
  may come at every instruction, but not each time a worker is inside the block of four
  that the kernel restarts. The processor justifies the rest. Nothing is assumed of the
  nanokernel's scheduler, and nothing of the order in which workers are woken.

`TopPriorityGetsMutex` then holds without any fairness toward threads of low or
middle priority: inheritance alone gets the holder to run.

## 4. Proofs

`PrioQueueProofs` proves, for every set of threads, `MAX_PRIO` and `BITS_WORD`:

| theorem | statement |
|---|---|
| `TypeCorrect` | `Spec => []TypeOK` |
| `BitmapsAlwaysExact` | `Spec => []BitmapsExact` |
| `AlwaysQueuedAtEffectivePriority` | `Spec => []QueuedAtEffectivePriority` |
| `HighestAlwaysFound` | `Spec => []HighestIsFound` |
| `RefinesReadyQueue` | `Spec => ImplementsReadyQueue` |

Assumptions: `MAX_PRIO` is a natural number, a word has at least one bit, the index
is one word (`BITMAP_WORDS <= BITS_WORD`, true of 256 priorities and 32 bits), and the
idle thread is not queued.

The inductive invariant `Inv` joins the type invariant to `QueueInv`: bits and
index exact, every queued thread in the list of its effective priority, no list with
a repetition. `BitmapsExact` alone is not inductive: a dequeue looks for the
thread in the list of its *present* effective priority, so the bit that it clears is
the right one only if the thread was queued there; and clearing the bit when the list
has become empty is right only if the thread was in it once. `EnqueueKeepsInv` and
`DequeueKeepsInv` state this on the queue as a value, and are used for every
action, since a change of priority is a dequeue followed by an enqueue.
`PrioHasItsBit` (a priority is recovered from its word and bit) and `MsbIsMaximum`
give `LookupFindsHighest`. `StepRefines` maps each step to one of `ReadyQueue`,
using `LookupFindsHighest` for the choice of the next thread.

`FutexSemaphoreProofs` proves of `FutexSemaphore`, for every finite set of threads and
every positive number of permits K (a lock is K = 1):

| theorem | statement |
|---|---|
| `MutualExclusion` | `Spec => []AtMostK` |
| `NoLostWakeup` | `Spec => []SleepersAreWoken` |
| `Refinement` | `Spec => ImplementsPermits` |

The inductive invariant is an account of the permits: the word is K less the threads
that are in, about to wait or asleep; every permit is free, held, in a signal that is
about to be made, or kept by the kernel; and nobody sleeps while a signal is kept.
`AtMostK` alone is not inductive, because a woken thread is let in by a signal and not
by the word. `MoveSizes` reduces each action to two numbers that change by one; the rest is
arithmetic. `NanoSyncProofs` (below) carries the theorems to the code's lock and semaphore.

`HybridWordProofs` proves of `HybridWord`, for every set of threads that `NULL` is not in:

| theorem | statement |
|---|---|
| `MutualExclusion` | `Spec => []AtMostOne` |
| `WaitersAlwaysSeen` | `Spec => []WaitersAreSeen` |
| `Refinement` | `Spec => ImplementsPermits` (with one permit) |

The invariant says that the thread in the word is the one that is inside or was given the
mutex and has yet to run, and that the mark in the word and the kernel's holder are there
exactly while threads wait. Without the second part a compare-and-set could free a mutex
that the kernel still tracks, which is how `hybrid_delete` fails. Run `hybrid` checks
that the code follows `HybridWord`.

`NanoProofs` proves of the nanokernel itself (`Nano`, every system call and interrupt), for
every image that has a spare tcb: any number of threads, priorities, signals, interrupts,
futex tags and hash slots, and any hash function:

| theorem | statement |
|---|---|
| `Consistency` | `Spec => []NanoConsistent` |
| `Wakeups` | `Spec => []NoLostWakeup` |
| `Rendezvous` | `Spec => []SendersNotMissed` |
| `InterruptHandlers` | `Spec => []InterruptsHaveWaiters` |
| `Accounting` | `Spec => []ThreadsAccountedFor` |

These are all the properties of run `nano`, which shows them for three threads with roles;
`Spec` has no roles. The only assumption is `ImageAssumption` (`NanoState`), which says what
`kernel_nano.py` builds: finitely many tcbs, each once on the list of one priority or among
the spare ones, of which there is at least one.

The inductive invariant `IInv` is `Settled(S)`, a predicate on snapshots: no assertion has
failed; the ready lists hold exactly the runnable threads but for `s.next`, and none of a
higher priority (`Ready`, `Highest`); and each waiting thread is in exactly the structure
that its state names (`Waits`: futex chains, sender lists, signal masks, joiners, handlers).
None of the five properties is inductive alone. That a thread is put on a ready list while
it is on no other needs all the lists. `sys_thread_create()` reuses a tcb with the
`joiner`, the `registered_interrupt` and the senders that its last thread left: the first
two are empty because of what `sys_thread_exit()` did; the senders still wait for this
tcb, and their messages go to its new thread. The predicate is on snapshots because a
handler is a sequence of operators: `Ready(s, X)` leaves out a set `X` of threads that a
handler has in hand, and `Linked` is the part of `Waits` that is true in the middle of
`sys_thread_exit()`, when a thread that is dead still has its joiner.

- `NanoFutexProofs`: lists, the invariant, and what `DoSchedule`, `Enqueue`, `Activate`,
  `ActivateSchedule` and a sleep do to it, for a caller or for the idle loop; then the
  futexes, the interrupts, the image (`InitSettles`) and the switch (`CommitSettles`).
  Lemmas `...Does` at its end say what a futex call or an interrupt does to the state of
  each thread and to the signals that are kept: what the library's proofs need.
- `NanoProofs`: messages, signals and threads, one lemma per group of actions, and the
  theorems.
- In both, one lemma `...Settles` per system call, split by its branches; lemma `Kept` says
  when `Waits` is not disturbed.

`NanoSyncProofs` proves of the library on that kernel (`NanoSync`, instruction by
instruction), for every image with a spare tcb, any number of workers from two up and any
positive number of permits:

| theorem | statement |
|---|---|
| `SyncAlwaysInv` | `SyncSpec => []SyncInv` |
| `SyncAssertionsHold` | `SyncSpec => []NoAssertionFails` |
| `SignalsAlwaysFit` | `SyncSpec => []NoSignalDropped` |
| `LockRefines` | `SyncSpec => ImplementsLock` |
| `SemaphoreRefines` | `SyncSpec => ImplementsSemaphore` |
| `BarrierRefines` | `SyncSpec => ImplementsBarrier` |

These are all the safety properties of run `nano_sync`. `SyncAssumption` (`NanoSync`) says
that the image has the workers, the handler of the interrupt and spare threads, and that the
objects have different addresses. Two workers are needed: a barrier for one leaves a kept
signal at each use, so that the kernel's array fills up. A worker takes a permit before it
gives one back: a semaphore made with 0 and used to signal, as in nanotest, is outside the
model and the theorems.

The argument goes round in a circle, which the inductive invariant `SyncInv` closes:

- `SyncObjectProofs` (mutex, semaphore) and `SyncBarrierProofs` (barrier, and all objects
  together) look at the library alone. They see the kernel through two functions:
  `sleep` (the address on which each worker sleeps) and `kept` (how many signals are kept for
  each address). `Library` says what the memory of each object has to do with where the
  workers are: an instruction block that has not been interrupted read what is still there;
  the owner and the count of the mutex are those of the worker that holds the lock; and the
  barrier is in one of five phases (`Gathering`, `Opening`, `Releasing`, `Passing`,
  `Handing`) that say who is still in the last round, who in the next, and which single
  worker or kept signal has the baton. Lemma `WorkObeys`: a step of a worker keeps `Library`
  and is a step of `FutexSemaphore` and of `Barrier`, if the kernel serves its call
  (`Serves`) and the permits are accounted for (`Protocol`). `Bounded`: the signals that
  are kept for all objects are fewer than the threads.
- That the kernel serves the calls follows from the lemmas of `NanoFutexProofs`
  (`WaitServed`, `SignalServed`), if there is room for a signal: `Bounded` again. `Roles`
  says that a worker sleeps on nothing but a futex, so that no interrupt wakes it.
- `Protocol` follows from the invariant of `FutexSemaphoreProofs` (`KeptForWaiters`),
  which is instantiated for the lock and for the semaphore. It is kept because the step was
  one of `FutexSemaphore`.

The refinements need an invariant of the whole, not one per object: the array of kept
signals is shared, an interrupt restarts the block of any object, and a signal that did not
fit would be lost without a trace.

Only model-checked: everything about `Kernel` and `Hybrid` themselves. In pistachio the
walk along a chain of donatees and the unwinding of queues are recursive operators, with
which TLAPS cannot work; every property of `Kernel` depends on them, because a call may
end in either. The liveness properties (`EveryoneGoesRound`, `TopPriorityGetsMutex`,
`TurnsAreTaken`) need fairness, which is out of the prover's reach.

## 5. Not modelled

- In pistachio: page fault and exception IPC, and the kernel's page fault in a hybrid
  mutex's word; capability lists (a capability is valid while its thread exists);
  address spaces and page tables, whose formats are the hardware's; ASIDs; kernel
  memory; the timeslice and domain arguments of SYS_SCHEDULE; the modification case of
  SYS_THREAD_CONTROL; SYS_INTERRUPT_CONTROL, most of which is platform code;
  `is_deadlocked()`, which feeds a trace point; SMP and SMT, disabled in this tree.
- In `libs/mutex`: the spinning user variant and the counted wrapper; in `Hybrid`,
  thread handles that are used again for a new thread.
- In the nanokernel: message words and return values; the futex tag 0, for which both calls
  return `EINVAL` and change nothing (`Tags` are the others); a semaphore
  made with 0; the variants for several execution units, which this port does not build; an
  image without spare threads; an interrupt controller that reports no interrupt.
- Other libraries, the Iguana servers, drivers, tools; hardware and diagnostic code.

The reasons are in `PROJECT.json`, part by part.

## 6. What could follow

1. Capabilities (`clist.cc`, `caps.cc`): references and their invalidation, composed with
   `Thread` and `Ipc`, so that a send restarted after its capability was removed is
   covered.
2. Page fault IPC and saved state (`thread.cc`), composed with `Ipc` and `Exregs`.
3. `SYS_INTERRUPT_CONTROL`: registration and acknowledgement with `DeliverNotify`.
4. ASID allocator, kernel memory (a full group, or a block that becomes empty while it is the
   current one, `smallalloc.cc:150`) and the allocators of `libs/okl4`, each against a set.
5. Proofs: a non-recursive abstract specification of mutex handover and of IPC queues
   that `Kernel` is checked to implement, with its invariants proved.
