------------------------------ MODULE NanoSync ------------------------------
(***************************************************************************)
(* The synchronisation objects of the nanokernel's library, composed with  *)
(* its scheduler, its futexes and an interrupt that may come between any   *)
(* two instructions: counted mutexes (libs/okl4/src/nano), the futex lock, *)
(* semaphores (arch/arm/libs/nano/src) and barriers (libs/nano/src).       *)
(*                                                                         *)
(* Each worker goes round for ever: it takes the mutex, or tries to, once  *)
(* or twice; it downs the semaphore, or tries to, and ups it; and it meets *)
(* the others at the barrier.  A step is one access to shared memory or    *)
(* one system call.  pc is where a thread goes on, <<function, point>>.    *)
(***************************************************************************)
EXTENDS NanoThread

CONSTANTS Workers,       \* the threads that use the objects
          irq_thread,    \* the thread that handles
          irq,           \* the interrupt
          SemInit,       \* the semaphore's first value
          lock_tag, sem_tag, barrier_tag   \* addresses: the barrier has one per version

\* The threads of the image are the workers, two at least, and the handler. The semaphore is
\* made with a permit.
ASSUME SyncAssumption ==
    /\ Tcbs \ Members(Spare) = Workers \cup {irq_thread} /\ irq_thread \notin Workers
    /\ Cardinality(Workers) \in Nat \ {0, 1}
    /\ irq \in Interrupts
    /\ SemInit \in Nat \ {0}
    /\ {lock_tag, sem_tag} \subseteq Tags /\ barrier_tag \in [{0, 1} -> Tags] /\ NULL \notin Tags
    /\ lock_tag # sem_tag /\ barrier_tag[0] # barrier_tag[1]
    /\ \A v \in {0, 1} : barrier_tag[v] \notin {lock_tag, sem_tag}

VARIABLES pc,    \* where each thread is
          reg,   \* the result of its last atomic operation
          val,   \* its local variable val or version
          mem    \* the objects, field by field

user == <<pc, reg, val, mem>>
all == <<vars, user>>

expected == Cardinality(Workers)

SyncInit ==
    /\ Init
    /\ pc = [t \in Workers \cup {irq_thread} |->
               IF t \in Workers THEN <<"start", "mutex">> ELSE <<"irq", "register">>]
    /\ reg = [t \in Workers |-> 0]
    /\ val = [t \in Workers |-> 0]
    /\ mem = [lock |-> 0, owner |-> NULL, nested |-> 0, sem |-> SemInit,
              count |-> 0, version |-> 0, waiters |-> 0]

-----------------------------------------------------------------------------
\* The instructions.

At(f, point) == InUser /\ pc[current] = <<f, point>>
Goto(f, point) == pc' = [pc EXCEPT ![current] = <<f, point>>]
Local(f, v) == [f EXCEPT ![current] = v]
Memory(field, v) == mem' = [mem EXCEPT ![field] = v]

\* A system call of the library; the caller goes on behind it when it runs again.
Syscall(s) == Commit(s) /\ UNCHANGED <<reg, val, mem>>
NoSyscall == UNCHANGED <<vars, reg, val, mem>>

\* ldr, the restart point of user_atomic_add and user_atomic_cmp_set
Ldr(f, field) ==
    /\ At(f, "ldr") /\ Goto(f, "str")
    /\ reg' = Local(reg, mem[field])
    /\ UNCHANGED <<vars, val, mem>>

\* str of user_atomic_add; the function that called it goes on at point.
StrAdd(f, field, d, point) ==
    /\ At(f, "str") /\ Goto(f, point)
    /\ reg' = Local(reg, reg[current] + d)
    /\ Memory(field, reg[current] + d)
    /\ UNCHANGED <<vars, val>>

\* streq of user_atomic_cmp_set
StrEq(f, field, test, set) ==
    /\ At(f, "str")
    /\ IF reg[current] = test THEN Memory(field, set) ELSE UNCHANGED mem
    /\ UNCHANGED <<vars, reg, val>>

\* Seeded fault: a thread goes on where it was interrupted, inside the block too.
FixupNothing(p) == p

\* user_helper_fixup: back to the first instruction of the block.
Fixup(p) == IF p[2] = "str" THEN <<p[1], "ldr">> ELSE p

-----------------------------------------------------------------------------
\* okn_futex_lock(), okn_futex_trylock(), okn_futex_unlock()

FutexLock ==
    \/ Ldr("futex_lock", "lock")
    \/ StrAdd("futex_lock", "lock", 1, "wait")
    \/ /\ At("futex_lock", "wait") /\ Goto("mutex_lock", "set_owner")
       /\ IF reg[current] = 1 THEN NoSyscall ELSE Syscall(FutexWait(S, lock_tag))

FutexTrylock ==
    \/ Ldr("futex_trylock", "lock")
    \/ /\ StrEq("futex_trylock", "lock", 0, 1)
       /\ IF reg[current] = 0 THEN Goto("mutex_lock", "set_owner") ELSE Goto("start", "semaphore")

FutexUnlock ==
    \/ Ldr("futex_unlock", "lock")
    \/ StrAdd("futex_unlock", "lock", -1, "signal")
    \/ /\ At("futex_unlock", "signal") /\ Goto("start", "semaphore")
       /\ IF reg[current] > 0 THEN Syscall(FutexSignal(S, lock_tag)) ELSE NoSyscall

\* assert() of the library
LibAssert(cond, name) ==
    /\ failed' = IF cond THEN failed ELSE failed \cup {name}
    /\ UNCHANGED <<tcb, current, ready, free, chain, pending, handler, unmasked>>

\* A counted mutex tests the owner without the lock; the owner only counts, the others go
\* for the lock with f.
TestOwner(f) ==
    /\ At("mutex_lock", "owner")
    /\ IF mem.owner = current THEN Memory("nested", mem.nested + 1) /\ Goto("mutex_unlock", "count")
       ELSE UNCHANGED mem /\ Goto(f, "ldr")
    /\ UNCHANGED <<vars, reg, val>>

\* With the lock, the caller becomes the owner.
SetOwner ==
    \/ /\ At("mutex_lock", "set_owner") /\ Goto("mutex_lock", "set_count")
       /\ LibAssert(mem.owner = NULL /\ mem.nested = 0, "mutex_lock: owned")
       /\ Memory("owner", current)
       /\ UNCHANGED <<reg, val>>
    \/ /\ At("mutex_lock", "set_count") /\ Goto("start", "section")
       /\ Memory("nested", 1)
       /\ UNCHANGED <<vars, reg, val>>

\* okl4_mutex_lock() and okl4_mutex_trylock(), which differ in how they take the lock
MutexLock == TestOwner("futex_lock") \/ SetOwner
MutexTrylock == TestOwner("futex_trylock") \/ SetOwner

\* Seeded fault: the owner is not reset.
MutexUnlockKeepsOwner ==
    /\ At("mutex_unlock", "count")
    /\ LibAssert(mem.owner = current, "mutex_unlock: not owned")
    /\ Memory("nested", mem.nested - 1)
    /\ IF mem.nested = 1 THEN Goto("futex_unlock", "ldr") ELSE Goto("mutex_unlock", "count")
    /\ UNCHANGED <<reg, val>>

\* okl4_mutex_unlock()
MutexUnlock ==
    \/ /\ At("mutex_unlock", "count")
       /\ LibAssert(mem.owner = current, "mutex_unlock: not owned")
       /\ Memory("nested", mem.nested - 1)
       /\ Goto("mutex_unlock", IF mem.nested = 1 THEN "owner" ELSE "count")
       /\ UNCHANGED <<reg, val>>
    \/ /\ At("mutex_unlock", "owner") /\ Goto("futex_unlock", "ldr")
       /\ Memory("owner", NULL)
       /\ UNCHANGED <<vars, reg, val>>

-----------------------------------------------------------------------------
\* okn_semaphore_down(), okn_semaphore_try_down(), okn_semaphore_up()

SemaphoreDown ==
    \/ Ldr("down", "sem")
    \/ StrAdd("down", "sem", -1, "wait")
    \/ /\ At("down", "wait") /\ Goto("up", "ldr")
       /\ IF reg[current] >= 0 THEN NoSyscall ELSE Syscall(FutexWait(S, sem_tag))

SemaphoreTryDown ==
    \/ /\ At("try_down", "read")
       /\ val' = Local(val, mem.sem)
       /\ IF mem.sem <= 0 THEN Goto("barrier", "version") ELSE Goto("try_down", "ldr")
       /\ UNCHANGED <<vars, reg, mem>>
    \/ Ldr("try_down", "sem")
    \/ /\ StrEq("try_down", "sem", val[current], val[current] - 1)
       /\ IF reg[current] = val[current] THEN Goto("up", "ldr") ELSE Goto("try_down", "read")

\* Seeded fault: the last waiter is not signalled.
SemaphoreUpBelowZero ==
    \/ Ldr("up", "sem")
    \/ StrAdd("up", "sem", 1, "signal")
    \/ /\ At("up", "signal") /\ Goto("barrier", "version")
       /\ IF reg[current] >= 0 THEN NoSyscall ELSE Syscall(FutexSignal(S, sem_tag))

\* Seeded fault: every up signals, waiters or not.
SemaphoreUpSignals ==
    \/ Ldr("up", "sem")
    \/ StrAdd("up", "sem", 1, "signal")
    \/ At("up", "signal") /\ Goto("barrier", "version") /\ Syscall(FutexSignal(S, sem_tag))

SemaphoreUp ==
    \/ Ldr("up", "sem")
    \/ StrAdd("up", "sem", 1, "signal")
    \/ /\ At("up", "signal") /\ Goto("barrier", "version")
       /\ IF reg[current] > 0 THEN NoSyscall ELSE Syscall(FutexSignal(S, sem_tag))

-----------------------------------------------------------------------------
\* okn_barrier()

\* Seeded fault: both versions share an address.
BarrierTagShared == barrier_tag[0]

\* The address the caller waits on: the barrier's, plus the version it has read.
BarrierTag == barrier_tag[val[current]]

BarrierArrive ==
    \/ /\ At("barrier", "version") /\ Goto("barrier", "ldr")
       /\ val' = Local(val, mem.version)
       /\ UNCHANGED <<vars, reg, mem>>
    \/ Ldr("barrier", "count")
    \/ StrAdd("barrier", "count", 1, "arrived")
    \/ /\ At("barrier", "arrived")
       /\ IF reg[current] < expected
          THEN Goto("barrier", "woken") /\ Syscall(FutexWait(S, BarrierTag))
          ELSE Goto("barrier", "reset") /\ NoSyscall

\* A thread that was woken wakes the next; waiters-- is a load and a store.
BarrierPassOn ==
    \/ /\ At("barrier", "woken") /\ Goto("barrier", "decrement")
       /\ reg' = Local(reg, mem.waiters)
       /\ UNCHANGED <<vars, val, mem>>
    \/ /\ At("barrier", "decrement") /\ Goto("barrier", "pass")
       /\ Memory("waiters", reg[current] - 1)
       /\ UNCHANGED <<vars, reg, val>>
    \/ /\ At("barrier", "pass") /\ Goto("start", "mutex")
       /\ IF mem.waiters > 0 THEN Syscall(FutexSignal(S, BarrierTag)) ELSE NoSyscall

\* The last thread resets the barrier and wakes the first.
BarrierRelease ==
    \/ /\ At("barrier", "reset") /\ Goto("barrier", "flip")
       /\ Memory("count", 0) /\ UNCHANGED <<vars, reg, val>>
    \/ /\ At("barrier", "flip") /\ Goto("barrier", "waiters")
       /\ Memory("version", 1 - mem.version) /\ UNCHANGED <<vars, reg, val>>
    \/ /\ At("barrier", "waiters") /\ Goto("barrier", "release")
       /\ Memory("waiters", expected - 1) /\ UNCHANGED <<vars, reg, val>>
    \/ /\ At("barrier", "release") /\ Goto("start", "mutex")
       /\ Syscall(FutexSignal(S, BarrierTag))

-----------------------------------------------------------------------------

\* What a worker does between the calls.
Choose(at, f, point) ==
    At("start", at) /\ Goto(f, point) /\ NoSyscall

WorkerChoice ==
    \/ Choose("mutex", "mutex_lock", "owner")
    \/ Choose("section", "mutex_lock", "owner")
    \/ Choose("section", "mutex_unlock", "count")
    \/ Choose("semaphore", "down", "ldr")
    \/ Choose("semaphore", "try_down", "read")

Work ==
    \/ WorkerChoice
    \/ MutexLock \/ MutexTrylock \/ FutexLock \/ FutexTrylock \/ MutexUnlock \/ FutexUnlock
    \/ SemaphoreDown \/ SemaphoreTryDown \/ SemaphoreUp
    \/ BarrierArrive \/ BarrierPassOn \/ BarrierRelease

\* The handler of the interrupt, above the workers, waits for the next one at once.
IrqWork ==
    \/ /\ At("irq", "register") /\ Goto("irq", "wait")
       /\ SysInterruptRegister(irq) /\ UNCHANGED <<reg, val, mem>>
    \/ At("irq", "wait") /\ SysInterruptWait /\ UNCHANGED user

\* An interrupt; switch_to() sends a thread that was inside a block back to its start.
Interrupt ==
    /\ TakeInterrupt(irq)
    /\ pc' = IF current \in Workers THEN [pc EXCEPT ![current] = Fixup(@)] ELSE pc
    /\ UNCHANGED <<reg, val, mem>>

Start == KernelMain /\ UNCHANGED user

SyncNext == Start \/ Work \/ IrqWork \/ Interrupt

\* The processor executes the thread it has switched to, and interrupts leave it time:
\* a thread that gets the processor again and again executes again and again, and does
\* not meet an interrupt each time it is inside a block of four instructions.
Runs(t) == current = t /\ Work
Completes(t) == current = t /\ pc[t][2] = "str" /\ Work

SyncSpec ==
    /\ SyncInit /\ [][SyncNext]_all
    /\ WF_all(Start) /\ WF_all(IrqWork)
    /\ \A t \in Workers : SF_all(Runs(t)) /\ SF_all(Completes(t))

-----------------------------------------------------------------------------

Sleeps(t, tag) == tcb[t].state = "WAIT_FUTEX" /\ tcb[t].waits_for = tag

\* Where a worker is in the protocol of the lock.
LockState(t) ==
    LET f == pc[t][1]  point == pc[t][2]
        inside == \/ f = "mutex_lock" /\ (point # "owner" \/ mem.owner = t)
                  \/ f \in {"mutex_unlock", "futex_unlock"}
                  \/ f = "start" /\ point = "section"
    IN IF Sleeps(t, lock_tag) THEN "asleep"
       ELSE IF f = "futex_lock" /\ point = "wait" THEN IF reg[t] = 1 THEN "in" ELSE "wait"
       ELSE IF f = "futex_unlock" /\ point = "signal" THEN IF reg[t] > 0 THEN "signal" ELSE "out"
       ELSE IF inside THEN "in" ELSE "out"

\* And in that of the semaphore.
SemState(t) ==
    LET f == pc[t][1]  point == pc[t][2]
    IN IF Sleeps(t, sem_tag) THEN "asleep"
       ELSE IF f = "down" /\ point = "wait" THEN IF reg[t] >= 0 THEN "in" ELSE "wait"
       ELSE IF f = "up" /\ point = "signal" THEN IF reg[t] > 0 THEN "out" ELSE "signal"
       ELSE IF f = "up" THEN "in" ELSE "out"

\* Threads that have arrived at the barrier, and whether it has opened for them.
InBarrier(t) == pc[t][1] = "barrier" /\ pc[t][2] \notin {"version", "ldr", "str"}
Opened(t) == \/ mem.version # val[t] \/ mem.count = expected
             \/ \E u \in Workers : pc[u] = <<"barrier", "flip">>

\* The library never looks at the result of a futex signal: the kernel's array of
\* signals that nobody has waited for yet must not be full when it signals.
NoSignalDropped == Len(pending) < max_tcbs

\* The assertions of the counted mutex hold: its owner and count are reset when it is
\* taken, and the thread that unlocks it is its owner; nor does the kernel's scheduler fail.
NoAssertionFails == failed = {}

\* Every worker goes round for ever: no wakeup of the lock, the semaphore or the barrier
\* is lost, and no worker is starved by one of its priority.
EveryoneGoesRound == \A t \in Workers : []<>(pc[t] = <<"start", "mutex">>)
=============================================================================
