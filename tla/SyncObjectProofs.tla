-------------------------- MODULE SyncObjectProofs --------------------------
(***************************************************************************)
(* The objects of NanoSync, given that the kernel serves its futex calls:  *)
(* what holds of the library's memory and of its threads (Library), and    *)
(* that each step is one of FutexSemaphore, for the lock and for the       *)
(* semaphore, and one of Barrier (Obeyed).  Protocol is what the invariant *)
(* of FutexSemaphore says of the two.  This module goes through the mutex  *)
(* and the semaphore, SyncBarrierProofs through the barrier.               *)
(***************************************************************************)
EXTENDS NanoSync, FiniteSetTheorems, TLAPS

-----------------------------------------------------------------------------
(* The invariant                                                           *)

\* What the library sees of the kernel: the address that a worker sleeps on, if any, and
\* the number of signals that are kept for an address.
UsedTags == {lock_tag, sem_tag, barrier_tag[0], barrier_tag[1]}
sleep == [t \in Workers |-> IF tcb[t].state = "WAIT_FUTEX" THEN tcb[t].waits_for ELSE NULL]
kept == [x \in UsedTags |-> Cardinality(PendingFor(S, x))]

Points ==
    {<<"start", "mutex">>, <<"start", "section">>, <<"start", "semaphore">>,
     <<"mutex_lock", "owner">>, <<"mutex_lock", "set_owner">>, <<"mutex_lock", "set_count">>,
     <<"futex_lock", "ldr">>, <<"futex_lock", "str">>, <<"futex_lock", "wait">>,
     <<"futex_trylock", "ldr">>, <<"futex_trylock", "str">>,
     <<"mutex_unlock", "count">>, <<"mutex_unlock", "owner">>,
     <<"futex_unlock", "ldr">>, <<"futex_unlock", "str">>, <<"futex_unlock", "signal">>,
     <<"down", "ldr">>, <<"down", "str">>, <<"down", "wait">>,
     <<"try_down", "read">>, <<"try_down", "ldr">>, <<"try_down", "str">>,
     <<"up", "ldr">>, <<"up", "str">>, <<"up", "signal">>,
     <<"barrier", "version">>, <<"barrier", "ldr">>, <<"barrier", "str">>,
     <<"barrier", "arrived">>, <<"barrier", "woken">>, <<"barrier", "decrement">>,
     <<"barrier", "pass">>, <<"barrier", "reset">>, <<"barrier", "flip">>,
     <<"barrier", "waiters">>, <<"barrier", "release">>}

Memories ==
    [lock : Int, owner : Workers \cup {NULL}, nested : Int, sem : Int,
     count : Int, version : {0, 1}, waiters : Int]

Typed ==
    /\ DOMAIN pc = Workers \cup {irq_thread} /\ \A t \in Workers : pc[t] \in Points
    /\ reg \in [Workers -> Int] /\ val \in [Workers -> Int]
    /\ mem \in Memories /\ kept \in [UsedTags -> Nat]

\* A worker sleeps behind the system call that has sent it to sleep.
Asleep(t) ==
    \/ sleep[t] = NULL
    \/ sleep[t] = lock_tag /\ pc[t] = <<"mutex_lock", "set_owner">>
    \/ sleep[t] = sem_tag /\ pc[t] = <<"up", "ldr">>
    \/ /\ pc[t] = <<"barrier", "woken">> /\ val[t] \in {0, 1}
       /\ sleep[t] = barrier_tag[val[t]]

\* The object a block of user_atomic_add or user_atomic_cmp_set is about.
Field(f) ==
    IF f \in {"futex_lock", "futex_trylock", "futex_unlock"} THEN "lock"
    ELSE IF f = "barrier" THEN "count" ELSE "sem"

\* Only the thread that runs is inside a block, and what it has read is still there.
InBlock(t) == pc[t][2] = "str" => t = current /\ reg[t] = mem[Field(pc[t][1])]

\* okn_semaphore_try_down() goes on if it has read a permit.
HasRead(t) == pc[t] \in {<<"try_down", "ldr">>, <<"try_down", "str">>} => val[t] > 0

\* The owner of the counted mutex is the thread between the two assignments to owner.
Owns(t) ==
    \/ pc[t] \in {<<"mutex_lock", "set_count">>, <<"start", "section">>,
                  <<"mutex_unlock", "count">>, <<"mutex_unlock", "owner">>}
    \/ pc[t] = <<"mutex_lock", "owner">> /\ mem.owner = t

\* It has counted how often it has taken the mutex, except while it takes or releases it.
OwnerCount(t) ==
    Owns(t) => IF pc[t] \in {<<"mutex_lock", "set_count">>, <<"mutex_unlock", "owner">>}
               THEN mem.nested = 0 ELSE mem.nested >= 1

Counted ==
    /\ mem.owner = NULL => mem.nested = 0
    /\ \A t \in Workers : (Owns(t) <=> mem.owner = t) /\ OwnerCount(t)

\* The workers at the barrier: those who have come since it opened last, those who have
\* not left since, and, of both, those who wait in the kernel or are about to.
Inside == {t \in Workers : InBarrier(t)}
Now == {t \in Inside : val[t] = mem.version}
Old == {t \in Inside : val[t] # mem.version}
Waiting(t) == \/ pc[t] = <<"barrier", "arrived">> /\ reg[t] < expected
              \/ pc[t] = <<"barrier", "woken">> /\ sleep[t] # NULL

NoneKept == kept[barrier_tag[0]] = 0 /\ kept[barrier_tag[1]] = 0
OthersWait(b) == \A t \in Inside \ {b} : Waiting(t)

\* Nobody has to leave.
Gathering ==
    /\ Old = {} /\ \A t \in Inside : Waiting(t)
    /\ mem.count = Cardinality(Now) /\ mem.count < expected
    /\ NoneKept

\* b has come last.
Opening(b) ==
    /\ Now = Workers /\ OthersWait(b) /\ NoneKept
    /\ \/ pc[b] = <<"barrier", "arrived">> /\ reg[b] >= expected /\ mem.count = expected
       \/ pc[b] = <<"barrier", "reset">> /\ mem.count = expected
       \/ pc[b] = <<"barrier", "flip">> /\ mem.count = 0

\* b is about to wake the first.
Releasing(b) ==
    /\ Old = Workers /\ OthersWait(b) /\ NoneKept
    /\ mem.count = 0
    /\ \/ pc[b] = <<"barrier", "waiters">>
       \/ pc[b] = <<"barrier", "release">> /\ mem.waiters = expected - 1

\* b has been woken and is about to wake the next.
Passing(b) ==
    /\ b \in Old /\ OthersWait(b) /\ NoneKept
    /\ mem.count = Cardinality(Now)
    /\ \/ pc[b] = <<"barrier", "woken">> /\ sleep[b] = NULL /\ mem.waiters = Cardinality(Old)
       \/ pc[b] = <<"barrier", "decrement">> /\ mem.waiters = Cardinality(Old) /\ reg[b] = mem.waiters
       \/ pc[b] = <<"barrier", "pass">> /\ mem.waiters = Cardinality(Old) - 1

\* The kernel keeps the signal for one who is about to wait.
Handing ==
    /\ Old # {} /\ \A t \in Inside : Waiting(t)
    /\ \A t \in Old : pc[t] = <<"barrier", "arrived">>
    /\ mem.count = Cardinality(Now) /\ mem.waiters = Cardinality(Old)
    /\ kept[barrier_tag[mem.version]] = 0 /\ kept[barrier_tag[1 - mem.version]] = 1

Meets ==
    /\ \A t \in Workers : pc[t] \in {<<"barrier", "ldr">>, <<"barrier", "str">>} => val[t] = mem.version
    /\ \A t \in Inside : val[t] \in {0, 1}
    /\ \/ Gathering \/ Handing
       \/ \E b \in Inside : Opening(b) \/ Releasing(b) \/ Passing(b)

EachThread == \A t \in Workers : Asleep(t) /\ InBlock(t) /\ HasRead(t)

Library ==
    /\ Typed /\ Counted /\ Meets
    /\ EachThread

\* What the protocol of the lock and of the semaphore says.
Protocol ==
    /\ mem.lock >= 0
    /\ \A t, u \in Workers : LockState(t) = "in" /\ LockState(u) = "in" => t = u
    /\ kept[lock_tag] <= Cardinality({t \in Workers : LockState(t) = "wait"})
    /\ kept[sem_tag] <= Cardinality({t \in Workers : SemState(t) = "wait"})

-----------------------------------------------------------------------------
(* What the objects do                                                     *)

\* The protocol of FutexSemaphore: c, f and k are the word, the places of the threads and
\* the signals that are kept, before the step; d, g and l are the same behind it.
PermitDown(c, f, k, d, g, l) ==
    \E t \in Workers : /\ f[t] = "out" /\ d = c - 1 /\ l = k
                       /\ g = [f EXCEPT ![t] = IF c > 0 THEN "in" ELSE "wait"]

PermitWait(c, f, k, d, g, l) ==
    \E t \in Workers : /\ f[t] = "wait" /\ d = c
                       /\ IF k > 0 THEN l = k - 1 /\ g = [f EXCEPT ![t] = "in"]
                          ELSE l = k /\ g = [f EXCEPT ![t] = "asleep"]

PermitUp(c, f, k, d, g, l) ==
    \E t \in Workers : /\ f[t] = "in" /\ d = c + 1 /\ l = k
                       /\ g = [f EXCEPT ![t] = IF c >= 0 THEN "out" ELSE "signal"]

PermitSignal(c, f, k, d, g, l) ==
    \E t \in Workers : 
        /\ f[t] = "signal" /\ d = c
        /\ \/ (\A u \in Workers : f[u] # "asleep") /\ l = k + 1 /\ g = [f EXCEPT ![t] = "out"]
           \/ \E u \in Workers : f[u] = "asleep" /\ l = k /\ g = [f EXCEPT ![t] = "out", ![u] = "in"]

PermitStep(c, f, k, d, g, l) ==
    \/ d = c /\ g = f /\ l = k
    \/ PermitDown(c, f, k, d, g, l) \/ PermitWait(c, f, k, d, g, l)
    \/ PermitUp(c, f, k, d, g, l) \/ PermitSignal(c, f, k, d, g, l)

LockPlaces == [t \in Workers |-> LockState(t)]
SemPlaces == [t \in Workers |-> SemState(t)]

LockObeys == PermitStep(1 - mem.lock, LockPlaces, kept[lock_tag],
                        (1 - mem.lock)', LockPlaces', kept'[lock_tag])
SemObeys == PermitStep(mem.sem, SemPlaces, kept[sem_tag], mem'.sem, SemPlaces', kept'[sem_tag])

\* What Barrier says.
Arrived == {t \in Workers : InBarrier(t) /\ ~Opened(t)}
Leaving == {t \in Workers : InBarrier(t) /\ Opened(t)}

BarrierObeys ==
    \/ Arrived' = Arrived /\ Leaving' = Leaving
    \/ \E t \in Workers : /\ t \notin Arrived \cup Leaving
                          /\ IF Arrived \cup {t} = Workers THEN Arrived' = {} /\ Leaving' = Workers
                             ELSE Arrived' = Arrived \cup {t} /\ Leaving' = Leaving
    \/ \E t \in Leaving : Leaving' = Leaving \ {t} /\ Arrived' = Arrived

Obeyed == Library' /\ LockObeys /\ SemObeys /\ BarrierObeys

\* A thread that takes a permit, or is the next to wait for one,
LEMMA DownPermitted ==
    ASSUME NEW w \in Int, NEW f, NEW k, NEW t \in Workers, f[t] = "out",
           NEW x, x = IF w > 0 THEN "in" ELSE "wait"
    PROVE  PermitStep(w, f, k, w - 1, [f EXCEPT ![t] = x], k)
  BY Zenon DEF PermitStep, PermitDown

\* waits in the kernel,
LEMMA WaitPermitted ==
    ASSUME NEW w, NEW f, NEW k \in Nat, NEW l, NEW t \in Workers, f[t] = "wait", NEW x,
           k > 0 => l = k - 1 /\ x = "in", k = 0 => l = k /\ x = "asleep"
    PROVE  PermitStep(w, f, k, w, [f EXCEPT ![t] = x], l)
  <1>1. CASE k > 0
    BY <1>1, Zenon DEF PermitStep, PermitWait
  <1>2. CASE k = 0
    BY <1>2, Zenon DEF PermitStep, PermitWait
  <1> QED
    BY <1>1, <1>2

\* gives its permit back
LEMMA UpPermitted ==
    ASSUME NEW w \in Int, NEW f, NEW k, NEW t \in Workers, f[t] = "in",
           NEW x, x = IF w >= 0 THEN "out" ELSE "signal"
    PROVE  PermitStep(w, f, k, w + 1, [f EXCEPT ![t] = x], k)
  BY Zenon DEF PermitStep, PermitUp

\* or signals.
LEMMA SignalPermitted ==
    ASSUME NEW w, NEW f, NEW k, NEW t \in Workers, f[t] = "signal", NEW g, NEW l,
           \/ (\A u \in Workers : f[u] # "asleep") /\ l = k + 1 /\ g = [f EXCEPT ![t] = "out"]
           \/ \E u \in Workers : f[u] = "asleep" /\ l = k /\ g = [f EXCEPT ![t] = "out", ![u] = "in"]
    PROVE  PermitStep(w, f, k, w, g, l)
  BY Zenon DEF PermitStep, PermitSignal

-----------------------------------------------------------------------------
(* The kernel and the other threads                                        *)

\* What a step does to the sleepers and the signals: nothing, or what a futex call does.
Quiet == sleep' = sleep /\ kept' = kept

Waited(x) ==
    \/ kept[x] > 0 /\ sleep' = sleep /\ kept' = [kept EXCEPT ![x] = @ - 1]
    \/ kept[x] = 0 /\ kept' = kept /\ sleep' = [sleep EXCEPT ![current] = x]

Signalled(x) ==
    \/ /\ kept' = kept
       /\ \E u \in Workers : sleep[u] = x /\ sleep' = [sleep EXCEPT ![u] = NULL]
    \/ /\ \A u \in Workers : sleep[u] # x
       /\ sleep' = sleep /\ kept' = [kept EXCEPT ![x] = @ + 1]

Serves ==
    \A x \in UsedTags : /\ Syscall(FutexWait(S, x)) => Waited(x)
                        /\ Syscall(FutexSignal(S, x)) => Signalled(x)

\* A worker runs.
Ran(c) == Library /\ Protocol /\ c \in Workers /\ c = current /\ sleep[c] = NULL

\* The addresses of the objects differ.
LEMMA Addresses ==
    /\ UsedTags \subseteq Tags /\ NULL \notin UsedTags
    /\ lock_tag \in UsedTags /\ sem_tag \in UsedTags
    /\ barrier_tag[0] \in UsedTags /\ barrier_tag[1] \in UsedTags
    /\ lock_tag # sem_tag /\ barrier_tag[0] # barrier_tag[1]
    /\ barrier_tag[0] \notin {lock_tag, sem_tag} /\ barrier_tag[1] \notin {lock_tag, sem_tag}
  BY SyncAssumption, Zenon DEF UsedTags

\* sleep is where Sleeps() says.
LEMMA SleepsOn ==
    ASSUME NEW t \in Workers, NEW x \in UsedTags
    PROVE  (Sleeps(t, x) <=> sleep[t] = x) /\ (Sleeps(t, x)' <=> sleep'[t] = x)
  BY Addresses, Zenon DEF Sleeps, sleep

\* A step that leaves the kernel alone is quiet.
LEMMA QuietStep ==
    ASSUME tcb' = tcb, pending' = pending
    PROVE  Quiet
  BY Zenon DEF Quiet, sleep, kept, PendingFor, S

\* The sleepers on x and the signals for x are what they were.
Untouched(x) ==
    kept'[x] = kept[x] /\ \A t \in Workers : sleep'[t] = x <=> sleep[t] = x

\* What a step does to the threads but for the caller.
Woken(c) == \A t \in Workers \ {c} : sleep'[t] \in {sleep[t], NULL}

\* A thread that does not wait goes on.
LEMMA CallReturns ==
    ASSUME NEW c, Ran(c), NEW x \in UsedTags, Quiet \/ Signalled(x)
    PROVE  sleep'[c] = NULL
  <1>1. c \in Workers /\ sleep[c] = NULL /\ DOMAIN sleep = Workers
    BY Zenon DEF Ran, sleep
  <1> QED
    BY <1>1, Zenon DEF Quiet, Signalled

\* Each call is about its own address.
LEMMA CallTouches ==
    ASSUME NEW c, Ran(c), NEW x \in UsedTags, Quiet \/ Waited(x) \/ Signalled(x)
    PROVE  /\ kept' \in [UsedTags -> Nat] /\ Woken(c)
           /\ sleep'[c] \in {NULL, x}
           /\ \A y \in UsedTags \ {x} : Untouched(y)
           /\ Quiet => Untouched(x)
  <1>1. /\ kept \in [UsedTags -> Nat] /\ c \in Workers /\ sleep[c] = NULL
        /\ DOMAIN sleep = Workers /\ NULL # x /\ kept[x] \in Nat
    BY Addresses, Zenon DEF Ran, Library, Typed, sleep
  <1>2. /\ kept' \in [UsedTags -> Nat] /\ \A y \in UsedTags \ {x} : kept'[y] = kept[y]
    <2>1. \/ kept' = kept
          \/ kept[x] > 0 /\ kept' = [kept EXCEPT ![x] = @ - 1]
          \/ kept' = [kept EXCEPT ![x] = @ + 1]
      BY Zenon DEF Quiet, Waited, Signalled
    <2>2. CASE kept' = kept
      BY <1>1, <2>2, Zenon
    <2>3. CASE kept[x] > 0 /\ kept' = [kept EXCEPT ![x] = @ - 1]
      BY <1>1, <2>3
    <2>4. CASE kept' = [kept EXCEPT ![x] = @ + 1]
      BY <1>1, <2>4
    <2> QED
      BY <2>1, <2>2, <2>3, <2>4, Zenon
  <1>3. /\ Woken(c) /\ sleep'[c] \in {NULL, x}
        /\ \A y \in UsedTags \ {x} : \A t \in Workers : sleep'[t] = y <=> sleep[t] = y
    <2>1. \/ sleep' = sleep
          \/ sleep' = [sleep EXCEPT ![c] = x]
          \/ \E u \in Workers : sleep[u] = x /\ sleep' = [sleep EXCEPT ![u] = NULL]
      BY Zenon DEF Quiet, Waited, Signalled, Ran
    <2>2. CASE sleep' = sleep
      BY <1>1, <2>2, Zenon DEF Woken
    <2>3. CASE sleep' = [sleep EXCEPT ![c] = x]
      BY <1>1, <2>3, Addresses, Zenon DEF Woken
    <2>4. ASSUME NEW u \in Workers, sleep[u] = x, sleep' = [sleep EXCEPT ![u] = NULL]
          PROVE  <1>3
      BY <1>1, <2>4, Addresses, Zenon DEF Woken
    <2> QED
      BY <2>1, <2>2, <2>3, <2>4, Zenon
  <1>4. Quiet => Untouched(x)
    BY Zenon DEF Quiet, Untouched
  <1> QED
    BY <1>2, <1>3, <1>4, Zenon DEF Untouched

\* A wait takes a signal that is kept or goes to sleep.
LEMMA WaitTouches ==
    ASSUME NEW c, Ran(c), NEW x \in UsedTags, Waited(x)
    PROVE  /\ \A t \in Workers \ {c} : sleep'[t] = sleep[t]
           /\ kept[x] \in Nat
           /\ kept[x] > 0 => sleep'[c] = NULL /\ kept'[x] = kept[x] - 1
           /\ kept[x] = 0 => sleep'[c] = x /\ kept'[x] = kept[x]
  <1>1. /\ kept \in [UsedTags -> Nat] /\ c \in Workers /\ c = current /\ sleep[c] = NULL
        /\ DOMAIN sleep = Workers /\ kept[x] \in Nat
    BY Zenon DEF Ran, Library, Typed, sleep
  <1>2. CASE kept[x] > 0 /\ sleep' = sleep /\ kept' = [kept EXCEPT ![x] = @ - 1]
    BY <1>1, <1>2
  <1>3. CASE kept[x] = 0 /\ kept' = kept /\ sleep' = [sleep EXCEPT ![current] = x]
    BY <1>1, <1>3
  <1> QED
    BY <1>2, <1>3, Zenon DEF Waited

\* The sleeper a signal wakes.
Wakes(u, x) ==
    /\ sleep[u] = x /\ sleep'[u] = NULL /\ kept'[x] = kept[x]
    /\ \A t \in Workers \ {u} : sleep'[t] = sleep[t]

\* A signal wakes another thread or is kept.
LEMMA SignalTouches ==
    ASSUME NEW c, Ran(c), NEW x \in UsedTags, Signalled(x)
    PROVE  /\ kept[x] \in Nat
           /\ \/ \E u \in Workers \ {c} : Wakes(u, x)
              \/ (\A u \in Workers : sleep[u] # x /\ sleep'[u] = sleep[u]) /\ kept'[x] = kept[x] + 1
  <1>1. /\ kept \in [UsedTags -> Nat] /\ c \in Workers /\ c = current /\ sleep[c] = NULL /\ x # NULL
        /\ DOMAIN sleep = Workers /\ kept[x] \in Nat
    BY Addresses, Zenon DEF Ran, Library, Typed, sleep
  <1>2. ASSUME NEW u \in Workers, kept' = kept, sleep[u] = x, sleep' = [sleep EXCEPT ![u] = NULL]
        PROVE  u # c /\ Wakes(u, x)
    BY <1>1, <1>2, Zenon DEF Wakes
  <1>3. CASE (\A u \in Workers : sleep[u] # x) /\ sleep' = sleep /\ kept' = [kept EXCEPT ![x] = @ + 1]
    BY <1>1, <1>3, Zenon
  <1> QED
    BY <1>1, <1>2, <1>3, Zenon DEF Signalled

\* The caller goes from p to q; the others stay where they are, with their registers.
Moves(c, p, q) ==
    /\ pc[c] = p /\ pc'[c] = q /\ q \in Points /\ DOMAIN pc' = DOMAIN pc
    /\ reg' \in [Workers -> Int] /\ val' \in [Workers -> Int] /\ mem' \in Memories
    /\ \A t \in Workers \ {c} : pc'[t] = pc[t] /\ reg'[t] = reg[t] /\ val'[t] = val[t]

\* What is true of each thread stays true, if it is true of the caller.
LEMMA ThreadsMove ==
    ASSUME NEW c, Ran(c), NEW p, NEW q, Moves(c, p, q), Woken(c), kept' \in [UsedTags -> Nat],
           Asleep(c)', q[2] = "str" => current' = c /\ reg'[c] = mem'[Field(q[1])],
           q \in {<<"try_down", "ldr">>, <<"try_down", "str">>} => val'[c] > 0
    PROVE  Typed' /\ EachThread'
  <1>1. Typed'
    BY Zenon DEF Ran, Library, Typed, Moves
  <1>2. InBlock(c)' /\ HasRead(c)' /\ Asleep(c)'
    BY Zenon DEF Moves, InBlock, HasRead
  <1>3. ASSUME NEW t \in Workers \ {c} PROVE Asleep(t)' /\ InBlock(t)' /\ HasRead(t)'
    <2>1. Asleep(t) /\ InBlock(t) /\ HasRead(t) /\ pc'[t] = pc[t] /\ reg'[t] = reg[t] /\ val'[t] = val[t]
      BY Zenon DEF Ran, Library, EachThread, Moves
    <2>2. sleep'[t] \in {sleep[t], NULL}
      BY Zenon DEF Woken
    <2>3. pc[t][2] # "str"
      BY <2>1, Zenon DEF InBlock, Ran
    <2>4. InBlock(t)' /\ HasRead(t)'
      BY <2>1, <2>3, Zenon DEF InBlock, HasRead
    <2>5. Asleep(t)'
      BY <2>1, <2>2, Zenon DEF Asleep
    <2> QED
      BY <2>4, <2>5, Zenon
  <1>4. ASSUME NEW t \in Workers PROVE (Asleep(t) /\ InBlock(t) /\ HasRead(t))'
    BY <1>2, <1>3, Zenon
  <1> QED
    BY <1>1, <1>4, Zenon DEF EachThread

-----------------------------------------------------------------------------
(* A step that is not about an object                                      *)

OutsideLock(p) ==
    p[1] \in {"down", "try_down", "up", "barrier"} \/ p \in {<<"start", "mutex">>, <<"start", "semaphore">>}
OutsideSem(p) == p[1] \notin {"down", "up"} \/ p = <<"down", "ldr">>
OutsideBarrier(p) == p[1] # "barrier" \/ p[2] \in {"version", "ldr", "str"}

\* The other threads stay where they are in the lock,
LEMMA OthersInLock ==
    ASSUME NEW c, Ran(c), NEW p, NEW q, Moves(c, p, q), NEW t \in Workers \ {c},
           mem.owner = t <=> mem'.owner = t, sleep'[t] = lock_tag <=> sleep[t] = lock_tag
    PROVE  LockState(t)' = LockState(t) /\ (Owns(t)' <=> Owns(t))
  <1>1. pc'[t] = pc[t] /\ reg'[t] = reg[t]
    BY Zenon DEF Moves
  <1>2. Sleeps(t, lock_tag)' <=> Sleeps(t, lock_tag)
    BY SleepsOn, Addresses, Zenon
  <1> QED
    BY <1>1, <1>2, Zenon DEF LockState, Owns

\* and in the semaphore.
LEMMA OthersInSem ==
    ASSUME NEW c, Ran(c), NEW p, NEW q, Moves(c, p, q), NEW t \in Workers \ {c},
           sleep'[t] = sem_tag <=> sleep[t] = sem_tag
    PROVE  SemState(t)' = SemState(t)
  <1>1. pc'[t] = pc[t] /\ reg'[t] = reg[t]
    BY Zenon DEF Moves
  <1>2. Sleeps(t, sem_tag)' <=> Sleeps(t, sem_tag)
    BY SleepsOn, Addresses, Zenon
  <1> QED
    BY <1>1, <1>2, Zenon DEF SemState

\* A step outside the lock leaves it and the counted mutex as they are.
LEMMA LockAside ==
    ASSUME NEW c, Ran(c), NEW p, NEW q, Moves(c, p, q), OutsideLock(p), OutsideLock(q), Untouched(lock_tag),
           mem'.lock = mem.lock, mem'.owner = mem.owner, mem'.nested = mem.nested
    PROVE  LockObeys /\ Counted'
  <1>1. c \in Workers /\ pc[c] = p /\ pc'[c] = q /\ Counted
    BY Zenon DEF Ran, Library, Moves
  <1>2. LockState(c) = "out" /\ LockState(c)' = "out" /\ ~Owns(c) /\ ~Owns(c)'
    <2>1. ~Sleeps(c, lock_tag) /\ ~Sleeps(c, lock_tag)'
      BY <1>1, SleepsOn, Addresses, Zenon DEF Ran, Untouched
    <2>2. p # <<"mutex_lock", "owner">> /\ q # <<"mutex_lock", "owner">>
      BY DEF OutsideLock
    <2> QED
      BY <1>1, <2>1, <2>2 DEF LockState, Owns, OutsideLock
  <1>3. \A t \in Workers : LockState(t)' = LockState(t) /\ (Owns(t)' <=> Owns(t))
    BY <1>2, OthersInLock, Zenon DEF Untouched
  <1>4. LockPlaces' = LockPlaces
    BY <1>3, Zenon DEF LockPlaces
  <1>5. Counted'
    <2>1. \A t \in Workers : Owns(t) => pc'[t] = pc[t]
      BY <1>2, Zenon DEF Moves
    <2> QED
      BY <1>1, <1>3, <2>1, Zenon DEF Counted, OwnerCount
  <1> QED
    BY <1>4, <1>5, Zenon DEF LockObeys, PermitStep, Untouched

\* A step outside the semaphore leaves it as it is.
LEMMA SemAside ==
    ASSUME NEW c, Ran(c), NEW p, NEW q, Moves(c, p, q), OutsideSem(p), OutsideSem(q), Untouched(sem_tag),
           mem'.sem = mem.sem
    PROVE  SemObeys
  <1>1. c \in Workers /\ pc[c] = p /\ pc'[c] = q
    BY Zenon DEF Ran, Moves
  <1>2. SemState(c) = "out" /\ SemState(c)' = "out"
    <2>1. ~Sleeps(c, sem_tag) /\ ~Sleeps(c, sem_tag)'
      BY <1>1, SleepsOn, Addresses, Zenon DEF Ran, Untouched
    <2> QED
      BY <1>1, <2>1 DEF SemState, OutsideSem
  <1>3. \A t \in Workers : SemState(t)' = SemState(t)
    BY <1>2, OthersInSem, Zenon DEF Untouched
  <1>4. SemPlaces' = SemPlaces
    BY <1>3, Zenon DEF SemPlaces
  <1> QED
    BY <1>4, Zenon DEF SemObeys, PermitStep, Untouched

\* A step outside the barrier leaves it as it is.
LEMMA BarrierAside ==
    ASSUME NEW c, Ran(c), NEW p, NEW q, Moves(c, p, q), OutsideBarrier(p), OutsideBarrier(q),
           Untouched(barrier_tag[0]), Untouched(barrier_tag[1]), EachThread',
           mem'.count = mem.count, mem'.version = mem.version, mem'.waiters = mem.waiters,
           q \in {<<"barrier", "ldr">>, <<"barrier", "str">>} => val'[c] = mem.version
    PROVE  BarrierObeys /\ Meets'
  <1>1. /\ c \in Workers /\ pc[c] = p /\ pc'[c] = q /\ Meets /\ mem.version \in {0, 1}
        /\ ~InBarrier(c) /\ ~InBarrier(c)'
        /\ pc'[c] \in {<<"barrier", "ldr">>, <<"barrier", "str">>} => val'[c] = mem.version
        /\ pc[c] # <<"barrier", "flip">> /\ pc'[c] # <<"barrier", "flip">>
    BY DEF Ran, Library, Typed, Memories, Moves, InBarrier, OutsideBarrier
  <1>2. \A t \in Workers \ {c} : pc'[t] = pc[t] /\ reg'[t] = reg[t] /\ val'[t] = val[t]
    BY Zenon DEF Moves
  <1>3. /\ \A t \in Workers : InBarrier(t)' <=> InBarrier(t)
        /\ Inside' = Inside /\ c \notin Inside /\ Inside \subseteq Workers
    BY <1>1, <1>2, Zenon DEF Inside, InBarrier
  <1>4. /\ \A t \in Inside : pc'[t] = pc[t] /\ reg'[t] = reg[t] /\ val'[t] = val[t]
        /\ Now' = Now /\ Old' = Old
    BY <1>2, <1>3, Zenon DEF Now, Old
  <1>5. ASSUME NEW t \in Inside, pc[t] = <<"barrier", "woken">> PROVE sleep'[t] = NULL <=> sleep[t] = NULL
    <2>1. Asleep(t) /\ Asleep(t)' /\ val'[t] = val[t] /\ pc'[t] = pc[t] /\ t \in Workers
      BY <1>3, <1>4, Zenon DEF Ran, Library, EachThread
    <2>2. \/ sleep[t] = NULL
          \/ val[t] \in {0, 1} /\ sleep[t] = barrier_tag[val[t]]
      BY <1>5, <2>1 DEF Asleep
    <2>3. \/ sleep'[t] = NULL
          \/ val[t] \in {0, 1} /\ sleep'[t] = barrier_tag[val[t]]
      BY <1>5, <2>1 DEF Asleep
    <2> QED
      BY <2>1, <2>2, <2>3, Addresses, Zenon DEF Untouched
  <1>6. \A t \in Inside : Waiting(t)' <=> Waiting(t)
    BY <1>4, <1>5, Zenon DEF Waiting
  <1>7. NoneKept' <=> NoneKept
    BY Zenon DEF NoneKept, Untouched
  <1>8. \A b \in Inside : OthersWait(b)' <=> OthersWait(b)
    BY <1>3, <1>6, Zenon DEF OthersWait
  <1>9. Gathering => Gathering'
    BY <1>3, <1>4, <1>6, <1>7, Zenon DEF Gathering
  <1>10. Handing => Handing'
    <2>1. \A x \in {0, 1} : kept'[barrier_tag[x]] = kept[barrier_tag[x]]
      BY Zenon DEF Untouched
    <2>2. Old \subseteq Inside /\ 1 - mem.version \in {0, 1}
      BY <1>1 DEF Old
    <2> QED
      BY <1>1, <1>3, <1>4, <1>6, <2>1, <2>2, Zenon DEF Handing
  <1>11. ASSUME NEW b \in Inside PROVE Opening(b) \/ Releasing(b) \/ Passing(b) => (Opening(b) \/ Releasing(b) \/ Passing(b))'
    <2>1. pc'[b] = pc[b] /\ reg'[b] = reg[b] /\ (NoneKept' <=> NoneKept) /\ (OthersWait(b)' <=> OthersWait(b))
      BY <1>4, <1>7, <1>8, Zenon
    <2>2. Opening(b) => Opening(b)'
      BY <1>4, <2>1, Zenon DEF Opening
    <2>3. Releasing(b) => Releasing(b)'
      BY <1>4, <2>1, Zenon DEF Releasing
    <2>4. Passing(b) => Passing(b)'
      BY <1>4, <1>5, <2>1, Zenon DEF Passing
    <2> QED
      BY <2>2, <2>3, <2>4, Zenon
  <1>12. Meets'
    BY <1>1, <1>2, <1>3, <1>4, <1>9, <1>10, <1>11, Zenon DEF Meets
  <1>13. \A t \in Inside : Opened(t)' <=> Opened(t)
    BY <1>1, <1>2, <1>4, Zenon DEF Opened
  <1> QED
    BY <1>3, <1>12, <1>13, Zenon DEF BarrierObeys, Arrived, Leaving, Inside

-----------------------------------------------------------------------------
(* The instructions                                                        *)

\* ldr of the block of f.
LEMMA LdrStep ==
    ASSUME NEW c, Ran(c), NEW f, NEW field \in {"lock", "sem", "count"}, Ldr(f, field),
           <<f, "str">> \in Points
    PROVE  /\ Moves(c, <<f, "ldr">>, <<f, "str">>) /\ Quiet /\ current' = c
           /\ mem' = mem /\ val' = val /\ reg'[c] = mem[field]
  <1>1. Quiet
    BY QuietStep, Zenon DEF Ldr, vars
  <1>2. mem[field] \in Int
    BY Zenon DEF Ran, Library, Typed, Memories
  <1>3. Moves(c, <<f, "ldr">>, <<f, "str">>) /\ reg'[c] = mem[field]
    BY <1>2, Zenon DEF Ldr, Ran, Library, Typed, At, Goto, Local, Moves
  <1> QED
    BY <1>1, <1>3, Zenon DEF Ldr, vars, Ran

\* The words of the blocks.
LEMMA Fields ==
    /\ Field("futex_lock") = "lock" /\ Field("futex_unlock") = "lock" /\ Field("futex_trylock") = "lock"
    /\ Field("down") = "sem" /\ Field("up") = "sem" /\ Field("try_down") = "sem"
    /\ Field("barrier") = "count" /\ 1 \in Int /\ -1 \in Int
  BY DEF Field

\* str of user_atomic_add: what was read is still in memory, so the word changes by d.
LEMMA StrAddStep ==
    ASSUME NEW c, Ran(c), NEW f, NEW field \in {"lock", "sem", "count"}, NEW d \in Int, NEW point,
           StrAdd(f, field, d, point), <<f, point>> \in Points, Field(f) = field
    PROVE  /\ Moves(c, <<f, "str">>, <<f, point>>) /\ Quiet /\ current' = c /\ val' = val
           /\ mem' = [mem EXCEPT ![field] = mem[field] + d] /\ reg'[c] = mem[field] + d
  <1>1. Quiet
    BY QuietStep, Zenon DEF StrAdd, vars
  <1>2. /\ c \in Workers /\ c = current /\ pc[c] = <<f, "str">> /\ DOMAIN pc = Workers \cup {irq_thread}
        /\ reg \in [Workers -> Int] /\ val \in [Workers -> Int] /\ mem \in Memories
    BY Zenon DEF StrAdd, At, Ran, Library, Typed
  <1>3. reg[c] = mem[field]
    BY <1>2 DEF Ran, Library, EachThread, InBlock
  <1>4. mem[field] \in Int
    BY <1>2, Zenon DEF Memories
  <1>5. mem' = [mem EXCEPT ![field] = mem[field] + d] /\ reg' = [reg EXCEPT ![c] = mem[field] + d]
    BY <1>2, <1>3, Zenon DEF StrAdd, Memory, Local
  <1>6. mem' \in Memories /\ reg' \in [Workers -> Int]
    BY <1>2, <1>4, <1>5 DEF Memories
  <1>7. Moves(c, <<f, "str">>, <<f, point>>) /\ reg'[c] = mem[field] + d
    BY <1>2, <1>5, <1>6, Zenon DEF StrAdd, Goto, Moves
  <1> QED
    BY <1>1, <1>2, <1>5, <1>7, Zenon DEF StrAdd, vars

\* A step without a system call.
LEMMA NoSyscallStep ==
    ASSUME NEW c, Ran(c), NEW p, pc[c] = p, NEW f, NEW point, Goto(f, point), <<f, point>> \in Points,
           NoSyscall
    PROVE  /\ Moves(c, p, <<f, point>>) /\ Quiet /\ current' = c
           /\ mem' = mem /\ val' = val /\ reg' = reg
  <1>1. Quiet
    BY QuietStep, Zenon DEF NoSyscall, vars
  <1>2. Moves(c, p, <<f, point>>)
    BY Zenon DEF NoSyscall, Ran, Library, Typed, Goto, Moves
  <1> QED
    BY <1>1, <1>2, Zenon DEF NoSyscall, vars, Ran

\* A system call.
LEMMA SyscallStep ==
    ASSUME NEW c, Ran(c), NEW p, pc[c] = p, NEW f, NEW point, Goto(f, point), <<f, point>> \in Points,
           NEW s, Syscall(s)
    PROVE  /\ Moves(c, p, <<f, point>>) /\ mem' = mem /\ val' = val /\ reg' = reg
  BY Zenon DEF Syscall, Ran, Library, Typed, Goto, Moves

\* A thread that is awake before and behind a step.
LEMMA Awake ==
    ASSUME NEW c, Ran(c), sleep'[c] = NULL, NEW x \in UsedTags
    PROVE  ~Sleeps(c, x) /\ ~Sleeps(c, x)'
  BY SleepsOn, Addresses, Zenon DEF Ran

-----------------------------------------------------------------------------
(* The lock and the counted mutex                                          *)

OfLock(p) ==
    /\ p \in Points
    /\ p[1] \in {"start", "mutex_lock", "futex_lock", "futex_trylock", "mutex_unlock", "futex_unlock"}

\* The fields of the other objects.
LockMemory ==
    /\ mem'.sem = mem.sem /\ mem'.count = mem.count
    /\ mem'.version = mem.version /\ mem'.waiters = mem.waiters

\* A step of the lock or of the mutex is outside the other objects.
LEMMA LockPart ==
    ASSUME NEW c, Ran(c), NEW p, NEW q, Moves(c, p, q), OfLock(p), OfLock(q),
           Quiet \/ Waited(lock_tag) \/ Signalled(lock_tag),
           sleep'[c] = NULL \/ q = <<"mutex_lock", "set_owner">>,
           q[2] = "str" => current' = c /\ reg'[c] = mem'.lock,
           LockMemory, LockObeys, Counted'
    PROVE  Obeyed
  <1>1. /\ kept' \in [UsedTags -> Nat] /\ Woken(c) /\ sleep'[c] \in {NULL, lock_tag}
        /\ Untouched(sem_tag) /\ Untouched(barrier_tag[0]) /\ Untouched(barrier_tag[1])
    BY CallTouches, Addresses, Zenon
  <1>2. Asleep(c)'
    BY <1>1, Zenon DEF Asleep, Moves
  <1>3. /\ OutsideSem(p) /\ OutsideSem(q) /\ OutsideBarrier(p) /\ OutsideBarrier(q)
        /\ q \notin {<<"try_down", "ldr">>, <<"try_down", "str">>}
        /\ q \notin {<<"barrier", "ldr">>, <<"barrier", "str">>}
    BY DEF OfLock, OutsideSem, OutsideBarrier
  <1>4. q[2] = "str" => current' = c /\ reg'[c] = mem'[Field(q[1])]
    <2>1. q \in Points
      BY Zenon DEF Moves
    <2>2. q[2] = "str" => Field(q[1]) = "lock"
      BY <2>1 DEF OfLock, Field, Points
    <2> QED
      BY <2>2, Zenon
  <1>5. Typed' /\ EachThread'
    BY <1>1, <1>2, <1>3, <1>4, ThreadsMove, Zenon
  <1>6. SemObeys
    BY <1>1, <1>3, SemAside, Zenon DEF LockMemory
  <1>7. BarrierObeys /\ Meets'
    BY <1>1, <1>3, <1>5, BarrierAside, Zenon DEF LockMemory
  <1> QED
    BY <1>5, <1>6, <1>7, Zenon DEF Obeyed, Library

\* The owner, and those who are not, when the caller alone has changed the mutex.
LEMMA CountedMoves ==
    ASSUME NEW c, Ran(c), NEW p, NEW q, Moves(c, p, q),
           Owns(c)' <=> mem'.owner = c, OwnerCount(c)', mem'.owner = NULL => mem'.nested = 0,
           \/ mem'.owner = mem.owner /\ (mem.owner = c \/ mem'.nested = mem.nested)
           \/ {mem.owner, mem'.owner} \subseteq {c, NULL}
    PROVE  Counted' /\ \A t \in Workers \ {c} : mem.owner = t <=> mem'.owner = t
  <1>1. Counted /\ NULL \notin Workers
    BY SyncAssumption, ImageAssumption, Zenon DEF Ran, Library
  <1>2. ASSUME NEW t \in Workers \ {c}
        PROVE  /\ (Owns(t)' <=> mem'.owner = t) /\ OwnerCount(t)'
               /\ mem.owner = t <=> mem'.owner = t
    <2>1. /\ pc'[t] = pc[t] /\ (mem.owner = t <=> mem'.owner = t)
          /\ mem.owner = t => mem'.nested = mem.nested
      BY <1>1, Zenon DEF Moves
    <2>2. (Owns(t) <=> mem.owner = t) /\ OwnerCount(t) /\ (Owns(t)' <=> Owns(t))
      BY <1>1, <2>1, Zenon DEF Counted, Owns
    <2> QED
      BY <2>1, <2>2, Zenon DEF OwnerCount
  <1>3. \A t \in Workers : (Owns(t)' <=> mem'.owner = t) /\ OwnerCount(t)'
    BY <1>2
  <1> QED
    BY <1>2, <1>3, Zenon DEF Counted

\* The places in the lock, when the caller alone has moved.
LEMMA LockPlaceMoves ==
    ASSUME NEW c, Ran(c), NEW p, NEW q, Moves(c, p, q),
           \A t \in Workers \ {c} : mem.owner = t <=> mem'.owner = t,
           \A t \in Workers \ {c} : sleep'[t] = lock_tag <=> sleep[t] = lock_tag
    PROVE  LockPlaces' = [LockPlaces EXCEPT ![c] = LockState(c)'] /\ LockPlaces[c] = LockState(c)
  <1>1. \A t \in Workers \ {c} : LockState(t)' = LockState(t)
    BY OthersInLock, Zenon
  <1> QED
    BY <1>1, Zenon DEF LockPlaces, Ran

\* A step in the lock that leaves the word alone.
LEMMA LockStays ==
    ASSUME NEW c, Ran(c), NEW p, NEW q, Moves(c, p, q), OfLock(p), OfLock(q), Quiet,
           q[2] = "str" => current' = c /\ reg'[c] = mem'.lock,
           LockMemory, mem'.lock = mem.lock, LockState(c)' = LockState(c),
           Counted', \A t \in Workers \ {c} : mem.owner = t <=> mem'.owner = t
    PROVE  Obeyed
  <1>1. LockPlaces' = LockPlaces
    BY LockPlaceMoves, Zenon DEF Quiet, LockPlaces
  <1>2. LockObeys
    BY <1>1, Zenon DEF LockObeys, PermitStep, Quiet
  <1> QED
    BY <1>2, LockPart, CallReturns, Addresses, Zenon

\* The mutex is not touched, and the caller neither gets nor loses it.
LEMMA CountedStays ==
    ASSUME NEW c, Ran(c), NEW p, NEW q, Moves(c, p, q), mem'.owner = mem.owner, mem'.nested = mem.nested,
           Owns(c)' <=> Owns(c),
           Owns(c) => {p, q} \cap {<<"mutex_lock", "set_count">>, <<"mutex_unlock", "owner">>} = {}
    PROVE  Counted' /\ \A t \in Workers \ {c} : mem.owner = t <=> mem'.owner = t
  <1>1. Counted /\ c \in Workers /\ pc[c] = p /\ pc'[c] = q
    BY Zenon DEF Ran, Library, Moves
  <1>2. (Owns(c)' <=> mem'.owner = c) /\ OwnerCount(c)' /\ (mem'.owner = NULL => mem'.nested = 0)
    BY <1>1, Zenon DEF Counted, OwnerCount
  <1> QED
    BY <1>2, CountedMoves, Zenon

\* okn_futex_lock() is a down of the lock.
LEMMA FutexLockObeys ==
    ASSUME NEW c, Ran(c), Serves, FutexLock
    PROVE  Obeyed
  <1>1. c \in Workers /\ c = current /\ mem.lock \in Nat /\ mem \in Memories /\ kept[lock_tag] \in Nat
    BY Addresses DEF Ran, Protocol, Library, Typed, Memories
  <1>2. CASE Ldr("futex_lock", "lock")
    <2>1. /\ Moves(c, <<"futex_lock", "ldr">>, <<"futex_lock", "str">>) /\ Quiet /\ current' = c
          /\ mem' = mem /\ reg'[c] = mem.lock
      BY <1>2, LdrStep, Zenon DEF Points
    <2>2. Counted' /\ \A t \in Workers \ {c} : mem.owner = t <=> mem'.owner = t
      BY <2>1, CountedStays DEF Owns, Moves
    <2>3. LockState(c)' = LockState(c)
      BY <2>1, Awake, CallReturns, Addresses DEF LockState, Moves
    <2> QED
      BY <2>1, <2>2, <2>3, LockStays, Zenon DEF OfLock, LockMemory, Points
  <1>3. CASE StrAdd("futex_lock", "lock", 1, "wait")
    <2>1. /\ Moves(c, <<"futex_lock", "str">>, <<"futex_lock", "wait">>) /\ Quiet
          /\ mem' = [mem EXCEPT !.lock = mem.lock + 1] /\ reg'[c] = mem.lock + 1
      <3>1. <<"futex_lock", "wait">> \in Points
        BY Zenon DEF Points
      <3> QED
        BY <1>3, <3>1, StrAddStep, Fields
    <2>2. Counted' /\ \A t \in Workers \ {c} : mem.owner = t <=> mem'.owner = t
      <3>1. mem'.owner = mem.owner /\ mem'.nested = mem.nested
        BY <1>1, <2>1, Zenon DEF Memories
      <3> QED
        BY <2>1, <3>1, CountedStays DEF Owns, Moves
    <2>3. LockState(c) = "out" /\ LockState(c)' = IF 1 - mem.lock > 0 THEN "in" ELSE "wait"
      BY <1>1, <2>1, Awake, CallReturns, Addresses DEF LockState, Moves
    <2>4. LockPlaces' = [LockPlaces EXCEPT ![c] = LockState(c)'] /\ LockPlaces[c] = LockState(c)
      BY <2>1, <2>2, LockPlaceMoves, Zenon DEF Quiet
    <2>5. (1 - mem.lock)' = 1 - mem.lock - 1 /\ kept' = kept
      BY <1>1, <2>1 DEF Memories, Quiet
    <2>6. LockObeys
      <3>1. PermitStep(1 - mem.lock, LockPlaces, kept[lock_tag], 1 - mem.lock - 1,
                       [LockPlaces EXCEPT ![c] = LockState(c)'], kept[lock_tag])
        <4>1. 1 - mem.lock \in Int
          BY <1>1
        <4> QED
          BY <1>1, <2>3, <2>4, <4>1, DownPermitted, Zenon
      <3> QED
        BY <2>4, <2>5, <3>1, Zenon DEF LockObeys
    <2>7. LockMemory
      BY <1>1, <2>1, Zenon DEF LockMemory, Memories
    <2> QED
      BY <2>1, <2>2, <2>6, <2>7, LockPart, CallReturns, Addresses, Zenon DEF OfLock, Points
  <1>4. CASE /\ At("futex_lock", "wait") /\ Goto("mutex_lock", "set_owner")
             /\ reg[current] = 1 /\ NoSyscall
    <2>1. /\ Moves(c, <<"futex_lock", "wait">>, <<"mutex_lock", "set_owner">>) /\ Quiet
          /\ mem' = mem /\ reg[c] = 1
      BY <1>1, <1>4, NoSyscallStep, Zenon DEF Points, At
    <2>2. Counted' /\ \A t \in Workers \ {c} : mem.owner = t <=> mem'.owner = t
      BY <2>1, CountedStays DEF Owns, Moves
    <2>3. LockState(c)' = LockState(c)
      BY <2>1, Awake, CallReturns, Addresses DEF LockState, Moves
    <2> QED
      BY <2>1, <2>2, <2>3, LockStays, Zenon DEF OfLock, LockMemory, Points
  <1>5. CASE /\ At("futex_lock", "wait") /\ Goto("mutex_lock", "set_owner")
             /\ reg[current] # 1 /\ Syscall(FutexWait(S, lock_tag))
    <2>1. /\ Moves(c, <<"futex_lock", "wait">>, <<"mutex_lock", "set_owner">>) /\ Waited(lock_tag)
          /\ mem' = mem /\ reg[c] # 1
      BY <1>1, <1>5, SyscallStep, Addresses, Zenon DEF Points, At, Serves
    <2>2. Counted' /\ \A t \in Workers \ {c} : mem.owner = t <=> mem'.owner = t
      BY <2>1, CountedStays DEF Owns, Moves
    <2>3. ~Sleeps(c, lock_tag) /\ (Sleeps(c, lock_tag)' <=> sleep'[c] = lock_tag)
      BY <1>1, SleepsOn, Addresses, Zenon DEF Ran
    <2>4. LockState(c) = "wait" /\ LockState(c)' = IF sleep'[c] = lock_tag THEN "asleep" ELSE "in"
      BY <2>1, <2>3 DEF LockState, Moves
    <2>5. /\ \A t \in Workers \ {c} : sleep'[t] = lock_tag <=> sleep[t] = lock_tag
          /\ (sleep'[c] = lock_tag <=> kept[lock_tag] = 0)
          /\ kept'[lock_tag] = IF kept[lock_tag] > 0 THEN kept[lock_tag] - 1 ELSE kept[lock_tag]
      BY <1>1, <2>1, Addresses, WaitTouches
    <2>6. LockPlaces' = [LockPlaces EXCEPT ![c] = LockState(c)'] /\ LockPlaces[c] = LockState(c)
      BY <2>1, <2>2, <2>5, LockPlaceMoves, Zenon
    <2>7. LockObeys
      <3>1. (1 - mem.lock)' = 1 - mem.lock
        BY <2>1, Zenon
      <3>2. PermitStep(1 - mem.lock, LockPlaces, kept[lock_tag], 1 - mem.lock,
                       [LockPlaces EXCEPT ![c] = LockState(c)'], kept'[lock_tag])
        <4>1. /\ kept[lock_tag] > 0 => kept'[lock_tag] = kept[lock_tag] - 1 /\ LockState(c)' = "in"
              /\ kept[lock_tag] = 0 => kept'[lock_tag] = kept[lock_tag] /\ LockState(c)' = "asleep"
          BY <1>1, <2>4, <2>5
        <4> QED
          BY <1>1, <2>4, <2>6, <4>1, WaitPermitted, Zenon
      <3> QED
        BY <2>6, <3>1, <3>2, Zenon DEF LockObeys
    <2> QED
      BY <2>1, <2>2, <2>7, LockPart, Zenon DEF OfLock, LockMemory, Points
  <1> QED
    BY <1>2, <1>3, <1>4, <1>5, Zenon DEF FutexLock

\* okn_futex_trylock() is a down of the lock, or nothing.
LEMMA FutexTrylockObeys ==
    ASSUME NEW c, Ran(c), FutexTrylock
    PROVE  Obeyed
  <1>1. c \in Workers /\ c = current /\ mem.lock \in Nat /\ mem \in Memories
    BY DEF Ran, Protocol, Library, Typed, Memories
  <1>2. CASE Ldr("futex_trylock", "lock")
    <2>1. /\ Moves(c, <<"futex_trylock", "ldr">>, <<"futex_trylock", "str">>) /\ Quiet /\ current' = c
          /\ mem' = mem /\ reg'[c] = mem.lock
      BY <1>2, LdrStep, Zenon DEF Points
    <2>2. Counted' /\ \A t \in Workers \ {c} : mem.owner = t <=> mem'.owner = t
      BY <2>1, CountedStays DEF Owns, Moves
    <2>3. LockState(c)' = LockState(c)
      BY <2>1, Awake, CallReturns, Addresses DEF LockState, Moves
    <2> QED
      BY <2>1, <2>2, <2>3, LockStays, Zenon DEF OfLock, LockMemory, Points
  <1>3. CASE /\ StrEq("futex_trylock", "lock", 0, 1) /\ reg[current] = 0
             /\ Goto("mutex_lock", "set_owner")
    <2>1. mem' = [mem EXCEPT !.lock = 1] /\ Quiet /\ reg' = reg /\ val' = val
      BY <1>3, QuietStep, Zenon DEF StrEq, Memory, vars
    <2>2. mem' \in Memories
      BY <1>1, <2>1 DEF Memories
    <2>3. Moves(c, <<"futex_trylock", "str">>, <<"mutex_lock", "set_owner">>)
      BY <1>1, <1>3, <2>1, <2>2, Zenon DEF StrEq, At, Goto, Moves, Points, Ran, Library, Typed
    <2>4. mem.lock = 0
      BY <1>1, <1>3, <2>3, Fields DEF Ran, Library, EachThread, InBlock, Moves
    <2>5. Counted' /\ \A t \in Workers \ {c} : mem.owner = t <=> mem'.owner = t
      <3>1. mem'.owner = mem.owner /\ mem'.nested = mem.nested
        BY <1>1, <2>1, Zenon DEF Memories
      <3> QED
        BY <2>3, <3>1, CountedStays DEF Owns, Moves
    <2>6. LockState(c) = "out" /\ LockState(c)' = "in"
      BY <1>1, <2>1, <2>3, Awake, CallReturns, Addresses DEF LockState, Moves
    <2>7. LockPlaces' = [LockPlaces EXCEPT ![c] = LockState(c)'] /\ LockPlaces[c] = LockState(c)
      BY <2>1, <2>3, <2>5, LockPlaceMoves, Zenon DEF Quiet
    <2>8. (1 - mem.lock)' = 1 - mem.lock - 1 /\ kept' = kept
      BY <1>1, <2>1, <2>4 DEF Memories, Quiet
    <2>9. LockObeys
      <3>1. 1 - mem.lock \in Int /\ "in" = IF 1 - mem.lock > 0 THEN "in" ELSE "wait"
        BY <2>4
      <3>2. PermitStep(1 - mem.lock, LockPlaces, kept[lock_tag], 1 - mem.lock - 1,
                       [LockPlaces EXCEPT ![c] = LockState(c)'], kept[lock_tag])
        BY <1>1, <2>6, <2>7, <3>1, DownPermitted, Zenon
      <3> QED
        BY <2>7, <2>8, <3>2, Zenon DEF LockObeys
    <2>10. LockMemory
      BY <1>1, <2>1, Zenon DEF LockMemory, Memories
    <2> QED
      BY <2>1, <2>3, <2>5, <2>9, <2>10, LockPart, CallReturns, Addresses, Zenon DEF OfLock, Points
  <1>4. CASE /\ StrEq("futex_trylock", "lock", 0, 1) /\ reg[current] # 0
             /\ Goto("start", "semaphore")
    <2>1. mem' = mem /\ Quiet /\ reg' = reg /\ val' = val
      BY <1>4, QuietStep, Zenon DEF StrEq, vars
    <2>2. Moves(c, <<"futex_trylock", "str">>, <<"start", "semaphore">>)
      BY <1>1, <1>4, <2>1, Zenon DEF StrEq, At, Goto, Moves, Points, Ran, Library, Typed
    <2>3. Counted' /\ \A t \in Workers \ {c} : mem.owner = t <=> mem'.owner = t
      BY <2>1, <2>2, CountedStays DEF Owns, Moves
    <2>4. LockState(c)' = LockState(c)
      BY <2>1, <2>2, Awake, CallReturns, Addresses DEF LockState, Moves
    <2> QED
      BY <2>1, <2>2, <2>3, <2>4, LockStays, Zenon DEF OfLock, LockMemory, Points
  <1> QED
    BY <1>2, <1>3, <1>4, Zenon DEF FutexTrylock

\* The places in the lock behind a signal.
LEMMA LockSignalled ==
    ASSUME NEW c, Ran(c), NEW p, NEW q, Moves(c, p, q), Signalled(lock_tag), mem' = mem,
           LockState(c) = "signal", LockState(c)' = "out"
    PROVE  LockObeys
  <1>1. c \in Workers /\ DOMAIN LockPlaces = Workers /\ LockPlaces[c] = "signal" /\ (1 - mem.lock)' = 1 - mem.lock
    BY Zenon DEF Ran, LockPlaces
  <1>2. \A t \in Workers : LockPlaces[t] = "asleep" <=> sleep[t] = lock_tag
    BY SleepsOn, Addresses, Zenon DEF LockPlaces, LockState
  <1>3. ASSUME NEW u \in Workers \ {c}, Wakes(u, lock_tag)
        PROVE  LockObeys
    <2>1. \A t \in Workers \ {u} : sleep'[t] = lock_tag <=> sleep[t] = lock_tag
      BY <1>3, Zenon DEF Wakes
    <2>2. \A t \in Workers \ {c, u} : LockState(t)' = LockState(t)
      BY <2>1, OthersInLock, Zenon
    <2>3. LockState(u)' = "in"
      <3>1. pc[u] = <<"mutex_lock", "set_owner">>
        BY <1>3, Addresses, Zenon DEF Ran, Library, EachThread, Asleep, Wakes
      <3>2. pc'[u] = <<"mutex_lock", "set_owner">> /\ ~Sleeps(u, lock_tag)'
        BY <1>3, <3>1, SleepsOn, Addresses, Zenon DEF Moves, Wakes
      <3> QED
        BY <3>2 DEF LockState
    <2>4. LockPlaces' = [LockPlaces EXCEPT ![c] = "out", ![u] = "in"]
      BY <2>2, <2>3, Zenon DEF LockPlaces
    <2>5. LockPlaces[u] = "asleep" /\ kept'[lock_tag] = kept[lock_tag]
      BY <1>2, <1>3, Zenon DEF Wakes
    <2> QED
      BY <1>1, <2>4, <2>5, SignalPermitted, Zenon DEF LockObeys
  <1>4. CASE (\A u \in Workers : sleep[u] # lock_tag /\ sleep'[u] = sleep[u]) /\ kept'[lock_tag] = kept[lock_tag] + 1
    <2>1. \A t \in Workers \ {c} : LockState(t)' = LockState(t)
      BY <1>4, OthersInLock, Zenon
    <2>2. LockPlaces' = [LockPlaces EXCEPT ![c] = "out"]
      BY <2>1, Zenon DEF LockPlaces
    <2> QED
      BY <1>1, <1>2, <1>4, <2>2, SignalPermitted, Zenon DEF LockObeys
  <1> QED
    BY <1>3, <1>4, SignalTouches, Addresses

\* okn_futex_unlock() is an up of the lock.
LEMMA FutexUnlockObeys ==
    ASSUME NEW c, Ran(c), Serves, FutexUnlock
    PROVE  Obeyed
  <1>1. c \in Workers /\ c = current /\ mem.lock \in Nat /\ mem \in Memories
    BY DEF Ran, Protocol, Library, Typed, Memories
  <1>2. CASE Ldr("futex_unlock", "lock")
    <2>1. /\ Moves(c, <<"futex_unlock", "ldr">>, <<"futex_unlock", "str">>) /\ Quiet /\ current' = c
          /\ mem' = mem /\ reg'[c] = mem.lock
      BY <1>2, LdrStep, Zenon DEF Points
    <2>2. Counted' /\ \A t \in Workers \ {c} : mem.owner = t <=> mem'.owner = t
      BY <2>1, CountedStays DEF Owns, Moves
    <2>3. LockState(c)' = LockState(c)
      BY <2>1, Awake, CallReturns, Addresses DEF LockState, Moves
    <2> QED
      BY <2>1, <2>2, <2>3, LockStays, Zenon DEF OfLock, LockMemory, Points
  <1>3. CASE StrAdd("futex_unlock", "lock", -1, "signal")
    <2>1. /\ Moves(c, <<"futex_unlock", "str">>, <<"futex_unlock", "signal">>) /\ Quiet
          /\ mem' = [mem EXCEPT !.lock = mem.lock + -1] /\ reg'[c] = mem.lock + -1
      <3>1. <<"futex_unlock", "signal">> \in Points
        BY Zenon DEF Points
      <3> QED
        BY <1>3, <3>1, StrAddStep, Fields
    <2>2. Counted' /\ \A t \in Workers \ {c} : mem.owner = t <=> mem'.owner = t
      <3>1. mem'.owner = mem.owner /\ mem'.nested = mem.nested
        BY <1>1, <2>1, Zenon DEF Memories
      <3> QED
        BY <2>1, <3>1, CountedStays DEF Owns, Moves
    <2>3. LockState(c) = "in" /\ LockState(c)' = IF 1 - mem.lock >= 0 THEN "out" ELSE "signal"
      BY <1>1, <2>1, Awake, CallReturns, Addresses DEF LockState, Moves
    <2>4. LockPlaces' = [LockPlaces EXCEPT ![c] = LockState(c)'] /\ LockPlaces[c] = LockState(c)
      BY <2>1, <2>2, LockPlaceMoves, Zenon DEF Quiet
    <2>5. (1 - mem.lock)' = 1 - mem.lock + 1 /\ kept' = kept
      BY <1>1, <2>1 DEF Memories, Quiet
    <2>6. LockObeys
      <3>1. 1 - mem.lock \in Int
        BY <1>1
      <3>2. PermitStep(1 - mem.lock, LockPlaces, kept[lock_tag], 1 - mem.lock + 1,
                       [LockPlaces EXCEPT ![c] = LockState(c)'], kept[lock_tag])
        BY <1>1, <2>3, <2>4, <3>1, UpPermitted, Zenon
      <3> QED
        BY <2>4, <2>5, <3>2, Zenon DEF LockObeys
    <2>7. LockMemory
      BY <1>1, <2>1, Zenon DEF LockMemory, Memories
    <2> QED
      BY <2>1, <2>2, <2>6, <2>7, LockPart, CallReturns, Addresses, Zenon DEF OfLock, Points
  <1>4. CASE /\ At("futex_unlock", "signal") /\ Goto("start", "semaphore")
             /\ ~(reg[current] > 0) /\ NoSyscall
    <2>1. /\ Moves(c, <<"futex_unlock", "signal">>, <<"start", "semaphore">>) /\ Quiet
          /\ mem' = mem /\ ~(reg[c] > 0)
      BY <1>1, <1>4, NoSyscallStep, Zenon DEF Points, At
    <2>2. Counted' /\ \A t \in Workers \ {c} : mem.owner = t <=> mem'.owner = t
      BY <2>1, CountedStays DEF Owns, Moves
    <2>3. LockState(c)' = LockState(c)
      BY <2>1, Awake, CallReturns, Addresses DEF LockState, Moves
    <2> QED
      BY <2>1, <2>2, <2>3, LockStays, Zenon DEF OfLock, LockMemory, Points
  <1>5. CASE /\ At("futex_unlock", "signal") /\ Goto("start", "semaphore")
             /\ reg[current] > 0 /\ Syscall(FutexSignal(S, lock_tag))
    <2>1. /\ Moves(c, <<"futex_unlock", "signal">>, <<"start", "semaphore">>) /\ Signalled(lock_tag)
          /\ mem' = mem /\ reg[c] > 0
      BY <1>1, <1>5, SyscallStep, Addresses, Zenon DEF Points, At, Serves
    <2>2. Counted' /\ \A t \in Workers \ {c} : mem.owner = t <=> mem'.owner = t
      BY <2>1, CountedStays DEF Owns, Moves
    <2>3. LockState(c) = "signal" /\ LockState(c)' = "out"
      BY <2>1, Awake, CallReturns, Addresses DEF LockState, Moves
    <2>4. LockObeys
      BY <2>1, <2>3, LockSignalled, Zenon
    <2> QED
      BY <2>1, <2>2, <2>4, LockPart, CallReturns, Addresses, Zenon DEF OfLock, LockMemory, Points
  <1> QED
    BY <1>2, <1>3, <1>4, <1>5, Zenon DEF FutexUnlock

\* The owner of the mutex has the lock.
LEMMA OwnerIsIn ==
    ASSUME NEW t \in Workers, Asleep(t), Owns(t)
    PROVE  LockState(t) = "in"
  <1>1. ~Sleeps(t, lock_tag)
    BY SleepsOn, Addresses DEF Asleep, Owns
  <1> QED
    BY <1>1 DEF LockState, Owns

\* Nobody owns the mutex that a thread takes, and the owner releases it: the assertions
\* of the library hold.
LEMMA AssertionsHold ==
    ASSUME NEW c, Ran(c)
    PROVE  /\ pc[c] = <<"mutex_lock", "set_owner">> => mem.owner = NULL /\ mem.nested = 0
           /\ pc[c] = <<"mutex_unlock", "count">> => mem.owner = c /\ mem.nested >= 1
           /\ pc[c] = <<"mutex_unlock", "owner">> => mem.owner = c /\ mem.nested = 0
  <1>1. c \in Workers /\ Counted /\ mem.owner \in Workers \cup {NULL} /\ EachThread
    BY Zenon DEF Ran, Library, Typed, Memories
  <1>2. CASE pc[c] = <<"mutex_lock", "set_owner">>
    <2>1. LockState(c) = "in" /\ ~Owns(c)
      BY <1>1, <1>2, SleepsOn, Addresses DEF LockState, Owns, Ran
    <2>2. ASSUME NEW t \in Workers, mem.owner = t PROVE FALSE
      <3>1. LockState(t) = "in"
        BY <1>1, <2>2, OwnerIsIn, Zenon DEF Counted, EachThread
      <3>2. t = c
        BY <1>1, <2>1, <3>1, Zenon DEF Ran, Protocol
      <3> QED
        BY <1>1, <2>1, <2>2, <3>2, Zenon DEF Counted
    <2> QED
      BY <1>1, <1>2, <2>2 DEF Counted
  <1>3. CASE pc[c] \in {<<"mutex_unlock", "count">>, <<"mutex_unlock", "owner">>}
    <2>1. Owns(c) /\ mem.owner = c /\ OwnerCount(c)
      BY <1>1, <1>3, Zenon DEF Owns, Counted
    <2> QED
      BY <1>3, <2>1 DEF OwnerCount
  <1> QED
    BY <1>2, <1>3, Zenon

\* A step of the mutex: its owner and its count are o and n behind it.
MutexWrites(c, p, q, o, n) ==
    /\ pc[c] = p /\ pc' = [pc EXCEPT ![c] = q]
    /\ tcb' = tcb /\ pending' = pending /\ reg' = reg /\ val' = val
    /\ mem' \in Memories /\ LockMemory /\ mem'.lock = mem.lock /\ mem'.owner = o /\ mem'.nested = n

\* Nobody else gets or loses the mutex.
OwnerMoves(c, o, n) ==
    /\ o = mem.owner \/ {o, mem.owner} \subseteq {c, NULL}
    /\ o \in {c, NULL} \/ n = mem.nested
    /\ o = NULL => n = 0

\* The thread stays inside or outside the lock.
LEMMA MutexStep ==
    ASSUME NEW c, Ran(c), NEW p, NEW q, NEW o, NEW n, MutexWrites(c, p, q, o, n),
           OwnerMoves(c, o, n), Owns(c)' <=> o = c, OwnerCount(c)',
           OfLock(p), OfLock(q), q[2] # "str", LockState(c)' = LockState(c)
    PROVE  Obeyed
  <1>1. c \in Workers /\ Quiet
    BY QuietStep, Zenon DEF Ran, MutexWrites
  <1>2. Moves(c, p, q)
    BY <1>1, Zenon DEF Ran, Library, Typed, Moves, MutexWrites, OfLock
  <1>3. Counted' /\ \A t \in Workers \ {c} : mem.owner = t <=> mem'.owner = t
    <2>1. /\ Owns(c)' <=> mem'.owner = c
          /\ mem'.owner = NULL => mem'.nested = 0
      BY Zenon DEF MutexWrites, OwnerMoves
    <2>2. \/ mem'.owner = mem.owner /\ (mem.owner = c \/ mem'.nested = mem.nested)
          \/ {mem.owner, mem'.owner} \subseteq {c, NULL}
      BY Zenon DEF MutexWrites, OwnerMoves
    <2> QED
      BY <1>2, <2>1, <2>2, CountedMoves, Zenon
  <1> QED
    BY <1>1, <1>2, <1>3, LockStays, Zenon DEF MutexWrites

UserAwake(c) ==
    /\ ~Sleeps(c, lock_tag) /\ ~Sleeps(c, lock_tag)'
    /\ mem.owner \in Workers \cup {NULL} /\ mem.nested \in Int
    /\ NULL # c /\ (mem.owner = NULL => mem.nested = 0)
    /\ (Owns(c) <=> mem.owner = c) /\ OwnerCount(c)

\* Where the caller is in the mutex behind such a step.
LEMMA MutexPlace ==
    ASSUME NEW c, Ran(c), NEW p, NEW q, NEW o, NEW n, MutexWrites(c, p, q, o, n)
    PROVE  /\ pc[c] = p /\ pc'[c] = q /\ mem'.owner = o /\ mem'.nested = n /\ UserAwake(c)
  <1>1. /\ c \in Workers /\ c \in DOMAIN pc /\ Counted /\ sleep[c] = NULL /\ mem \in Memories
        /\ NULL \notin Workers
    BY SyncAssumption, ImageAssumption, Zenon DEF Ran, Library, Typed
  <1>2. sleep'[c] = NULL /\ pc'[c] = q
    BY <1>1, Zenon DEF MutexWrites, sleep
  <1> QED
    BY <1>1, <1>2, SleepsOn, Addresses DEF Counted, Memories, UserAwake, MutexWrites

\* okl4_mutex_lock() and okl4_mutex_trylock(), but for the lock itself.
LEMMA MutexLockObeys ==
    ASSUME NEW c, Ran(c), MutexLock \/ MutexTrylock
    PROVE  Obeyed /\ failed' = failed
  <1>1. c = current /\ mem \in Memories /\ c \in Workers
    BY Zenon DEF Ran, Library, Typed
  <1>2. tcb' = tcb /\ pending' = pending /\ reg' = reg /\ val' = val
    BY Zenon DEF MutexLock, MutexTrylock, TestOwner, SetOwner, vars, LibAssert
  <1>3. CASE /\ At("mutex_lock", "owner") /\ mem.owner = current
             /\ Memory("nested", mem.nested + 1) /\ Goto("mutex_unlock", "count") /\ UNCHANGED vars
    <2> DEFINE p == <<"mutex_lock", "owner">>  q == <<"mutex_unlock", "count">>
    <2>1. MutexWrites(c, p, q, c, mem.nested + 1) /\ mem.owner = c /\ failed' = failed
      BY <1>1, <1>2, <1>3 DEF At, Memory, Goto, vars, MutexWrites, Memories, LockMemory
    <2>2. pc[c] = p /\ pc'[c] = q /\ mem'.owner = c /\ mem'.nested = mem.nested + 1 /\ UserAwake(c)
      BY <2>1, MutexPlace
    <2>3. OwnerCount(c)' /\ Owns(c)' /\ LockState(c)' = LockState(c)
      BY <2>1, <2>2 DEF OwnerCount, Owns, LockState, UserAwake
    <2>4. OwnerMoves(c, c, mem.nested + 1)
      BY <2>1, <2>2, <2>3, Zenon DEF OwnerMoves, UserAwake
    <2>5. OfLock(p) /\ OfLock(q) /\ q[2] # "str"
      BY Zenon DEF Points, OfLock
    <2> QED
      BY <2>1, <2>2, <2>3, <2>4, <2>5, MutexStep, Zenon
  <1>4. ASSUME NEW f \in {"futex_trylock", "futex_lock"}, At("mutex_lock", "owner"),
               mem.owner # current, UNCHANGED mem, Goto(f, "ldr"), UNCHANGED vars
        PROVE  Obeyed /\ failed' = failed
    <2> DEFINE p == <<"mutex_lock", "owner">>
    <2>1. MutexWrites(c, p, <<f, "ldr">>, mem.owner, mem.nested) /\ mem.owner # c /\ failed' = failed
      BY <1>1, <1>2, <1>4, Zenon DEF At, Goto, vars, MutexWrites, LockMemory
    <2>2. pc[c] = p /\ pc'[c] = <<f, "ldr">> /\ mem'.owner = mem.owner /\ mem'.nested = mem.nested /\ UserAwake(c)
      BY <2>1, MutexPlace, Zenon
    <2>3. OwnerCount(c)' /\ ~Owns(c)' /\ LockState(c)' = LockState(c)
      BY <2>1, <2>2 DEF OwnerCount, Owns, LockState, UserAwake
    <2>4. OwnerMoves(c, mem.owner, mem.nested)
      BY <2>1, <2>2, <2>3, Zenon DEF OwnerMoves, UserAwake
    <2>5. OfLock(p) /\ OfLock(<<f, "ldr">>) /\ <<f, "ldr">>[2] # "str"
      BY Zenon DEF Points, OfLock
    <2> QED
      BY <2>1, <2>2, <2>3, <2>4, <2>5, MutexStep, Zenon
  <1>5. CASE /\ At("mutex_lock", "set_owner") /\ Goto("mutex_lock", "set_count")
             /\ LibAssert(mem.owner = NULL /\ mem.nested = 0, "mutex_lock: owned")
             /\ Memory("owner", current)
    <2> DEFINE p == <<"mutex_lock", "set_owner">>  q == <<"mutex_lock", "set_count">>
    <2>1. mem.owner = NULL /\ mem.nested = 0
      BY <1>1, <1>5, AssertionsHold, Zenon DEF At
    <2>2. MutexWrites(c, p, q, c, 0) /\ failed' = failed
      BY <1>1, <1>2, <1>5, <2>1, Zenon DEF At, Memory, Goto, MutexWrites, Memories, LockMemory, LibAssert
    <2>3. pc[c] = p /\ pc'[c] = q /\ mem'.owner = c /\ mem'.nested = 0 /\ UserAwake(c)
      BY <2>2, MutexPlace, Zenon
    <2>4. OwnerCount(c)' /\ Owns(c)' /\ LockState(c)' = LockState(c)
      BY <2>1, <2>2, <2>3 DEF OwnerCount, Owns, LockState, UserAwake
    <2>5. OwnerMoves(c, c, 0)
      BY <2>1, <2>2, <2>3, <2>4, Zenon DEF OwnerMoves, UserAwake
    <2>6. OfLock(p) /\ OfLock(q) /\ q[2] # "str"
      BY Zenon DEF Points, OfLock
    <2> QED
      BY <2>1, <2>2, <2>3, <2>4, <2>5, <2>6, MutexStep, Zenon
  <1>6. CASE /\ At("mutex_lock", "set_count") /\ Goto("start", "section")
             /\ Memory("nested", 1) /\ UNCHANGED vars
    <2> DEFINE p == <<"mutex_lock", "set_count">>  q == <<"start", "section">>
    <2>1. MutexWrites(c, p, q, mem.owner, 1) /\ failed' = failed
      BY <1>1, <1>2, <1>6 DEF At, Memory, Goto, vars, MutexWrites, Memories, LockMemory
    <2>2. pc[c] = p /\ pc'[c] = q /\ mem'.owner = mem.owner /\ mem'.nested = 1 /\ UserAwake(c)
      BY <2>1, MutexPlace, Zenon
    <2>3. OwnerCount(c)' /\ Owns(c)' /\ LockState(c)' = LockState(c) /\ mem.owner = c
      BY <2>1, <2>2 DEF OwnerCount, Owns, LockState, UserAwake
    <2>4. OwnerMoves(c, mem.owner, 1)
      BY <2>1, <2>2, <2>3, Zenon DEF OwnerMoves, UserAwake
    <2>5. OfLock(p) /\ OfLock(q) /\ q[2] # "str"
      BY Zenon DEF Points, OfLock
    <2> QED
      BY <2>1, <2>2, <2>3, <2>4, <2>5, MutexStep, Zenon
  <1> QED
    BY <1>3, <1>4, <1>5, <1>6, Zenon DEF MutexLock, MutexTrylock, TestOwner, SetOwner

\* okl4_mutex_unlock(), but for the lock itself.
LEMMA MutexUnlockObeys ==
    ASSUME NEW c, Ran(c), MutexUnlock
    PROVE  Obeyed /\ failed' = failed
  <1>1. c = current /\ mem \in Memories /\ c \in Workers
    BY Zenon DEF Ran, Library, Typed
  <1>2. tcb' = tcb /\ pending' = pending /\ reg' = reg /\ val' = val
    BY Zenon DEF MutexUnlock, vars, LibAssert
  <1>3. CASE /\ At("mutex_unlock", "count") /\ LibAssert(mem.owner = current, "mutex_unlock: not owned")
             /\ Memory("nested", mem.nested - 1)
             /\ Goto("mutex_unlock", IF mem.nested = 1 THEN "owner" ELSE "count")
    <2> DEFINE p == <<"mutex_unlock", "count">>
    <2>1. mem.owner = c /\ mem.nested >= 1
      BY <1>1, <1>3, AssertionsHold, Zenon DEF At
    <2>2. failed' = failed
      BY <1>1, <1>3, <2>1, Zenon DEF LibAssert
    <2>3. PICK point \in {"owner", "count"} :
            /\ MutexWrites(c, p, <<"mutex_unlock", point>>, c, mem.nested - 1)
            /\ point = "owner" <=> mem.nested = 1
      <3>1. mem' = [mem EXCEPT !.nested = mem.nested - 1] /\ mem.nested \in Int
        BY <1>1, <1>3, Zenon DEF Memory, Memories
      <3>2. /\ mem' \in Memories /\ LockMemory /\ mem'.lock = mem.lock
            /\ mem'.owner = c /\ mem'.nested = mem.nested - 1
        BY <1>1, <2>1, <3>1 DEF Memories, LockMemory
      <3> QED
        BY <1>1, <1>2, <1>3, <3>2, Zenon DEF At, Goto, MutexWrites
    <2>4. /\ pc[c] = p /\ pc'[c] = <<"mutex_unlock", point>> /\ mem'.owner = c
          /\ mem'.nested = mem.nested - 1 /\ UserAwake(c)
      BY <2>3, MutexPlace
    <2>5. OwnerCount(c)' /\ Owns(c)' /\ LockState(c)' = LockState(c)
      <3>1. LockState(c)' = LockState(c)
        BY <2>4 DEF LockState, UserAwake
      <3>2. Owns(c)'
        BY <2>3, <2>4, Zenon DEF Owns
      <3>3. OwnerCount(c)'
        BY <2>1, <2>3, <2>4 DEF OwnerCount, UserAwake
      <3> QED
        BY <3>1, <3>2, <3>3, Zenon
    <2>6. OwnerMoves(c, c, mem.nested - 1)
      BY <2>1, <2>3, <2>4, <2>5, Zenon DEF OwnerMoves, UserAwake
    <2>7. OfLock(p) /\ OfLock(<<"mutex_unlock", point>>) /\ <<"mutex_unlock", point>>[2] # "str"
      BY Zenon DEF Points, OfLock
    <2> QED
      BY <2>2, <2>3, <2>5, <2>6, <2>7, MutexStep, Zenon
  <1>4. CASE /\ At("mutex_unlock", "owner") /\ Goto("futex_unlock", "ldr")
             /\ Memory("owner", NULL) /\ UNCHANGED vars
    <2> DEFINE p == <<"mutex_unlock", "owner">>  q == <<"futex_unlock", "ldr">>
    <2>1. mem.owner = c /\ mem.nested = 0
      BY <1>1, <1>4, AssertionsHold, Zenon DEF At
    <2>2. MutexWrites(c, p, q, NULL, 0) /\ failed' = failed
      BY <1>1, <1>2, <1>4, <2>1, Zenon DEF At, Memory, Goto, vars, MutexWrites, Memories, LockMemory
    <2>3. pc[c] = p /\ pc'[c] = q /\ mem'.owner = NULL /\ mem'.nested = 0 /\ UserAwake(c)
      BY <2>2, MutexPlace, Zenon
    <2>4. OwnerCount(c)' /\ ~Owns(c)' /\ LockState(c)' = LockState(c)
      BY <2>1, <2>2, <2>3 DEF OwnerCount, Owns, LockState, UserAwake
    <2>5. OwnerMoves(c, NULL, 0) /\ NULL # c
      BY <2>1, <2>2, <2>3, <2>4, Zenon DEF OwnerMoves, UserAwake
    <2>6. OfLock(p) /\ OfLock(q) /\ q[2] # "str"
      BY Zenon DEF Points, OfLock
    <2> QED
      BY <2>1, <2>2, <2>3, <2>4, <2>5, <2>6, MutexStep, Zenon
  <1> QED
    BY <1>3, <1>4, Zenon DEF MutexUnlock

-----------------------------------------------------------------------------
(* The semaphore                                                           *)

OfSem(p) ==
    /\ p \in Points
    /\ p[1] \in {"down", "try_down", "up"} \/ p \in {<<"start", "semaphore">>, <<"barrier", "version">>}

\* The fields of the other objects.
SemMemory ==
    /\ mem'.lock = mem.lock /\ mem'.owner = mem.owner /\ mem'.nested = mem.nested
    /\ mem'.count = mem.count /\ mem'.version = mem.version /\ mem'.waiters = mem.waiters

\* A step of the semaphore is outside the other objects.
LEMMA SemPart ==
    ASSUME NEW c, Ran(c), NEW p, NEW q, Moves(c, p, q), OfSem(p), OfSem(q),
           Quiet \/ Waited(sem_tag) \/ Signalled(sem_tag),
           sleep'[c] = NULL \/ q = <<"up", "ldr">>,
           q[2] = "str" => current' = c /\ reg'[c] = mem'.sem,
           q \in {<<"try_down", "ldr">>, <<"try_down", "str">>} => val'[c] > 0,
           SemMemory, SemObeys
    PROVE  Obeyed
  <1>1. /\ kept' \in [UsedTags -> Nat] /\ Woken(c) /\ sleep'[c] \in {NULL, sem_tag}
        /\ Untouched(lock_tag) /\ Untouched(barrier_tag[0]) /\ Untouched(barrier_tag[1])
    BY CallTouches, Addresses, Zenon
  <1>2. Asleep(c)'
    BY <1>1, Zenon DEF Asleep, Moves
  <1>3. /\ OutsideLock(p) /\ OutsideLock(q) /\ OutsideBarrier(p) /\ OutsideBarrier(q)
        /\ q \notin {<<"barrier", "ldr">>, <<"barrier", "str">>}
    BY DEF OfSem, OutsideLock, OutsideBarrier
  <1>4. q[2] = "str" => current' = c /\ reg'[c] = mem'[Field(q[1])]
    <2>1. q[2] = "str" => Field(q[1]) = "sem"
      BY DEF OfSem, Field, Points
    <2> QED
      BY <2>1, Zenon
  <1>5. Typed' /\ EachThread'
    BY <1>1, <1>2, <1>4, ThreadsMove, Zenon
  <1>6. LockObeys /\ Counted'
    BY <1>1, <1>3, LockAside, Zenon DEF SemMemory
  <1>7. BarrierObeys /\ Meets'
    BY <1>1, <1>3, <1>5, BarrierAside, Zenon DEF SemMemory
  <1> QED
    BY <1>5, <1>6, <1>7, Zenon DEF Obeyed, Library

\* The places in the semaphore, when the caller alone has moved.
LEMMA SemPlaceMoves ==
    ASSUME NEW c, Ran(c), NEW p, NEW q, Moves(c, p, q),
           \A t \in Workers \ {c} : sleep'[t] = sem_tag <=> sleep[t] = sem_tag
    PROVE  SemPlaces' = [SemPlaces EXCEPT ![c] = SemState(c)'] /\ SemPlaces[c] = SemState(c)
  <1>1. \A t \in Workers \ {c} : SemState(t)' = SemState(t)
    BY OthersInSem, Zenon
  <1> QED
    BY <1>1, Zenon DEF SemPlaces, Ran

\* A step in the semaphore that leaves the word alone.
LEMMA SemStays ==
    ASSUME NEW c, Ran(c), NEW p, NEW q, Moves(c, p, q), OfSem(p), OfSem(q), Quiet, mem' = mem,
           q[2] = "str" => current' = c /\ reg'[c] = mem'.sem,
           q \in {<<"try_down", "ldr">>, <<"try_down", "str">>} => val'[c] > 0,
           SemState(c)' = SemState(c)
    PROVE  Obeyed
  <1>1. SemPlaces' = SemPlaces
    BY SemPlaceMoves, Zenon DEF Quiet, SemPlaces
  <1>2. SemObeys
    BY <1>1, Zenon DEF SemObeys, PermitStep, Quiet
  <1> QED
    BY <1>2, SemPart, CallReturns, Addresses, Zenon DEF SemMemory

\* The places in the semaphore behind a signal.
LEMMA SemSignalled ==
    ASSUME NEW c, Ran(c), NEW p, NEW q, Moves(c, p, q), Signalled(sem_tag), mem' = mem,
           SemState(c) = "signal", SemState(c)' = "out"
    PROVE  SemObeys
  <1>1. c \in Workers /\ DOMAIN SemPlaces = Workers /\ SemPlaces[c] = "signal"
    BY Zenon DEF Ran, SemPlaces
  <1>2. \A t \in Workers : SemPlaces[t] = "asleep" <=> sleep[t] = sem_tag
    BY SleepsOn, Addresses, Zenon DEF SemPlaces, SemState
  <1>3. ASSUME NEW u \in Workers \ {c}, Wakes(u, sem_tag)
        PROVE  SemObeys
    <2>1. \A t \in Workers \ {u} : sleep'[t] = sem_tag <=> sleep[t] = sem_tag
      BY <1>3, Zenon DEF Wakes
    <2>2. \A t \in Workers \ {c, u} : SemState(t)' = SemState(t)
      BY <2>1, OthersInSem, Zenon
    <2>3. SemState(u)' = "in"
      <3>1. pc[u] = <<"up", "ldr">>
        BY <1>3, Addresses, Zenon DEF Ran, Library, EachThread, Asleep, Wakes
      <3>2. pc'[u] = <<"up", "ldr">> /\ ~Sleeps(u, sem_tag)'
        BY <1>3, <3>1, SleepsOn, Addresses, Zenon DEF Moves, Wakes
      <3> QED
        BY <3>2 DEF SemState
    <2>4. SemPlaces' = [SemPlaces EXCEPT ![c] = "out", ![u] = "in"]
      BY <2>2, <2>3, Zenon DEF SemPlaces
    <2>5. SemPlaces[u] = "asleep" /\ kept'[sem_tag] = kept[sem_tag]
      BY <1>2, <1>3, Zenon DEF Wakes
    <2> QED
      BY <1>1, <2>4, <2>5, SignalPermitted, Zenon DEF SemObeys
  <1>4. CASE (\A u \in Workers : sleep[u] # sem_tag /\ sleep'[u] = sleep[u]) /\ kept'[sem_tag] = kept[sem_tag] + 1
    <2>1. \A t \in Workers \ {c} : SemState(t)' = SemState(t)
      BY <1>4, OthersInSem, Zenon
    <2>2. SemPlaces' = [SemPlaces EXCEPT ![c] = "out"]
      BY <2>1, Zenon DEF SemPlaces
    <2> QED
      BY <1>1, <1>2, <1>4, <2>2, SignalPermitted, Zenon DEF SemObeys
  <1> QED
    BY <1>3, <1>4, SignalTouches, Addresses

\* okn_semaphore_down() is a down.
LEMMA SemaphoreDownObeys ==
    ASSUME NEW c, Ran(c), Serves, SemaphoreDown
    PROVE  Obeyed
  <1>1. c \in Workers /\ c = current /\ mem.sem \in Int /\ mem \in Memories /\ kept[sem_tag] \in Nat
    BY Addresses, Zenon DEF Ran, Library, Typed, Memories
  <1>2. CASE Ldr("down", "sem")
    <2>1. /\ Moves(c, <<"down", "ldr">>, <<"down", "str">>) /\ Quiet /\ current' = c
          /\ mem' = mem /\ reg'[c] = mem.sem
      BY <1>2, LdrStep, Zenon DEF Points
    <2>2. SemState(c)' = SemState(c)
      BY <2>1, Awake, CallReturns, Addresses DEF SemState, Moves
    <2> QED
      BY <2>1, <2>2, SemStays, Zenon DEF OfSem, Points
  <1>3. CASE StrAdd("down", "sem", -1, "wait")
    <2>1. /\ Moves(c, <<"down", "str">>, <<"down", "wait">>) /\ Quiet
          /\ mem' = [mem EXCEPT !.sem = mem.sem + -1] /\ reg'[c] = mem.sem + -1
      <3>1. <<"down", "wait">> \in Points
        BY Zenon DEF Points
      <3> QED
        BY <1>3, <3>1, StrAddStep, Fields
    <2>2. SemState(c) = "out" /\ SemState(c)' = IF mem.sem > 0 THEN "in" ELSE "wait"
      BY <1>1, <2>1, Awake, CallReturns, Addresses DEF SemState, Moves
    <2>3. SemPlaces' = [SemPlaces EXCEPT ![c] = SemState(c)'] /\ SemPlaces[c] = SemState(c)
      BY <2>1, SemPlaceMoves, Zenon DEF Quiet
    <2>4. mem'.sem = mem.sem - 1 /\ kept' = kept
      BY <1>1, <2>1, Zenon DEF Memories, Quiet
    <2>5. SemObeys
      <3>1. PermitStep(mem.sem, SemPlaces, kept[sem_tag], mem.sem - 1,
                       [SemPlaces EXCEPT ![c] = SemState(c)'], kept[sem_tag])
        BY <1>1, <2>2, <2>3, DownPermitted, Zenon
      <3> QED
        BY <2>3, <2>4, <3>1, Zenon DEF SemObeys
    <2>6. SemMemory
      BY <1>1, <2>1, Zenon DEF SemMemory, Memories
    <2> QED
      BY <2>1, <2>5, <2>6, SemPart, CallReturns, Addresses, Zenon DEF OfSem, Points
  <1>4. CASE At("down", "wait") /\ Goto("up", "ldr") /\ reg[current] >= 0 /\ NoSyscall
    <2>1. Moves(c, <<"down", "wait">>, <<"up", "ldr">>) /\ Quiet /\ mem' = mem /\ reg[c] >= 0
      BY <1>1, <1>4, NoSyscallStep, Zenon DEF Points, At
    <2>2. SemState(c)' = SemState(c)
      BY <2>1, Awake, CallReturns, Addresses DEF SemState, Moves
    <2> QED
      BY <2>1, <2>2, SemStays, Zenon DEF OfSem, Points
  <1>5. CASE At("down", "wait") /\ Goto("up", "ldr") /\ ~(reg[current] >= 0) /\ Syscall(FutexWait(S, sem_tag))
    <2>1. /\ Moves(c, <<"down", "wait">>, <<"up", "ldr">>) /\ Waited(sem_tag)
          /\ mem' = mem /\ ~(reg[c] >= 0)
      BY <1>1, <1>5, SyscallStep, Addresses, Zenon DEF Points, At, Serves
    <2>2. ~Sleeps(c, sem_tag) /\ (Sleeps(c, sem_tag)' <=> sleep'[c] = sem_tag)
      BY <1>1, SleepsOn, Addresses, Zenon DEF Ran
    <2>3. SemState(c) = "wait" /\ SemState(c)' = IF sleep'[c] = sem_tag THEN "asleep" ELSE "in"
      BY <2>1, <2>2 DEF SemState, Moves
    <2>4. /\ \A t \in Workers \ {c} : sleep'[t] = sem_tag <=> sleep[t] = sem_tag
          /\ kept[sem_tag] > 0 => kept'[sem_tag] = kept[sem_tag] - 1 /\ SemState(c)' = "in"
          /\ kept[sem_tag] = 0 => kept'[sem_tag] = kept[sem_tag] /\ SemState(c)' = "asleep"
      <3>1. sem_tag \in UsedTags /\ sem_tag # NULL
        BY Addresses, Zenon
      <3>2. /\ \A t \in Workers \ {c} : sleep'[t] = sleep[t]
            /\ kept[sem_tag] > 0 => sleep'[c] = NULL /\ kept'[sem_tag] = kept[sem_tag] - 1
            /\ kept[sem_tag] = 0 => sleep'[c] = sem_tag /\ kept'[sem_tag] = kept[sem_tag]
        BY <2>1, <3>1, WaitTouches, Zenon
      <3> QED
        BY <2>3, <3>1, <3>2, Zenon
    <2>5. SemPlaces' = [SemPlaces EXCEPT ![c] = SemState(c)'] /\ SemPlaces[c] = SemState(c)
      BY <2>1, <2>4, SemPlaceMoves, Zenon
    <2>6. SemObeys
      <3>1. PermitStep(mem.sem, SemPlaces, kept[sem_tag], mem.sem,
                       [SemPlaces EXCEPT ![c] = SemState(c)'], kept'[sem_tag])
        BY <1>1, <2>3, <2>4, <2>5, WaitPermitted, Zenon
      <3> QED
        BY <2>1, <2>5, <3>1, Zenon DEF SemObeys
    <2> QED
      BY <2>1, <2>6, SemPart, Zenon DEF OfSem, Points, SemMemory
  <1> QED
    BY <1>2, <1>3, <1>4, <1>5, Zenon DEF SemaphoreDown

\* okn_semaphore_try_down() is a down while there is a permit, or nothing.
LEMMA SemaphoreTryDownObeys ==
    ASSUME NEW c, Ran(c), SemaphoreTryDown
    PROVE  Obeyed
  <1>1. c \in Workers /\ c = current /\ mem.sem \in Int /\ mem \in Memories /\ val \in [Workers -> Int]
    BY Zenon DEF Ran, Library, Typed, Memories
  <1>2. CASE /\ At("try_down", "read") /\ val' = Local(val, mem.sem)
             /\ IF mem.sem <= 0 THEN Goto("barrier", "version") ELSE Goto("try_down", "ldr")
             /\ UNCHANGED <<vars, reg, mem>>
    <2>1. Quiet /\ mem' = mem
      BY <1>2, QuietStep, Zenon DEF vars
    <2>2. PICK q \in {<<"barrier", "version">>, <<"try_down", "ldr">>} :
            /\ Moves(c, <<"try_down", "read">>, q) /\ val'[c] = mem.sem
            /\ q = <<"try_down", "ldr">> => ~(mem.sem <= 0)
      BY <1>1, <1>2, Zenon DEF At, Goto, Local, Moves, Points, Ran, Library, Typed
    <2>3. SemState(c)' = SemState(c)
      BY <2>1, <2>2, Awake, CallReturns, Addresses DEF SemState, Moves
    <2>4. q \in {<<"try_down", "ldr">>, <<"try_down", "str">>} => val'[c] > 0
      BY <1>1, <2>2
    <2>5. OfSem(<<"try_down", "read">>) /\ OfSem(q) /\ q[2] # "str"
      BY <2>2 DEF OfSem, Points
    <2> QED
      BY <2>1, <2>2, <2>3, <2>4, <2>5, SemStays, Zenon
  <1>3. CASE Ldr("try_down", "sem")
    <2>1. /\ Moves(c, <<"try_down", "ldr">>, <<"try_down", "str">>) /\ Quiet /\ current' = c
          /\ mem' = mem /\ reg'[c] = mem.sem /\ val' = val
      BY <1>3, LdrStep, Zenon DEF Points
    <2>2. SemState(c)' = SemState(c)
      BY <2>1, Awake, CallReturns, Addresses DEF SemState, Moves
    <2>3. val'[c] > 0
      BY <1>1, <2>1, Zenon DEF Ran, Library, EachThread, HasRead, Moves
    <2> QED
      BY <2>1, <2>2, <2>3, SemStays, Zenon DEF OfSem, Points
  <1>4. CASE /\ StrEq("try_down", "sem", val[current], val[current] - 1) /\ reg[current] = val[current]
             /\ Goto("up", "ldr")
    <2>1. mem' = [mem EXCEPT !.sem = val[c] - 1] /\ Quiet /\ reg' = reg /\ val' = val
      BY <1>1, <1>4, QuietStep, Zenon DEF StrEq, Memory, vars
    <2>2. mem' \in Memories
      BY <1>1, <2>1 DEF Memories
    <2>3. Moves(c, <<"try_down", "str">>, <<"up", "ldr">>)
      BY <1>1, <1>4, <2>1, <2>2, Zenon DEF StrEq, At, Goto, Moves, Points, Ran, Library, Typed
    <2>4. val[c] = mem.sem /\ mem.sem > 0
      BY <1>1, <1>4, <2>3, Fields DEF Ran, Library, EachThread, InBlock, HasRead, Moves
    <2>5. SemState(c) = "out" /\ SemState(c)' = "in"
      BY <1>1, <2>1, <2>3, Awake, CallReturns, Addresses DEF SemState, Moves
    <2>6. SemPlaces' = [SemPlaces EXCEPT ![c] = SemState(c)'] /\ SemPlaces[c] = SemState(c)
      BY <2>1, <2>3, SemPlaceMoves, Zenon DEF Quiet
    <2>7. mem'.sem = mem.sem - 1 /\ kept' = kept
      BY <1>1, <2>1, <2>4, Zenon DEF Memories, Quiet
    <2>8. SemObeys
      <3>1. "in" = IF mem.sem > 0 THEN "in" ELSE "wait"
        BY <2>4, Zenon
      <3>2. PermitStep(mem.sem, SemPlaces, kept[sem_tag], mem.sem - 1,
                       [SemPlaces EXCEPT ![c] = SemState(c)'], kept[sem_tag])
        BY <1>1, <2>5, <2>6, <3>1, DownPermitted, Zenon
      <3> QED
        BY <2>6, <2>7, <3>2, Zenon DEF SemObeys
    <2>9. SemMemory
      BY <1>1, <2>1, Zenon DEF SemMemory, Memories
    <2> QED
      BY <2>1, <2>3, <2>8, <2>9, SemPart, CallReturns, Addresses, Zenon DEF OfSem, Points
  <1>5. CASE /\ StrEq("try_down", "sem", val[current], val[current] - 1) /\ reg[current] # val[current]
             /\ Goto("try_down", "read")
    <2>1. mem' = mem /\ Quiet /\ reg' = reg /\ val' = val
      BY <1>5, QuietStep, Zenon DEF StrEq, vars
    <2>2. Moves(c, <<"try_down", "str">>, <<"try_down", "read">>)
      BY <1>1, <1>5, <2>1, Zenon DEF StrEq, At, Goto, Moves, Points, Ran, Library, Typed
    <2>3. SemState(c)' = SemState(c)
      BY <2>1, <2>2, Awake, CallReturns, Addresses DEF SemState, Moves
    <2> QED
      BY <2>1, <2>2, <2>3, SemStays, Zenon DEF OfSem, Points
  <1> QED
    BY <1>2, <1>3, <1>4, <1>5, Zenon DEF SemaphoreTryDown

\* okn_semaphore_up() is an up.
LEMMA SemaphoreUpObeys ==
    ASSUME NEW c, Ran(c), Serves, SemaphoreUp
    PROVE  Obeyed
  <1>1. c \in Workers /\ c = current /\ mem.sem \in Int /\ mem \in Memories
    BY Zenon DEF Ran, Library, Typed, Memories
  <1>2. CASE Ldr("up", "sem")
    <2>1. /\ Moves(c, <<"up", "ldr">>, <<"up", "str">>) /\ Quiet /\ current' = c
          /\ mem' = mem /\ reg'[c] = mem.sem
      BY <1>2, LdrStep, Zenon DEF Points
    <2>2. SemState(c)' = SemState(c)
      BY <2>1, Awake, CallReturns, Addresses DEF SemState, Moves
    <2> QED
      BY <2>1, <2>2, SemStays, Zenon DEF OfSem, Points
  <1>3. CASE StrAdd("up", "sem", 1, "signal")
    <2>1. /\ Moves(c, <<"up", "str">>, <<"up", "signal">>) /\ Quiet
          /\ mem' = [mem EXCEPT !.sem = mem.sem + 1] /\ reg'[c] = mem.sem + 1
      <3>1. <<"up", "signal">> \in Points
        BY Zenon DEF Points
      <3> QED
        BY <1>3, <3>1, StrAddStep, Fields
    <2>2. SemState(c) = "in" /\ SemState(c)' = IF mem.sem >= 0 THEN "out" ELSE "signal"
      BY <1>1, <2>1, Awake, CallReturns, Addresses DEF SemState, Moves
    <2>3. SemPlaces' = [SemPlaces EXCEPT ![c] = SemState(c)'] /\ SemPlaces[c] = SemState(c)
      BY <2>1, SemPlaceMoves, Zenon DEF Quiet
    <2>4. mem'.sem = mem.sem + 1 /\ kept' = kept
      BY <1>1, <2>1, Zenon DEF Memories, Quiet
    <2>5. SemObeys
      <3>1. PermitStep(mem.sem, SemPlaces, kept[sem_tag], mem.sem + 1,
                       [SemPlaces EXCEPT ![c] = SemState(c)'], kept[sem_tag])
        BY <1>1, <2>2, <2>3, UpPermitted, Zenon
      <3> QED
        BY <2>3, <2>4, <3>1, Zenon DEF SemObeys
    <2>6. SemMemory
      BY <1>1, <2>1, Zenon DEF SemMemory, Memories
    <2> QED
      BY <2>1, <2>5, <2>6, SemPart, CallReturns, Addresses, Zenon DEF OfSem, Points
  <1>4. CASE At("up", "signal") /\ Goto("barrier", "version") /\ reg[current] > 0 /\ NoSyscall
    <2>1. Moves(c, <<"up", "signal">>, <<"barrier", "version">>) /\ Quiet /\ mem' = mem /\ reg[c] > 0
      BY <1>1, <1>4, NoSyscallStep, Zenon DEF Points, At
    <2>2. SemState(c)' = SemState(c)
      BY <2>1, Awake, CallReturns, Addresses DEF SemState, Moves
    <2> QED
      BY <2>1, <2>2, SemStays, Zenon DEF OfSem, Points
  <1>5. CASE At("up", "signal") /\ Goto("barrier", "version") /\ ~(reg[current] > 0) /\ Syscall(FutexSignal(S, sem_tag))
    <2>1. /\ Moves(c, <<"up", "signal">>, <<"barrier", "version">>) /\ Signalled(sem_tag)
          /\ mem' = mem /\ ~(reg[c] > 0)
      BY <1>1, <1>5, SyscallStep, Addresses, Zenon DEF Points, At, Serves
    <2>2. SemState(c) = "signal" /\ SemState(c)' = "out"
      BY <2>1, Awake, CallReturns, Addresses DEF SemState, Moves
    <2>3. SemObeys
      BY <2>1, <2>2, SemSignalled, Zenon
    <2> QED
      BY <2>1, <2>3, SemPart, CallReturns, Addresses, Zenon DEF OfSem, Points, SemMemory
  <1> QED
    BY <1>2, <1>3, <1>4, <1>5, Zenon DEF SemaphoreUp

\* What a worker does between the calls.
LEMMA WorkerChoiceObeys ==
    ASSUME NEW c, Ran(c), WorkerChoice
    PROVE  Obeyed
  <1>1. c \in Workers /\ c = current /\ (Owns(c) <=> mem.owner = c)
    BY Zenon DEF Ran, Library, Counted
  <1>2. PICK at, f, point \in {"mutex", "section", "semaphore", "mutex_lock", "mutex_unlock",
                                "down", "try_down", "owner", "count", "ldr", "read"} :
          /\ Choose(at, f, point)
          /\ \/ at \in {"mutex", "section"} /\ <<f, point>> = <<"mutex_lock", "owner">>
             \/ at = "section" /\ <<f, point>> = <<"mutex_unlock", "count">>
             \/ at = "semaphore" /\ <<f, point>> \in {<<"down", "ldr">>, <<"try_down", "read">>}
    BY Zenon DEF WorkerChoice
  <1>3. <<f, point>> \in Points /\ point # "str"
    BY <1>2, Zenon DEF Points
  <1>4. /\ Moves(c, <<"start", at>>, <<f, point>>) /\ Quiet
        /\ mem' = mem /\ sleep'[c] = NULL
    BY <1>1, <1>2, <1>3, NoSyscallStep, CallReturns, Addresses, Zenon DEF Choose, At
  <1>5. CASE at = "semaphore"
    <2>1. SemState(c)' = SemState(c)
      BY <1>2, <1>4, <1>5, Awake, Addresses DEF SemState, Moves
    <2> QED
      BY <1>2, <1>4, <1>5, <2>1, SemStays, Zenon DEF OfSem, Points
  <1>6. CASE at \in {"mutex", "section"}
    <2>1. (Owns(c)' <=> Owns(c)) /\ LockState(c)' = LockState(c)
      BY <1>1, <1>2, <1>4, <1>6, Awake, Addresses DEF LockState, Moves, Owns
    <2>2. Counted' /\ \A t \in Workers \ {c} : mem.owner = t <=> mem'.owner = t
      BY <1>2, <1>4, <1>6, <2>1, CountedStays
    <2> QED
      BY <1>2, <1>3, <1>4, <1>6, <2>1, <2>2, LockStays, Zenon DEF OfLock, LockMemory, Points
  <1> QED
    BY <1>2, <1>5, <1>6, Zenon
=============================================================================
