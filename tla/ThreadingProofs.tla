--------------------------- MODULE ThreadingProofs ---------------------------
(***************************************************************************)
(* The safety properties of Threading, for any number of threads, mutexes  *)
(* and events, and the inductive invariant behind them.  None of the       *)
(* properties is inductive on its own: that a mutex is held once depends   *)
(* on what its value counts, the value on who is queued, and the queue on  *)
(* where each thread stands in semaphore_signal.                           *)
(***************************************************************************)
EXTENDS Threading, KernelProofs

Busy == {"store", "first", "delete", "old", "wake", "queue", "park", "parking"}

(* A thread inside semaphore_signal, or inside the thread_set_state that   *)
(* ends a thread_wakeup or the last thread_block, is the one executing: it *)
(* is not switched away from there, and what it has loaded is still true   *)
(* when it uses it.                                                        *)
SignalAt(t) ==
    /\ pc[t] \in Busy => k.current = t /\ ~k.pendsv
    /\ pc[t] \in {"store", "first", "delete"} => sem[t] \in holds[t]
    /\ pc[t] = "store" => reg[t] = k.value[sem[t]]
    /\ pc[t] = "delete" =>
          k.waiters[sem[t]] # <<>> /\ waitee[t] = Head(k.waiters[sem[t]])
    /\ pc[t] \in {"old", "wake"} =>
          /\ waitee[t] \in Threads /\ k.state[waitee[t]] # "running"
          /\ k.state[waitee[t]] = "blocked" => pc[waitee[t]] = "blocked"
          /\ \A s \in Semaphores : waitee[t] \notin Range(k.waiters[s])
    /\ pc[t] = "wake" => old_state[t] = k.state[waitee[t]]
    /\ pc[t] = "queue" =>
          /\ waitee[t] \in Threads \ {t}
          /\ k.state[waitee[t]] = "running" /\ old_state[t] # "running"
    /\ pc[t] \in {"park", "parking"} => old_state[t] = "running"
    /\ pc[t] = "parking" => k.state[t] = "blocked"

SignalInv == \A t \in Threads : SignalAt(t)

(* A thread is queued on the semaphore it waits for, once, and BLOCKED.    *)
QueuedOnce == \A s \in Semaphores : IsInjective(k.waiters[s])

QueuedBlocked ==
    \A s \in Semaphores : \A t \in Range(k.waiters[s]) :
        k.state[t] = "blocked" /\ pc[t] = "blocked" /\ sem[t] = s

BlockedQueued ==
    \A t \in Threads : k.state[t] = "blocked" =>
        \/ pc[t] \in {"parking", "parked"}
        \/ /\ pc[t] = "blocked"
           /\ \/ t \in Range(k.waiters[sem[t]])
              \/ \E u \in Threads : waitee[u] = t /\ pc[u] \in {"old", "wake"}

WaitsEmptyHanded ==
    \A t \in Threads :
        pc[t] = "blocked" /\ sem[t] \in Mutexes => holds[t] = {}

WaitInv == QueuedOnce /\ QueuedBlocked /\ BlockedQueued /\ WaitsEmptyHanded

(* A mutex belongs to the thread that holds it, or to the one it has been  *)
(* handed to and that has yet to return from semaphore_wait.               *)
Owns(t, m) ==
    \/ m \in holds[t]
    \/ pc[t] = "blocked" /\ sem[t] = m /\ t \notin Range(k.waiters[m])

EventCount(e) ==
    Len(k.waiters[e]) = IF k.value[e] < 0 THEN -k.value[e] ELSE 0

MutexCount(m) ==
    /\ \A t, u \in Threads : Owns(t, m) /\ Owns(u, m) => t = u
    /\ (\E t \in Threads : Owns(t, m)) =>
          k.value[m] = InSignal(m) - Len(k.waiters[m])
    /\ (\A t \in Threads : ~Owns(t, m)) =>
          k.value[m] = 1 /\ k.waiters[m] = <<>>

CountInv ==
    (\A e \in Events : EventCount(e)) /\ (\A m \in Mutexes : MutexCount(m))

(* The inductive invariant.                                                *)
IInv ==
    /\ TypeOK /\ RunQueueExact /\ RunsReadyThread
    /\ SignalInv /\ WaitInv /\ CountInv

-----------------------------------------------------------------------------

(* The bounds on threads and events that keep the values within int8_t.    *)
LEMMA CardinalityBound ==
    /\ Cardinality(Threads) \in Nat /\ Cardinality(Threads) < 127
    /\ MaxEvents \in Int /\ 1 <= MaxEvents /\ MaxEvents <= 127
BY ThreadingAssumption

(* What an interrupt that signals needs of the value it increments.        *)
LEMMA EventValue ==
    ASSUME NEW v \in -Cardinality(Threads)..MaxEvents, v < MaxEvents
    PROVE  v \in -128..126
BY CardinalityBound

(* What a wait that passes needs of the value it finds and decrements.     *)
LEMMA PassingValue ==
    ASSUME NEW v, v >= 1
    PROVE  /\ v \in -127..127 => v \in Int /\ v > 0
           /\ v \in -Cardinality(Threads)..MaxEvents => v - 1 \in -Cardinality(Threads)..MaxEvents
<1>1. v \in -127..127 => v \in Int /\ v > 0
  OBVIOUS
<1>2. v \in -Cardinality(Threads)..MaxEvents => v - 1 \in -Cardinality(Threads)..MaxEvents
  BY CardinalityBound
<1> QED BY <1>1, <1>2

(* No more threads wait on a semaphore than there are.  Pigeonhole proves  *)
(* it, below, where the library's theorems on finite sets are at hand.     *)
FewThreads ==
    \A q \in Seq(Threads) : IsInjective(q) => Len(q) <= Cardinality(Threads)

(* TypeOK's part about the kernel, from the kernel's own type.             *)
LEMMA TypeOfKernel ==
    ASSUME NEW K
    PROVE  K \in [state   : [Threads \cup {Idle} -> ThreadState],
                  queue   : Seq(Threads),
                  current : Threads \cup {Idle},
                  pendsv  : BOOLEAN,
                  value   : [Semaphores -> -Cardinality(Threads)..MaxEvents],
                  waiters : [Semaphores -> Seq(Threads)]]
           <=> /\ KernelType(K)
               /\ \A s \in Semaphores : K.value[s] \in -Cardinality(Threads)..MaxEvents
BY DEF KernelType

(* What the kernel's lemmas need of the invariant.                         *)
LEMMA KernelOK ==
    IInv => /\ KernelType(k) /\ IsInjective(k.queue)
            /\ \A s \in Semaphores : k.value[s] \in -Cardinality(Threads)..MaxEvents
<1>1. IInv => KernelType(k) /\ \A s \in Semaphores : k.value[s] \in -Cardinality(Threads)..MaxEvents
  BY Zenon, TypeOfKernel DEF IInv, TypeOK
<1>2. IInv => IsInjective(k.queue)
  BY Zenon DEF IInv, RunQueueExact
<1> QED BY <1>1, <1>2

(* The run queue is exact when schedule runs, ...                          *)
LEMMA ExactForSchedule == ASSUME IInv, k.pendsv PROVE QueueExact(k)
BY Zenon DEF IInv, RunQueueExact, QueueExact, Running

(* ... and as long as nobody is between thread_set_state's write and the   *)
(* scheduler's lock: before a step, ...                                    *)
Whole == \A u \in Threads : pc[u] \notin {"queue", "parking"}

LEMMA ExactWhole == ASSUME IInv, Whole PROVE QueueExact(k)
<1>1. \A u \in Threads \cup {Idle} : (Entered(u) \/ Leaving(u)) <=> k.state[u] = "running"
  BY Zenon DEF Whole, Entered, Leaving
<1> QED BY <1>1 DEF IInv, RunQueueExact, QueueExact, Running

(* ... and after it.                                                       *)
LEMMA WholeExact == ASSUME Whole', QueueExact(k') PROVE RunQueueExact'
<1>1. \A u \in Threads \cup {Idle} : (Entered(u)' \/ Leaving(u)') <=> k'.state[u] = "running"
  BY Zenon DEF Whole, Entered, Leaving
<1> QED BY <1>1 DEF RunQueueExact, QueueExact, Running

(* Only the thread that executes can be there.                             *)
LEMMA WholeNow ==
    ASSUME IInv, NEW t \in Threads, k.current = t, pc[t] \notin {"queue", "parking"}
    PROVE  Whole
BY Zenon DEF Whole, IInv, SignalInv, SignalAt, Busy

(* A thread that executes, other than in the middle of its last            *)
(* thread_block, is RUNNING.                                               *)
LEMMA ExecutesRunning ==
    ASSUME IInv, NEW t \in Threads, k.current = t, ~k.pendsv, pc[t] # "parking"
    PROVE  k.state[t] = "running"
BY Zenon, IdleAssumption DEF IInv, RunsReadyThread, Leaving

(* A step of the executing thread that leaves the run queue alone.         *)
LEMMA QueueKept ==
    ASSUME IInv, NEW t \in Threads, k.current = t, ~k.pendsv,
           pc[t] \notin {"queue", "parking"}, pc'[t] \notin {"queue", "parking"},
           \A u \in Threads \ {t} : pc'[u] = pc[u],
           k'.state = k.state, k'.queue = k.queue, k'.current = k.current
    PROVE  RunQueueExact' /\ RunsReadyThread'
<1>1. Whole /\ k.state[t] = "running"
  BY Zenon, WholeNow, ExecutesRunning
<1>2. QueueExact(k)
  BY Zenon, <1>1, ExactWhole
<1>3. QueueExact(k') /\ Whole'
  BY <1>1, <1>2 DEF QueueExact, Running, Whole
<1>4. RunsReadyThread'
  BY <1>1, IdleAssumption DEF RunsReadyThread
<1> QED BY Zenon, <1>3, <1>4, WholeExact

(* The types of the kernel's parts and of the threads' locals.             *)
LEMMA KernelParts ==
    IInv => /\ k.state \in [Threads \cup {Idle} -> ThreadState]
            /\ k.value \in [Semaphores -> Int]
            /\ k.waiters \in [Semaphores -> Seq(Threads)]
            /\ k.current \in Threads \cup {Idle}
            /\ QueuedOnce
<1>1. IInv => KernelType(k) /\ QueuedOnce
  BY KernelOK DEF IInv, WaitInv
<1> QED BY <1>1 DEF KernelType

LEMMA LocalParts ==
    IInv => /\ pc \in [Threads -> Labels] /\ sem \in [Threads -> Semaphores]
            /\ holds \in [Threads -> SUBSET Mutexes]
BY DEF IInv, TypeOK

(* Four lemmas for the parts of the invariant a step leaves alone.  The    *)
(* types, ...                                                              *)
LEMMA TypeKept ==
    ASSUME IInv, KernelType(k'),
           \A s \in Semaphores : k'.value[s] \in -Cardinality(Threads)..MaxEvents,
           pc' \in [Threads -> Labels], sem' \in [Threads -> Semaphores],
           holds' \in [Threads -> SUBSET Mutexes],
           UNCHANGED <<reg, waitee, old_state>>
    PROVE  TypeOK'
<1>1. /\ reg \in [Threads -> -Cardinality(Threads)..MaxEvents]
      /\ waitee \in [Threads -> Threads \cup {Idle}] /\ old_state \in [Threads -> ThreadState]
  BY DEF IInv, TypeOK
<1>2. k' \in [state   : [Threads \cup {Idle} -> ThreadState],
              queue   : Seq(Threads),
              current : Threads \cup {Idle},
              pendsv  : BOOLEAN,
              value   : [Semaphores -> -Cardinality(Threads)..MaxEvents],
              waiters : [Semaphores -> Seq(Threads)]]
  BY TypeOfKernel
<1> QED BY <1>1, <1>2 DEF TypeOK

(* ... the counts, when nobody's part in a mutex changes, ...              *)
LEMMA CountKept ==
    ASSUME IInv, k'.value = k.value, k'.waiters = k.waiters,
           \A m \in Mutexes, u \in Threads : Owns(u, m)' <=> Owns(u, m),
           \A m \in Mutexes : InSignal(m)' = InSignal(m)
    PROVE  CountInv'
<1>1. \A e \in Events : EventCount(e)'
  BY DEF IInv, CountInv, EventCount
<1>2. \A m \in Mutexes : MutexCount(m)'
  <2> SUFFICES ASSUME NEW m \in Mutexes PROVE MutexCount(m)'
    OBVIOUS
  <2>1. MutexCount(m)
    BY DEF IInv, CountInv
  <2> QED BY <2>1 DEF MutexCount
<1> QED BY <1>1, <1>2 DEF CountInv

(* ... the waits, when a RUNNING thread goes on, ...                       *)
LEMMA WaitKept ==
    ASSUME IInv, NEW t \in Threads, k.state[t] = "running", pc'[t] # "blocked",
           k'.state = k.state, k'.waiters = k.waiters,
           \A u \in Threads \ {t} : pc'[u] = pc[u] /\ sem'[u] = sem[u] /\ holds'[u] = holds[u],
           \A u \in Threads : pc[u] \notin {"old", "wake"}
    PROVE  WaitInv'
<1>0. QueuedOnce /\ QueuedBlocked /\ BlockedQueued /\ WaitsEmptyHanded
  BY DEF IInv, WaitInv
<1>1. QueuedOnce'
  BY <1>0 DEF QueuedOnce
<1>2. QueuedBlocked'
  <2>1. \A s \in Semaphores : Range(k.waiters[s]) \subseteq Threads
    BY KernelParts DEF Range
  <2>2. \A s \in Semaphores : \A u \in Range(k.waiters[s]) : u \in Threads \ {t}
    BY <1>0, <2>1 DEF QueuedBlocked
  <2> QED BY <1>0, <2>2 DEF QueuedBlocked
<1>3. BlockedQueued'
  BY <1>0 DEF BlockedQueued
<1>4. WaitsEmptyHanded'
  BY <1>0 DEF WaitsEmptyHanded
<1> QED BY <1>1, <1>2, <1>3, <1>4 DEF WaitInv

(* ... and semaphore_signal's, when nobody is inside it.                   *)
LEMMA SignalKept ==
    ASSUME \A u \in Threads : pc'[u] \notin Busy
    PROVE  SignalInv'
BY DEF SignalInv, SignalAt, Busy

(* The state firmware_main hands over satisfies the invariant.             *)
LEMMA InitStep == Init => IInv
<1> SUFFICES ASSUME Init PROVE IInv
  OBVIOUS
<1> USE CardinalityBound, ThreadingAssumption, IdleAssumption
<1>1. TypeOK
  <2> QED BY DEF Init, TypeOK, ThreadState, Labels
<1>2. RunQueueExact /\ RunsReadyThread
  BY DEF Init, RunQueueExact, RunsReadyThread, IsInjective, Range, Entered, Leaving
<1>3. SignalInv /\ WaitInv
  BY DEF Init, SignalInv, SignalAt, WaitInv, QueuedOnce, QueuedBlocked, BlockedQueued,
         WaitsEmptyHanded, Busy, IsInjective, Range
<1>4. CountInv
  BY DEF Init, CountInv, EventCount, MutexCount, Owns
<1> QED BY <1>1, <1>2, <1>3, <1>4 DEF IInv

(* arch_handle_pendsv and schedule preserve the invariant.                 *)
LEMMA PendSVStep == IInv /\ PendSV => IInv'
<1> SUFFICES ASSUME IInv, PendSV PROVE IInv'
  OBVIOUS
<1>0. Scheduled(k, k')
  BY KernelOK, ExactForSchedule, ScheduleEffect DEF PendSV
<1>1. /\ KernelType(k') /\ QueueExact(k')
      /\ k'.state = k.state /\ k'.value = k.value /\ k'.waiters = k.waiters
      /\ ~k'.pendsv
      /\ k'.current = Idle => k'.queue = <<>>
      /\ k'.current # Idle => k'.state[k'.current] = "running"
  BY <1>0 DEF Scheduled
<1>2. UNCHANGED <<pc, sem, reg, waitee, old_state, holds>>
  BY DEF PendSV, locals
<1>3. TypeOK'
  BY <1>1, <1>2, KernelOK, LocalParts, TypeKept
<1>4. RunQueueExact' /\ RunsReadyThread'
  <2>1. Whole'
    BY <1>2 DEF IInv, SignalInv, SignalAt, PendSV, Busy, Whole
  <2> QED BY Zenon, <1>1, <2>1, WholeExact DEF RunsReadyThread
<1>5. SignalInv'
  BY SignalKept DEF IInv, SignalInv, SignalAt, PendSV
<1>6. WaitInv'
  <2>1. QueuedOnce' /\ QueuedBlocked' /\ WaitsEmptyHanded'
    BY <1>1, <1>2 DEF IInv, WaitInv, QueuedOnce, QueuedBlocked, WaitsEmptyHanded
  <2>2. BlockedQueued'
    BY <1>1, <1>2 DEF IInv, WaitInv, BlockedQueued
  <2> QED BY <2>1, <2>2 DEF WaitInv
<1>7. CountInv'
  <2>1. \A m \in Mutexes, u \in Threads : Owns(u, m)' <=> Owns(u, m)
    BY <1>1, <1>2 DEF Owns
  <2>2. \A m \in Mutexes : InSignal(m)' = InSignal(m)
    BY <1>2 DEF InSignal
  <2> QED BY <1>1, <2>1, <2>2, CountKept
<1> QED BY <1>3, <1>4, <1>5, <1>6, <1>7 DEF IInv

(* Whoever is in a semaphore's queue is a thread.                          *)
LEMMA WaitersAreThreads ==
    IInv => \A s \in Semaphores : Range(k.waiters[s]) \subseteq Threads
BY KernelParts DEF Range

(* A thread that executes outside semaphore_signal: nobody is inside it.   *)
LEMMA NobodySignals ==
    ASSUME IInv, NEW t \in Threads, k.current = t, pc[t] \notin Busy
    PROVE  /\ \A u \in Threads : pc[u] \notin Busy
           /\ \A s \in Semaphores : InSignal(s) = 0
BY DEF IInv, SignalInv, SignalAt, InSignal, Busy

(* Returning from semaphore_wait preserves the invariant: the mutex was    *)
(* handed over already.                                                    *)
LEMMA WaitReturnsStep ==
    ASSUME IInv, NEW t \in Threads, WaitReturns(t) PROVE IInv'
<1> USE DEF WaitReturns, At, Goto, locals
<1>1. k.state[t] = "running"
  BY ExecutesRunning
<1>2. \A s \in Semaphores : t \notin Range(k.waiters[s])
  BY <1>1 DEF IInv, WaitInv, QueuedBlocked
<1>4. TypeOK'
  BY DEF IInv, TypeOK, Labels
<1>5. RunQueueExact' /\ RunsReadyThread'
  <2>1. pc'[t] = "run" /\ \A u \in Threads \ {t} : pc'[u] = pc[u]
    BY LocalParts
  <2> QED BY <2>1, QueueKept
<1>6. \A u \in Threads : pc[u] \notin Busy /\ pc'[u] \notin Busy
  BY NobodySignals DEF Busy
<1>7. SignalInv'
  BY <1>6, SignalKept
<1>8. WaitInv'
  <2>1. /\ pc'[t] # "blocked" /\ \A u \in Threads : pc[u] \notin {"old", "wake"}
        /\ \A u \in Threads \ {t} : pc'[u] = pc[u] /\ holds'[u] = holds[u]
    BY <1>6, LocalParts DEF Busy
  <2> QED BY <1>1, <2>1, WaitKept
<1>9. CountInv'
  <2>1. \A m \in Mutexes, u \in Threads : Owns(u, m)' <=> Owns(u, m)
    BY <1>2 DEF Owns, IInv, TypeOK
  <2>2. \A m \in Mutexes : InSignal(m)' = InSignal(m)
    BY DEF InSignal
  <2> QED BY <2>1, <2>2, CountKept
<1> QED BY <1>4, <1>5, <1>7, <1>8, <1>9 DEF IInv

(* Loading the value in semaphore_signal preserves the invariant.          *)
LEMMA SignalLoadStep ==
    ASSUME IInv, NEW t \in Threads, NEW s \in Mutexes, SignalLoad(t, s) PROVE IInv'
<1> USE DEF SignalLoad, At, Goto
<1> USE ThreadingAssumption
<1>1. k.state[t] = "running"
  BY ExecutesRunning
<1>2. TypeOK'
  BY DEF IInv, TypeOK, Labels
<1>3. RunQueueExact' /\ RunsReadyThread'
  <2>1. pc'[t] = "store" /\ \A u \in Threads \ {t} : pc'[u] = pc[u]
    BY LocalParts
  <2> QED BY <2>1, QueueKept
<1>4. \A u \in Threads : pc[u] \notin Busy
  BY NobodySignals DEF Busy
<1>5. SignalInv'
  BY DEF IInv, SignalInv, SignalAt, TypeOK, Busy
<1>6. WaitInv'
  <2>3. \A u \in Threads : pc[u] \notin {"old", "wake"}
    BY <1>4 DEF Busy
  <2> QED BY <1>1, <2>3, WaitKept
<1>7. CountInv'
  <2>1. \A m \in Mutexes, u \in Threads : Owns(u, m)' <=> Owns(u, m)
    BY DEF Owns
  <2>2. \A m \in Mutexes : InSignal(m)' = InSignal(m)
    BY DEF InSignal
  <2> QED BY <2>1, <2>2, CountKept
<1> QED BY <1>2, <1>3, <1>5, <1>6, <1>7 DEF IInv

(* thread_wakeup's read of the waitee's state preserves the invariant.     *)
LEMMA WakeupReadStep ==
    ASSUME IInv, NEW t \in Threads, WakeupRead(t) PROVE IInv'
<1> USE DEF WakeupRead, At, Goto
<1>1. TypeOK'
  BY DEF IInv, TypeOK, Labels
<1>2. RunQueueExact' /\ RunsReadyThread'
  <2>1. pc'[t] = "wake" /\ \A u \in Threads \ {t} : pc'[u] = pc[u]
    BY LocalParts
  <2> QED BY <2>1, QueueKept
<1>3. SignalInv'
  BY DEF IInv, SignalInv, SignalAt, TypeOK, Busy
<1>4. WaitInv'
  <2>1. QueuedOnce' /\ QueuedBlocked' /\ WaitsEmptyHanded'
    BY DEF IInv, WaitInv, QueuedOnce, QueuedBlocked, WaitsEmptyHanded
  <2>2. BlockedQueued'
    BY DEF IInv, WaitInv, BlockedQueued
  <2> QED BY <2>1, <2>2 DEF WaitInv
<1>5. CountInv'
  <2>1. \A m \in Mutexes, u \in Threads : Owns(u, m)' <=> Owns(u, m)
    BY DEF Owns
  <2>2. \A m \in Mutexes : InSignal(m)' = InSignal(m)
    BY DEF InSignal
  <2> QED BY <2>1, <2>2, CountKept
<1> QED BY <1>1, <1>2, <1>3, <1>4, <1>5 DEF IInv

(* What is known of a mutex while its owner is unlocking it.               *)
LEMMA Unlocking ==
    ASSUME IInv, NEW t \in Threads, pc[t] \in {"store", "first", "delete"},
           NEW m, m = sem[t]
    PROVE  /\ m \in Mutexes /\ m \in Semaphores /\ m \in holds[t]
           /\ \A u \in Threads : Owns(u, m) <=> u = t
           /\ \A u \in Threads \ {t} : pc[u] \notin Busy
           /\ k.value[m] = InSignal(m) - Len(k.waiters[m])
           /\ InSignal(m) = IF pc[t] = "store" THEN 0 ELSE 1
           /\ k.state[t] = "running"
           /\ \A s \in Semaphores : t \notin Range(k.waiters[s])
<1>1. m \in holds[t] /\ k.current = t /\ ~k.pendsv
  BY DEF IInv, SignalInv, SignalAt, Busy
<1>2. m \in Mutexes /\ m \in Semaphores
  BY <1>1 DEF IInv, TypeOK
<1>3. \A u \in Threads \ {t} : pc[u] \notin Busy
  BY <1>1 DEF IInv, SignalInv, SignalAt
<1>4. Owns(t, m)
  BY <1>1 DEF Owns
<1>5. InSignal(m) = IF pc[t] = "store" THEN 0 ELSE 1
  BY <1>3 DEF InSignal, Busy
<1>6. k.state[t] = "running"
  BY <1>1, ExecutesRunning
<1>7. \A s \in Semaphores : t \notin Range(k.waiters[s])
  BY DEF IInv, WaitInv, QueuedBlocked
<1>8. /\ \A u \in Threads : Owns(u, m) <=> u = t
      /\ k.value[m] = InSignal(m) - Len(k.waiters[m])
  <2>1. MutexCount(m)
    BY <1>2 DEF IInv, CountInv
  <2> QED BY <1>4, <2>1 DEF MutexCount
<1> QED BY <1>1, <1>2, <1>3, <1>5, <1>6, <1>7, <1>8

(* Looking up the first waitee in semaphore_signal preserves the           *)
(* invariant.                                                              *)
LEMMA SignalFirstStep ==
    ASSUME IInv, NEW t \in Threads, SignalFirst(t) PROVE IInv'
<1> DEFINE m == sem[t]
           q == k.waiters[m]
<1>1. /\ k.current = t /\ ~k.pendsv /\ pc[t] = "first"
      /\ UNCHANGED <<k, sem, reg, old_state>>
      /\ \/ /\ q = <<>>
            /\ holds' = [holds EXCEPT ![t] = @ \ {m}]
            /\ pc' = [pc EXCEPT ![t] = "run"]
            /\ waitee' = waitee
         \/ /\ q # <<>>
            /\ waitee' = [waitee EXCEPT ![t] = Head(q)]
            /\ pc' = [pc EXCEPT ![t] = "delete"]
            /\ holds' = holds
  BY DEF SignalFirst, At, Goto
<1>2. /\ m \in Mutexes /\ m \in Semaphores /\ m \in holds[t]
      /\ \A u \in Threads : Owns(u, m) <=> u = t
      /\ \A u \in Threads \ {t} : pc[u] \notin Busy
      /\ k.value[m] = 1 - Len(q)
      /\ k.state[t] = "running"
      /\ \A s \in Semaphores : t \notin Range(k.waiters[s])
  BY <1>1, Unlocking
<1>3. q \in Seq(Threads) /\ (q # <<>> => Head(q) \in Threads)
  <2>1. q \in Seq(Threads) /\ IsInjective(q)
    BY <1>2, KernelParts DEF QueuedOnce
  <2> QED BY <2>1
<1>4. TypeOK'
  <2>1. holds \in [Threads -> SUBSET Mutexes] /\ waitee \in [Threads -> Threads \cup {Idle}]
    BY DEF IInv, TypeOK
  <2>2. holds' \in [Threads -> SUBSET Mutexes] /\ waitee' \in [Threads -> Threads \cup {Idle}]
    BY <1>1, <1>3, <2>1
  <2>3. pc' \in [Threads -> Labels]
    BY <1>1, LocalParts DEF Labels
  <2>4. UNCHANGED <<k, sem, reg, old_state>>
    BY <1>1
  <2> QED BY Zenon, <2>2, <2>3, <2>4 DEF IInv, TypeOK
<1>6. \A u \in Threads \ {t} : pc'[u] = pc[u] /\ holds'[u] = holds[u]
  BY <1>1 DEF IInv, TypeOK
<1>7. \/ q = <<>> /\ pc'[t] = "run" /\ holds'[t] = holds[t] \ {m}
      \/ q # <<>> /\ pc'[t] = "delete" /\ holds'[t] = holds[t] /\ waitee'[t] = Head(q)
  BY <1>1 DEF IInv, TypeOK
<1>5. RunQueueExact' /\ RunsReadyThread'
  <2>1. pc'[t] \notin {"queue", "parking"} /\ k' = k
    BY <1>1, <1>7
  <2> QED BY <1>1, <1>6, <2>1, QueueKept
<1>8. SignalInv'
  BY <1>1, <1>2, <1>6, <1>7 DEF SignalInv, SignalAt, Busy
<1>9. WaitInv'
  <2>1. \A u \in Threads : pc[u] \notin {"old", "wake"}
    BY <1>1, <1>2 DEF Busy
  <2>2. pc'[t] # "blocked"
    BY <1>7
  <2>3. k' = k /\ sem' = sem
    BY <1>1
  <2> QED BY <1>2, <1>6, <2>1, <2>2, <2>3, WaitKept
<1>10. CountInv'
  <2>1. \A p \in Mutexes \ {m}, u \in Threads : Owns(u, p)' <=> Owns(u, p)
    BY <1>1, <1>6, <1>7 DEF Owns
  <2>2. \A p \in Mutexes \ {m} : InSignal(p)' = InSignal(p)
    BY <1>1, <1>6 DEF InSignal
  <2>3. \A e \in Events : EventCount(e)'
    BY <1>1 DEF IInv, CountInv, EventCount
  <2>4. \A p \in Mutexes \ {m} : MutexCount(p)'
    BY <1>1, <2>1, <2>2 DEF IInv, CountInv, MutexCount
  <2>5. CASE q = <<>>
    <3>1. \A u \in Threads : ~Owns(u, m)'
      BY <1>1, <1>2, <1>6, <1>7, <2>5 DEF Owns
    <3>2. k.value[m] = 1
      BY <1>2, <2>5
    <3>3. MutexCount(m)'
      BY <1>1, <2>5, <3>1, <3>2 DEF MutexCount
    <3> QED BY <1>1, <2>3, <2>4, <3>3 DEF CountInv
  <2>6. CASE q # <<>>
    <3>1. \A u \in Threads : Owns(u, m)' <=> Owns(u, m)
      BY <1>1, <1>6, <1>7, <2>6 DEF Owns
    <3>2. InSignal(m)' = 1
      BY <1>7, <2>6 DEF InSignal
    <3>3. MutexCount(m)'
      BY <1>1, <1>2, <3>1, <3>2 DEF MutexCount
    <3> QED BY <1>1, <2>3, <2>4, <3>3 DEF CountInv
  <2> QED BY <2>5, <2>6
<1> QED BY <1>4, <1>5, <1>8, <1>9, <1>10 DEF IInv

(* Storing the incremented value in semaphore_signal preserves the         *)
(* invariant.                                                              *)
LEMMA SignalStoreStep ==
    ASSUME IInv, NEW t \in Threads, SignalStore(t) PROVE IInv'
<1>0. PICK m : m = sem[t]
  OBVIOUS
<1>1. /\ k.current = t /\ ~k.pendsv /\ pc[t] = "store"
      /\ UNCHANGED <<sem, reg, waitee, old_state, holds>>
      /\ pc' = [pc EXCEPT ![t] = "first"]
      /\ k' = signal_store(k, m, reg[t])
  BY <1>0 DEF SignalStore, At, Goto, locals
<1>2. /\ m \in Mutexes /\ m \in Semaphores
      /\ \A u \in Threads : Owns(u, m) <=> u = t
      /\ \A u \in Threads \ {t} : pc[u] \notin Busy
      /\ k.value[m] = 0 - Len(k.waiters[m])
      /\ k.state[t] = "running"
      /\ \A s \in Semaphores : t \notin Range(k.waiters[s])
  BY <1>0, <1>1, Unlocking
<1>3. k.waiters[m] \in Seq(Threads) /\ k.value[m] \in -Cardinality(Threads)..MaxEvents
  BY Zenon, <1>2, KernelOK DEF KernelType
<1>4. reg[t] = k.value[m] /\ k.value[m] \in -128..126
  <2>1. k.value[m] = 0 - Len(k.waiters[m]) /\ Len(k.waiters[m]) \in Nat
    BY <1>2
  <2>2. reg[t] = k.value[m]
    BY <1>0, <1>1 DEF IInv, SignalInv, SignalAt
  <2>3. k.value[m] <= 0 /\ -127 < k.value[m] /\ k.value[m] \in Int
    BY <1>3, <2>1, CardinalityBound
  <2> QED BY <2>2, <2>3
<1>5. /\ k'.value = [k.value EXCEPT ![m] = k.value[m] + 1]
      /\ k'.state = k.state /\ k'.queue = k.queue /\ k'.current = k.current
      /\ k'.waiters = k.waiters /\ k'.pendsv = k.pendsv
      /\ KernelType(k')
  <2>1. k' = signal_store(k, m, k.value[m])
    BY <1>1, <1>4
  <2>2. KernelType(k) /\ m \in Semaphores
    BY Zenon, <1>2, KernelOK
  <2>3. Counted(k, m, k.value[m], k')
    BY <1>4, <2>1, <2>2, StoreEffect
  <2> QED BY <2>3 DEF Counted
<1>6. \A s \in Semaphores : k'.value[s] \in -Cardinality(Threads)..MaxEvents
  BY <1>2, <1>5, KernelOK, CardinalityBound
<1>7. TypeOK'
  <2>1. pc' \in [Threads -> Labels]
    BY <1>1, LocalParts DEF Labels
  <2> QED BY Zenon, <1>1, <2>1, <1>5, <1>6, LocalParts, TypeKept
<1>9. pc'[t] = "first" /\ \A u \in Threads \ {t} : pc'[u] = pc[u]
  BY Zenon, <1>1 DEF IInv, TypeOK
<1>8. RunQueueExact' /\ RunsReadyThread'
  BY <1>1, <1>5, <1>9, QueueKept
<1>10. SignalInv'
  BY <1>1, <1>5, <1>9 DEF IInv, SignalInv, SignalAt, Busy
<1>11. WaitInv'
  <2>1. \A u \in Threads : pc[u] \notin {"old", "wake"}
    BY <1>1, <1>2 DEF Busy
  <2>2. sem' = sem /\ holds' = holds /\ pc'[t] # "blocked"
    BY <1>1
  <2> QED BY <1>2, <1>5, <1>9, <2>1, <2>2, WaitKept
<1>12. CountInv'
  <2>1. \A p \in Mutexes, u \in Threads : Owns(u, p)' <=> Owns(u, p)
    BY <1>1, <1>5 DEF Owns
  <2>2. \A p \in Mutexes \ {m} : InSignal(p)' = InSignal(p)
    BY <1>0, <1>1 DEF InSignal
  <2>3. InSignal(m)' = 1
    BY <1>0, <1>1, <1>9 DEF InSignal
  <2>4. k'.value[m] = 1 - Len(k'.waiters[m])
        /\ \A s \in Semaphores \ {m} : k'.value[s] = k.value[s]
    BY <1>2, <1>5 DEF KernelType
  <2>5. \A e \in Events : EventCount(e)'
    BY <1>2, <1>5, ThreadingAssumption DEF IInv, CountInv, EventCount
  <2>6. \A p \in Mutexes \ {m} : MutexCount(p)'
    BY <1>5, <2>1, <2>2 DEF IInv, CountInv, MutexCount
  <2>7. MutexCount(m)'
    BY <1>2, <2>1, <2>3, <2>4 DEF MutexCount
  <2> QED BY Zenon, <2>5, <2>6, <2>7 DEF CountInv
<1> QED BY <1>7, <1>8, <1>10, <1>11, <1>12 DEF IInv

(* Taking the waitee out in semaphore_signal, which hands it the mutex,    *)
(* preserves the invariant.                                                *)
LEMMA SignalDeleteStep ==
    ASSUME IInv, NEW t \in Threads, SignalDelete(t) PROVE IInv'
<1>0. PICK m, h, q : m = sem[t] /\ h = waitee[t] /\ q = k.waiters[m]
  OBVIOUS
<1>1. /\ k.current = t /\ ~k.pendsv /\ pc[t] = "delete"
      /\ UNCHANGED <<sem, reg, waitee, old_state>>
      /\ pc' = [pc EXCEPT ![t] = "old"]
      /\ holds' = [holds EXCEPT ![t] = @ \ {m}]
      /\ k' = signal_dequeue(k, m)
  BY <1>0 DEF SignalDelete, At, Goto, locals
<1>2. /\ m \in Mutexes /\ m \in Semaphores
      /\ \A u \in Threads : Owns(u, m) <=> u = t
      /\ \A u \in Threads \ {t} : pc[u] \notin Busy
      /\ k.value[m] = 1 - Len(q)
      /\ k.state[t] = "running"
      /\ \A s \in Semaphores : t \notin Range(k.waiters[s])
  BY <1>0, <1>1, Unlocking
<1>3. q # <<>> /\ h = Head(q)
  BY <1>0, <1>1 DEF IInv, SignalInv, SignalAt
<1>4. /\ Tail(q) \in Seq(Threads) /\ IsInjective(Tail(q)) /\ h \in Threads /\ h \in Range(q)
      /\ Range(Tail(q)) = Range(q) \ {h} /\ Len(Tail(q)) = Len(q) - 1
      /\ Len(q) \in Nat
  <2>1. q \in Seq(Threads) /\ IsInjective(q)
    BY <1>0, <1>2, KernelParts DEF QueuedOnce
  <2> QED BY <2>1, <1>3, TailProperties
<1>5. k.state[h] = "blocked" /\ pc[h] = "blocked" /\ sem[h] = m /\ h # t /\ holds[h] = {}
  BY <1>0, <1>2, <1>4 DEF IInv, WaitInv, QueuedBlocked, WaitsEmptyHanded
<1>6. /\ k'.waiters = [k.waiters EXCEPT ![m] = Tail(q)]
      /\ k'.state = k.state /\ k'.queue = k.queue /\ k'.current = k.current
      /\ k'.value = k.value /\ k'.pendsv = k.pendsv
      /\ KernelType(k')
  <2>1. KernelType(k) /\ m \in Semaphores /\ k.waiters[m] = q
    BY <1>0, <1>2, KernelOK
  <2>2. IsInjective(k.waiters[m]) /\ k.waiters[m] # <<>>
    BY <1>3, <2>1, KernelParts DEF QueuedOnce
  <2>3. k' = signal_dequeue(k, m)
    BY <1>1
  <2>4. Dequeued(k, m, k')
    BY <2>1, <2>2, <2>3, DequeueEffect
  <2> QED BY <2>1, <2>4 DEF Dequeued
<1>7. k'.waiters[m] = Tail(q) /\ \A s \in Semaphores \ {m} : k'.waiters[s] = k.waiters[s]
  BY <1>2, <1>6, KernelParts
<1>8. /\ pc'[t] = "old" /\ holds'[t] = holds[t] \ {m}
      /\ \A u \in Threads \ {t} : pc'[u] = pc[u] /\ holds'[u] = holds[u]
  BY <1>1, LocalParts
<1>9. TypeOK'
  <2>1. pc' \in [Threads -> Labels]
    BY <1>1, LocalParts DEF Labels
  <2> QED BY <1>1, <2>1, <1>6, KernelOK, LocalParts, TypeKept
<1>10. RunQueueExact' /\ RunsReadyThread'
  BY <1>1, <1>6, <1>8, QueueKept
<1>11. SignalInv'
  <2>1. \A s \in Semaphores : h \notin Range(k'.waiters[s])
    BY <1>0, <1>4, <1>5, <1>7 DEF IInv, WaitInv, QueuedBlocked
  <2>2. \A u \in Threads \ {t} : pc'[u] \notin Busy
    BY Zenon, <1>2, <1>8
  <2>3. \A u \in Threads \ {t} : SignalAt(u)'
    BY <2>2 DEF SignalAt, Busy
  <2>4. /\ k'.current = t /\ ~k'.pendsv /\ k'.state[h] = "blocked"
        /\ h \in Threads \ {t} /\ pc[h] = "blocked"
    BY <1>1, <1>4, <1>5, <1>6
  <2>5. /\ pc'[t] = "old" /\ pc'[h] = "blocked" /\ waitee'[t] = h /\ sem' = sem
    BY <1>0, <1>1, <1>8, <2>4
  <2>6. SignalAt(t)'
    BY <2>1, <2>4, <2>5 DEF SignalAt
  <2> QED BY Zenon, <2>3, <2>6 DEF SignalInv
<1>12. WaitInv'
  <2>1. \A s \in Semaphores : \A u \in Range(k'.waiters[s]) :
           u \in Range(k.waiters[s]) /\ u \in Threads \ {t}
    BY <1>0, <1>2, <1>4, <1>7, WaitersAreThreads
  <2>2. \A u \in Threads : pc[u] \notin {"old", "wake"}
    BY <1>1, <1>2 DEF Busy
  <2>3. \A u \in Threads \ {h} : \A s \in Semaphores :
           u \in Range(k.waiters[s]) => u \in Range(k'.waiters[s])
    BY <1>0, <1>4, <1>7
  <2>4. waitee'[t] = h
    BY <1>0, <1>1
  <2>5. \A s \in Semaphores : IsInjective(k'.waiters[s])
    BY Zenon, <1>4, <1>7, KernelParts DEF QueuedOnce
  <2>6. \A s \in Semaphores : \A u \in Range(k'.waiters[s]) :
          k'.state[u] = "blocked" /\ pc'[u] = "blocked" /\ sem'[u] = s
    BY <1>1, <1>6, <2>1 DEF IInv, WaitInv, QueuedBlocked
  <2>7. \A u \in Threads : k'.state[u] = "blocked" =>
          \/ pc'[u] \in {"parking", "parked"}
          \/ /\ pc'[u] = "blocked"
             /\ \/ u \in Range(k'.waiters[sem'[u]])
                \/ \E w \in Threads : waitee'[w] = u /\ pc'[w] \in {"old", "wake"}
    <3> SUFFICES ASSUME NEW u \in Threads, k.state[u] = "blocked"
                 PROVE  \/ pc'[u] \in {"parking", "parked"}
                        \/ /\ pc'[u] = "blocked"
                           /\ \/ u \in Range(k'.waiters[sem'[u]])
                              \/ \E w \in Threads : waitee'[w] = u /\ pc'[w] \in {"old", "wake"}
      BY <1>6
    <3>1. u # t /\ sem[u] \in Semaphores /\ sem'[u] = sem[u]
      BY <1>1, <1>2 DEF IInv, TypeOK
    <3>2. CASE u = h
      BY <3>2, <1>5, <1>8, <2>4
    <3>3. CASE u # h
      BY <3>1, <3>3, <1>8, <2>2, <2>3 DEF IInv, WaitInv, BlockedQueued
    <3> QED BY <3>2, <3>3
  <2>8. \A u \in Threads :
          pc'[u] = "blocked" /\ sem'[u] \in Mutexes => holds'[u] = {}
    BY <1>1 DEF IInv, WaitInv, WaitsEmptyHanded
  <2> QED BY Zenon, <2>5, <2>6, <2>7, <2>8
             DEF WaitInv, QueuedOnce, QueuedBlocked, BlockedQueued, WaitsEmptyHanded
<1>13. CountInv'
  <2>1. \A p \in Mutexes \ {m}, u \in Threads : Owns(u, p)' <=> Owns(u, p)
    BY <1>1, <1>7, ThreadingAssumption DEF Owns
  <2>2. \A p \in Mutexes \ {m} : InSignal(p)' = InSignal(p)
    BY <1>0, <1>1 DEF InSignal
  <2>3. InSignal(m)' = 0
    BY Zenon, <1>2, <1>8 DEF InSignal, Busy
  <2>4. \A u \in Threads : Owns(u, m)' <=> u = h
    BY <1>0, <1>1, <1>2, <1>4, <1>5, <1>7, <1>8 DEF Owns
  <2>5. k'.value[m] = 0 - Len(k'.waiters[m])
    BY <1>2, <1>4, <1>6, <1>7
  <2>6. \A e \in Events : EventCount(e)'
    BY <1>2, <1>6 DEF IInv, CountInv, EventCount
  <2>7. \A p \in Mutexes \ {m} : MutexCount(p)'
    BY <1>6, <2>1, <2>2 DEF IInv, CountInv, MutexCount
  <2>8. MutexCount(m)'
    BY <1>4, <2>3, <2>4, <2>5 DEF MutexCount
  <2> QED BY <2>6, <2>7, <2>8 DEF CountInv
<1> QED BY <1>9, <1>10, <1>11, <1>12, <1>13 DEF IInv

(* console_spawn's call of thread_wakeup preserves the invariant.          *)
LEMMA SpawnStep ==
    ASSUME IInv, NEW t \in Threads, NEW h \in Threads, Spawn(t, h) PROVE IInv'
<1>1. /\ k.current = t /\ ~k.pendsv /\ pc[t] = "run" /\ k.state[h] = "stopped"
      /\ UNCHANGED <<k, sem, reg, old_state, holds>>
      /\ waitee' = [waitee EXCEPT ![t] = h] /\ pc' = [pc EXCEPT ![t] = "old"]
  BY DEF Spawn, At, Goto
<1>2. k.state[t] = "running" /\ \A u \in Threads : pc[u] \notin Busy
  BY <1>1, ExecutesRunning, NobodySignals DEF Busy
<1>3. /\ pc'[t] = "old" /\ waitee'[t] = h
      /\ \A u \in Threads \ {t} : pc'[u] = pc[u]
  BY <1>1 DEF IInv, TypeOK
<1>4. TypeOK'
  BY <1>1 DEF IInv, TypeOK, Labels
<1>5. RunQueueExact' /\ RunsReadyThread'
  BY <1>1, <1>3, QueueKept
<1>6. SignalInv'
  <2>1. \A s \in Semaphores : h \notin Range(k.waiters[s])
    BY <1>1 DEF IInv, WaitInv, QueuedBlocked
  <2>2. SignalAt(t)'
    BY <1>1, <1>3, <2>1 DEF SignalAt
  <2>3. \A u \in Threads \ {t} : SignalAt(u)'
    BY <1>2, <1>3 DEF SignalAt, Busy
  <2> QED BY <2>2, <2>3 DEF SignalInv
<1>7. WaitInv'
  <2>1. \A u \in Threads : pc[u] \notin {"old", "wake"}
    BY <1>2 DEF Busy
  <2>2. k' = k /\ sem' = sem /\ holds' = holds /\ pc'[t] # "blocked"
    BY <1>1, <1>3
  <2> QED BY <1>2, <1>3, <2>1, <2>2, WaitKept
<1>8. CountInv'
  <2>1. \A p \in Mutexes, u \in Threads : Owns(u, p)' <=> Owns(u, p)
    BY <1>1 DEF Owns
  <2>2. \A p \in Mutexes : InSignal(p)' = InSignal(p)
    BY <1>1 DEF InSignal
  <2> QED BY Zenon, <1>1, <2>1, <2>2, CountKept
<1> QED BY <1>4, <1>5, <1>6, <1>7, <1>8 DEF IInv

(* thread_wakeup's write of the other thread's state preserves the         *)
(* invariant.                                                              *)
LEMMA WakeupWriteStep ==
    ASSUME IInv, NEW t \in Threads, WakeupWrite(t) PROVE IInv'
<1>0. PICK h : h = waitee[t]
  OBVIOUS
<1>1. /\ k.current = t /\ ~k.pendsv /\ pc[t] = "wake"
      /\ UNCHANGED <<sem, reg, waitee, old_state, holds>>
      /\ pc' = [pc EXCEPT ![t] = "queue"]
      /\ k' = [k EXCEPT !.state[h] = "running"]
  BY Zenon, <1>0 DEF WakeupWrite, At, Goto, locals
<1>2. /\ h \in Threads /\ k.state[h] # "running" /\ old_state[t] # "running"
      /\ \A s \in Semaphores : h \notin Range(k.waiters[s])
  BY <1>0, <1>1 DEF IInv, SignalInv, SignalAt
<1>3. k.state[t] = "running" /\ t # h
  BY <1>1, <1>2, ExecutesRunning
<1>4. /\ KernelType(k')
      /\ k'.state = [k.state EXCEPT ![h] = "running"]
      /\ k'.queue = k.queue /\ k'.current = k.current /\ k'.pendsv = k.pendsv
      /\ k'.value = k.value /\ k'.waiters = k.waiters
  <2>1. KernelType(k) /\ "running" \in ThreadState
    BY KernelOK DEF ThreadState
  <2>2. k' = [k EXCEPT !.state[h] = "running"]
    BY <1>1
  <2> QED BY <1>2, <2>1, <2>2 DEF KernelType
<1>5. k'.state[h] = "running" /\ \A u \in Threads \cup {Idle} : u # h => k'.state[u] = k.state[u]
  BY <1>2, <1>4, KernelParts
<1>6. pc'[t] = "queue" /\ \A u \in Threads \ {t} : pc'[u] = pc[u] /\ pc[u] \notin Busy
  BY <1>1 DEF IInv, TypeOK, SignalInv, SignalAt
<1>7. TypeOK'
  <2>1. pc' \in [Threads -> Labels]
    BY <1>1, LocalParts DEF Labels
  <2> QED BY <1>1, <2>1, <1>4, KernelOK, LocalParts, TypeKept
<1>8. RunQueueExact'
  <2>1. Whole /\ QueueExact(k)
    BY <1>1, WholeNow, ExactWhole
  <2>2. \A u \in Threads : pc'[u] = "queue" <=> u = t
    BY Zenon, <1>6 DEF Busy
  <2>3. \A u \in Threads : pc'[u] # "parking"
    BY Zenon, <1>6 DEF Busy
  <2>4. \A u \in Threads \cup {Idle} :
           (Entered(u)' \/ Leaving(u)') <=> k.state[u] = "running"
    BY <1>0, <1>1, <1>2, <1>5, <2>2, <2>3 DEF Entered, Leaving
  <2> QED BY <1>1, <1>4, <2>1, <2>4 DEF QueueExact, Running, RunQueueExact
<1>9. RunsReadyThread'
  BY <1>1, <1>3, <1>4, <1>5, IdleAssumption DEF RunsReadyThread
<1>10. SignalInv'
  <2>1. SignalAt(t)'
    BY <1>0, <1>1, <1>2, <1>3, <1>4, <1>5, <1>6 DEF SignalAt
  <2>2. \A u \in Threads \ {t} : SignalAt(u)'
    BY <1>6 DEF SignalAt, Busy
  <2> QED BY <2>1, <2>2 DEF SignalInv
<1>11. WaitInv'
  <2>1. \A s \in Semaphores : \A u \in Range(k.waiters[s]) : u \in Threads \ {t, h}
    BY <1>2, <1>3, WaitersAreThreads DEF IInv, WaitInv, QueuedBlocked
  <2>2. \A u, w \in Threads : waitee[w] = u /\ pc[w] \in {"old", "wake"} => u = h
    BY Zenon, <1>0, <1>6 DEF Busy
  <2>3. QueuedOnce' /\ WaitsEmptyHanded'
    BY <1>1, <1>4 DEF IInv, WaitInv, QueuedOnce, WaitsEmptyHanded
  <2>4. QueuedBlocked'
    BY <1>1, <1>4, <1>5, <1>6, <2>1 DEF IInv, WaitInv, QueuedBlocked
  <2>5. BlockedQueued'
    <3> SUFFICES ASSUME NEW u \in Threads, k'.state[u] = "blocked"
                 PROVE  \/ pc'[u] \in {"parking", "parked"}
                        \/ pc'[u] = "blocked" /\ u \in Range(k'.waiters[sem'[u]])
      BY DEF BlockedQueued
    <3>1. u # h /\ k.state[u] = "blocked" /\ u # t
      BY <1>3, <1>5
    <3> QED BY <1>1, <1>4, <1>6, <2>2, <3>1 DEF IInv, WaitInv, BlockedQueued
  <2> QED BY <2>3, <2>4, <2>5 DEF WaitInv
<1>12. CountInv'
  <2>1. \A p \in Mutexes, u \in Threads : Owns(u, p)' <=> Owns(u, p)
    BY <1>1, <1>4 DEF Owns
  <2>2. \A p \in Mutexes : InSignal(p)' = InSignal(p)
    BY <1>1 DEF InSignal
  <2> QED BY Zenon, <1>4, <2>1, <2>2, CountKept
<1> QED BY <1>7, <1>8, <1>9, <1>10, <1>11, <1>12 DEF IInv

(* A step that changes the run queue alone and leaves nobody half-way:     *)
(* what the invariant says of the waits and the counts stays true.         *)
LEMMA RestKept ==
    ASSUME IInv, NEW t \in Threads, NEW new, new \in {"run", "park", "parked"},
           pc[t] \in {"run", "queue", "parking"},
           pc' = [pc EXCEPT ![t] = new], sem' = sem, waitee' = waitee, holds' = holds,
           k'.state = k.state, k'.value = k.value, k'.waiters = k.waiters,
           pc[t] = "parking" => new = "parked",
           k.current = t
    PROVE  WaitInv' /\ CountInv'
<1>1. pc'[t] = new /\ \A u \in Threads \ {t} : pc'[u] = pc[u] /\ pc[u] \notin Busy
  BY DEF IInv, TypeOK, SignalInv, SignalAt
<1>2. \A s \in Semaphores : \A u \in Range(k.waiters[s]) : u \in Threads \ {t}
  BY WaitersAreThreads DEF IInv, WaitInv, QueuedBlocked
<1>3. QueuedOnce' /\ WaitsEmptyHanded'
  BY DEF IInv, WaitInv, QueuedOnce, WaitsEmptyHanded
<1>4. QueuedBlocked'
  BY <1>1, <1>2 DEF IInv, WaitInv, QueuedBlocked
<1>5. BlockedQueued'
  BY <1>1 DEF IInv, WaitInv, BlockedQueued, Busy
<1>6. \A p \in Mutexes, u \in Threads : Owns(u, p)' <=> Owns(u, p)
  BY <1>1 DEF Owns
<1>7. \A p \in Mutexes : InSignal(p)' = InSignal(p)
  BY <1>1 DEF InSignal
<1>8. CountInv'
  BY Zenon, <1>6, <1>7, CountKept
<1> QED BY <1>3, <1>4, <1>5, <1>8 DEF WaitInv

(* The scheduler's part of thread_wakeup preserves the invariant.          *)
LEMMA WakeupQueueStep ==
    ASSUME IInv, NEW t \in Threads, WakeupQueue(t) PROVE IInv'
<1>0. PICK h, old : h = waitee[t] /\ old = old_state[t]
  OBVIOUS
<1>1. /\ k.current = t /\ ~k.pendsv /\ pc[t] = "queue"
      /\ UNCHANGED <<sem, reg, waitee, old_state, holds>>
      /\ pc' = [pc EXCEPT ![t] = "run"]
      /\ k' = scheduler_thread_changed_state(k, h, old, "running")
  BY Zenon, <1>0 DEF WakeupQueue, At, Goto, locals
<1>2. h \in Threads /\ t # h /\ k.state[h] = "running" /\ old # "running"
  BY <1>0, <1>1 DEF IInv, SignalInv, SignalAt
<1>3. k.state[t] = "running" /\ t # Idle
  BY <1>1, ExecutesRunning, IdleAssumption
<1>4. /\ KernelType(k') /\ k'.queue = list_append(k.queue, h)
      /\ k'.state = k.state /\ k'.current = k.current
      /\ k'.value = k.value /\ k'.waiters = k.waiters
      /\ k'.pendsv <=> (k.pendsv \/ k.current = Idle)
  <2>1. KernelType(k) /\ IsInjective(k.queue)
    BY Zenon, KernelOK
  <2>2. k' = scheduler_thread_changed_state(k, h, old, "running")
    BY Zenon, <1>1
  <2> QED BY <1>2, <2>1, <2>2, EnqueueParts
<1>5. pc'[t] = "run" /\ \A u \in Threads \ {t} : pc'[u] = pc[u] /\ pc[u] \notin Busy
  BY <1>1 DEF IInv, TypeOK, SignalInv, SignalAt
<1>6. TypeOK'
  <2>1. pc' \in [Threads -> Labels]
    BY <1>1, LocalParts DEF Labels
  <2> QED BY <1>1, <2>1, <1>4, KernelOK, LocalParts, TypeKept
<1>7. RunQueueExact' /\ RunsReadyThread'
  <2>1. k.queue \in Seq(Threads) /\ IsInjective(k.queue)
    BY Zenon, KernelOK DEF KernelType
  <2>2. IsInjective(k'.queue) /\ Range(k'.queue) = Range(k.queue) \cup {h}
    BY <1>2, <1>4, <2>1, AppendOnce
  <2>3. /\ \A u \in Threads : pc[u] = "queue" <=> u = t
        /\ \A u \in Threads : pc[u] # "parking"
    BY Zenon, <1>1, <1>5 DEF Busy
  <2>4. \A u \in Threads \cup {Idle} :
           (Entered(u) \/ Leaving(u)) <=> (k.state[u] = "running" /\ u # h)
    BY <1>0, <2>3 DEF Entered, Leaving
  <2>5. Range(k.queue) = {u \in Threads \cup {Idle} : k.state[u] = "running" /\ u # h}
    BY <2>4 DEF IInv, RunQueueExact
  <2>6. QueueExact(k')
    BY <1>2, <1>4, <2>2, <2>5 DEF QueueExact, Running
  <2>7. Whole'
    BY <1>5 DEF Whole, Busy
  <2>8. RunsReadyThread'
    BY <1>1, <1>3, <1>4 DEF RunsReadyThread
  <2> QED BY Zenon, <2>6, <2>7, <2>8, WholeExact
<1>8. SignalInv'
  <2>1. \A u \in Threads : pc'[u] \notin Busy
    BY <1>5 DEF Busy
  <2> QED BY <2>1, SignalKept
<1>9. WaitInv' /\ CountInv'
  BY <1>1, <1>4, RestKept
<1> QED BY <1>6, <1>7, <1>8, <1>9 DEF IInv

(* The steps of the thread_block at the end of firmware_main preserve the  *)
(* invariant: the read of the state, ...                                   *)
LEMMA ParkReadStep ==
    ASSUME IInv, NEW t \in Threads, ParkRead(t) PROVE IInv'
<1>1. /\ k.current = t /\ ~k.pendsv /\ pc[t] = "run"
      /\ UNCHANGED <<k, sem, reg, waitee, holds>>
      /\ old_state' = [old_state EXCEPT ![t] = k.state[t]] /\ pc' = [pc EXCEPT ![t] = "park"]
  BY DEF ParkRead, At, Goto
<1>2. k.state[t] = "running" /\ \A u \in Threads : pc[u] \notin Busy
  BY <1>1, ExecutesRunning, NobodySignals DEF Busy
<1>3. /\ pc'[t] = "park" /\ old_state'[t] = "running"
      /\ \A u \in Threads \ {t} : pc'[u] = pc[u]
  BY <1>1, <1>2 DEF IInv, TypeOK
<1>4. TypeOK'
  BY <1>1, <1>2 DEF IInv, TypeOK, Labels, ThreadState
<1>5. RunQueueExact' /\ RunsReadyThread'
  BY <1>1, <1>3, QueueKept
<1>6. SignalInv'
  <2>1. SignalAt(t)'
    BY <1>1, <1>3 DEF SignalAt
  <2>2. \A u \in Threads \ {t} : SignalAt(u)'
    BY <1>2, <1>3 DEF SignalAt, Busy
  <2> QED BY <2>1, <2>2 DEF SignalInv
<1>7. WaitInv' /\ CountInv'
  BY <1>1, RestKept
<1> QED BY <1>4, <1>5, <1>6, <1>7 DEF IInv

(* ... its write ...                                                       *)
LEMMA ParkWriteStep ==
    ASSUME IInv, NEW t \in Threads, ParkWrite(t) PROVE IInv'
<1>1. /\ k.current = t /\ ~k.pendsv /\ pc[t] = "park"
      /\ UNCHANGED <<sem, reg, waitee, old_state, holds>>
      /\ pc' = [pc EXCEPT ![t] = "parking"]
      /\ k' = [k EXCEPT !.state[t] = "blocked"]
  BY Zenon DEF ParkWrite, At, Goto, locals
<1>2. k.state[t] = "running" /\ old_state[t] = "running"
  BY <1>1, ExecutesRunning DEF IInv, SignalInv, SignalAt
<1>3. /\ KernelType(k')
      /\ k'.state = [k.state EXCEPT ![t] = "blocked"]
      /\ k'.queue = k.queue /\ k'.current = k.current /\ k'.pendsv = k.pendsv
      /\ k'.value = k.value /\ k'.waiters = k.waiters
  <2>1. KernelType(k) /\ "blocked" \in ThreadState
    BY KernelOK DEF ThreadState
  <2>2. k' = [k EXCEPT !.state[t] = "blocked"]
    BY <1>1
  <2> QED BY <2>1, <2>2 DEF KernelType
<1>4. k'.state[t] = "blocked" /\ \A u \in Threads \cup {Idle} : u # t => k'.state[u] = k.state[u]
  BY <1>3, KernelParts
<1>5. pc'[t] = "parking" /\ \A u \in Threads \ {t} : pc'[u] = pc[u] /\ pc[u] \notin Busy
  BY <1>1 DEF IInv, TypeOK, SignalInv, SignalAt
<1>6. TypeOK'
  <2>1. pc' \in [Threads -> Labels]
    BY <1>1, LocalParts DEF Labels
  <2> QED BY <1>1, <2>1, <1>3, KernelOK, LocalParts, TypeKept
<1>7. RunQueueExact'
  <2>1. Whole /\ QueueExact(k)
    BY <1>1, WholeNow, ExactWhole
  <2>2. \A u \in Threads : pc'[u] = "parking" <=> u = t
    BY Zenon, <1>5 DEF Busy
  <2>3. \A u \in Threads : pc'[u] # "queue"
    BY Zenon, <1>5 DEF Busy
  <2>4. \A u \in Threads \cup {Idle} :
           (Entered(u)' \/ Leaving(u)') <=> k.state[u] = "running"
    BY <1>2, <1>4, <2>2, <2>3 DEF Entered, Leaving
  <2> QED BY <1>1, <1>3, <2>1, <2>4 DEF QueueExact, Running, RunQueueExact
<1>8. RunsReadyThread'
  BY <1>1, <1>3, <1>5, IdleAssumption DEF RunsReadyThread, Leaving
<1>9. SignalInv'
  <2>1. SignalAt(t)'
    BY <1>1, <1>2, <1>3, <1>4, <1>5 DEF SignalAt
  <2>2. \A u \in Threads \ {t} : SignalAt(u)'
    BY <1>5 DEF SignalAt, Busy
  <2> QED BY <2>1, <2>2 DEF SignalInv
<1>10. WaitInv'
  <2>1. \A s \in Semaphores : \A u \in Range(k.waiters[s]) : u \in Threads \ {t}
    BY <1>1, WaitersAreThreads DEF IInv, WaitInv, QueuedBlocked
  <2>2. QueuedOnce' /\ WaitsEmptyHanded'
    BY <1>1, <1>3 DEF IInv, WaitInv, QueuedOnce, WaitsEmptyHanded
  <2>3. QueuedBlocked'
    BY <1>1, <1>3, <1>4, <1>5, <2>1 DEF IInv, WaitInv, QueuedBlocked
  <2>4. BlockedQueued'
    <3> SUFFICES ASSUME NEW u \in Threads \ {t}, k'.state[u] = "blocked"
                 PROVE  \/ pc'[u] \in {"parking", "parked"}
                        \/ pc'[u] = "blocked" /\ u \in Range(k'.waiters[sem'[u]])
      BY <1>5 DEF BlockedQueued
    <3>1. k.state[u] = "blocked" /\ \A w \in Threads : pc[w] \notin {"old", "wake"}
      BY <1>1, <1>4, <1>5 DEF Busy
    <3> QED BY <1>1, <1>3, <1>5, <3>1 DEF IInv, WaitInv, BlockedQueued
  <2> QED BY <2>2, <2>3, <2>4 DEF WaitInv
<1>11. CountInv'
  <2>1. \A p \in Mutexes, u \in Threads : Owns(u, p)' <=> Owns(u, p)
    BY <1>1, <1>3 DEF Owns
  <2>2. \A p \in Mutexes : InSignal(p)' = InSignal(p)
    BY <1>1 DEF InSignal
  <2> QED BY Zenon, <1>3, <2>1, <2>2, CountKept
<1> QED BY <1>6, <1>7, <1>8, <1>9, <1>10, <1>11 DEF IInv

(* ... and the scheduler's part, which makes PendSV pending.               *)
LEMMA ParkQueueStep ==
    ASSUME IInv, NEW t \in Threads, ParkQueue(t) PROVE IInv'
<1>1. /\ k.current = t /\ ~k.pendsv /\ pc[t] = "parking"
      /\ UNCHANGED <<sem, reg, waitee, old_state, holds>>
      /\ pc' = [pc EXCEPT ![t] = "parked"]
      /\ k' = scheduler_thread_changed_state(k, t, old_state[t], "blocked")
  BY Zenon DEF ParkQueue, At, Goto, locals
<1>2. k.state[t] = "blocked" /\ old_state[t] = "running"
  BY <1>1 DEF IInv, SignalInv, SignalAt
<1>3. /\ KernelType(k') /\ k'.queue = list_delete(k.queue, t)
      /\ k'.state = k.state /\ k'.current = k.current
      /\ k'.value = k.value /\ k'.waiters = k.waiters /\ k'.pendsv
  <2>1. KernelType(k) /\ IsInjective(k.queue) /\ k.current = t
    BY Zenon, <1>1, KernelOK
  <2>2. k' = scheduler_thread_changed_state(k, t, "running", "blocked")
    BY Zenon, <1>1, <1>2
  <2> QED BY <2>1, <2>2, DequeueParts
<1>4. pc'[t] = "parked" /\ \A u \in Threads \ {t} : pc'[u] = pc[u] /\ pc[u] \notin Busy
  BY <1>1 DEF IInv, TypeOK, SignalInv, SignalAt
<1>5. TypeOK'
  <2>1. pc' \in [Threads -> Labels]
    BY <1>1, LocalParts DEF Labels
  <2> QED BY <1>1, <2>1, <1>3, KernelOK, LocalParts, TypeKept
<1>6. RunQueueExact' /\ RunsReadyThread'
  <2>1. k.queue \in Seq(Threads) /\ IsInjective(k.queue)
    BY Zenon, KernelOK DEF KernelType
  <2>2. IsInjective(k'.queue) /\ Range(k'.queue) = Range(k.queue) \ {t}
    BY <1>3, <2>1, DeleteProperties
  <2>3. /\ \A u \in Threads : pc[u] = "parking" <=> u = t
        /\ \A u \in Threads : pc[u] # "queue"
    BY Zenon, <1>1, <1>4 DEF Busy
  <2>4. \A u \in Threads \cup {Idle} :
           (Entered(u) \/ Leaving(u)) <=> (k.state[u] = "running" \/ u = t)
    BY <2>3 DEF Entered, Leaving
  <2>5. Range(k.queue) = {u \in Threads \cup {Idle} : k.state[u] = "running" \/ u = t}
    BY <2>4 DEF IInv, RunQueueExact
  <2>6. QueueExact(k')
    BY <1>2, <1>3, <2>2, <2>5 DEF QueueExact, Running
  <2>7. Whole'
    BY <1>4 DEF Whole, Busy
  <2>8. RunsReadyThread'
    BY <1>3 DEF RunsReadyThread
  <2> QED BY Zenon, <2>6, <2>7, <2>8, WholeExact
<1>7. SignalInv'
  <2>1. \A u \in Threads : pc'[u] \notin Busy
    BY <1>4 DEF Busy
  <2> QED BY <2>1, SignalKept
<1>8. WaitInv' /\ CountInv'
  BY <1>1, <1>3, RestKept
<1> QED BY <1>5, <1>6, <1>7, <1>8 DEF IInv

-----------------------------------------------------------------------------

(* semaphore_signal by an interrupt handler preserves the invariant.       *)
LEMMA InterruptStep ==
    ASSUME IInv, NEW e \in Events, Interrupt(e) PROVE IInv'
<1>0. PICK q, v, h : q = k.waiters[e] /\ v = k.value[e] /\ h = Head(q)
  OBVIOUS
<1>1. /\ ~k.pendsv /\ v < MaxEvents /\ k' = semaphore_signal(k, e)
      /\ UNCHANGED <<pc, sem, reg, waitee, old_state, holds>>
  BY <1>0 DEF Interrupt, locals
<1>2. e \in Semaphores /\ e \notin Mutexes /\ \A m \in Mutexes : m \in Semaphores \ {e}
  BY ThreadingAssumption
<1>3. KernelType(k) /\ IsInjective(k.queue) /\ v \in -Cardinality(Threads)..MaxEvents
      /\ q \in Seq(Threads) /\ IsInjective(q)
  BY <1>0, <1>2, KernelOK, KernelParts DEF QueuedOnce
<1>4. v \in Int /\ -Cardinality(Threads) <= v /\ v < MaxEvents /\ v \in -128..126
  <2>1. v \in -Cardinality(Threads)..MaxEvents /\ v < MaxEvents
    BY Zenon, <1>1, <1>3
  <2> QED BY <2>1, CardinalityBound
<1>r. k.value[e] \in -128..126 /\ IsInjective(k.waiters[e])
  BY Zenon, <1>0, <1>3, <1>4
<1>5. /\ KernelType(k') /\ k'.value = [k.value EXCEPT ![e] = v + 1]
      /\ k'.current = k.current
      /\ q = <<>> => /\ k'.state = k.state /\ k'.queue = k.queue
                     /\ k'.waiters = k.waiters /\ k'.pendsv = k.pendsv
      /\ q # <<>> => /\ k'.state = [k.state EXCEPT ![h] = "running"]
                     /\ k'.queue = IF k.state[h] # "running" THEN list_append(k.queue, h) ELSE k.queue
                     /\ k'.waiters = [k.waiters EXCEPT ![e] = Tail(q)]
                     /\ k'.pendsv <=> (k.pendsv \/ k.current = Idle)
  <2>1. Raised(k, e, k')
    BY <1>1, <1>2, <1>3, <1>r, RaiseEffect
  <2> QED BY Zenon, <1>0, <2>1 DEF Raised
<1>6. k'.value[e] = v + 1 /\ \A s \in Semaphores \ {e} : k'.value[s] = k.value[s]
  BY <1>2, <1>5, KernelParts
<1>7. EventCount(e)
  BY DEF IInv, CountInv
<1>8. q # <<>> => /\ Tail(q) \in Seq(Threads) /\ IsInjective(Tail(q))
                  /\ h \in Threads /\ h \in Range(q)
                  /\ Range(Tail(q)) = Range(q) \ {h}
                  /\ Len(Tail(q)) = Len(q) - 1 /\ Len(q) \in Nat
  <2>1. q \in Seq(Threads) /\ IsInjective(q)
    BY Zenon, <1>3
  <2> QED BY <1>0, <2>1, TailProperties
<1>9. q # <<>> => k.state[h] = "blocked" /\ pc[h] = "blocked" /\ sem[h] = e
  BY <1>0, <1>2, <1>8 DEF IInv, WaitInv, QueuedBlocked
<1>10. /\ \A s \in Semaphores \ {e} : k'.waiters[s] = k.waiters[s]
       /\ k'.waiters[e] = IF q = <<>> THEN q ELSE Tail(q)
  <2>1. k.waiters \in [Semaphores -> Seq(Threads)]
    BY KernelParts
  <2>2. CASE q = <<>>
    BY Zenon, <1>0, <1>5, <2>2
  <2>3. CASE q # <<>>
    BY <1>2, <1>5, <2>1, <2>3
  <2> QED BY <2>2, <2>3
<1>11. \A u \in Threads :
          k'.state[u] = IF q # <<>> /\ u = h THEN "running" ELSE k.state[u]
  BY <1>5, KernelParts
<1>13. TypeOK'
  <2>0. v + 1 \in -Cardinality(Threads)..MaxEvents
    BY <1>4, CardinalityBound
  <2>1. \A s \in Semaphores : k'.value[s] \in -Cardinality(Threads)..MaxEvents
    BY Zenon, <1>6, <2>0, KernelOK
  <2> QED BY <1>1, <1>5, <2>1, LocalParts, TypeKept
<1>14. RunQueueExact'
  <2>1. CASE Whole
    <3>1. QueueExact(k)
      BY Zenon, <2>1, ExactWhole
    <3>2. Signalled(k, e, k')
      BY Zenon, <1>1, <1>2, <1>3, <1>r, <3>1, SignalEffect
    <3>3. QueueExact(k') /\ Whole'
      BY <1>1, <2>1, <3>2 DEF Signalled, Whole
    <3> QED BY Zenon, <3>3, WholeExact
  <2>2. CASE ~Whole
    <3>1. PICK t \in Threads : pc[t] \in {"queue", "parking"}
      BY <2>2 DEF Whole
    <3>2. k.current # Idle
      BY <3>1, IdleAssumption DEF IInv, SignalInv, SignalAt, Busy
    <3>3. ~k'.pendsv
      BY Zenon, <1>1, <1>5, <3>2
    <3>4. CASE q = <<>>
      <4>1. \A u \in Threads \cup {Idle} : (Entered(u)' <=> Entered(u)) /\ (Leaving(u)' <=> Leaving(u))
        BY <1>1, <1>5, <3>4 DEF Entered, Leaving
      <4> QED BY <1>3, <1>5, <3>3, <3>4, <4>1 DEF IInv, RunQueueExact
    <3>5. CASE q # <<>>
      <4>1. h \in Threads /\ k.state[h] = "blocked"
        BY Zenon, <1>8, <1>9, <3>5
      <4>2. k.queue \in Seq(Threads) /\ k'.queue = list_append(k.queue, h)
        BY <1>3, <1>5, <3>5, <4>1 DEF KernelType
      <4>3. IsInjective(k'.queue) /\ Range(k'.queue) = Range(k.queue) \cup {h}
        <5>1. PICK r \in Seq(Threads) : r = k.queue /\ IsInjective(r)
          BY Zenon, <1>3, <4>2
        <5>2. IsInjective(list_append(r, h)) /\ Range(list_append(r, h)) = Range(r) \cup {h}
          BY <4>1, <5>1, AppendOnce
        <5> QED BY Zenon, <4>2, <5>1, <5>2
      <4>4. k'.state[h] = "running"
            /\ \A u \in Threads \cup {Idle} : u # h => k'.state[u] = k.state[u]
        BY <1>5, <3>5, <4>1, KernelParts
      <4>5. \A u \in Threads : pc[u] = "queue" => waitee[u] # h
        BY <4>1 DEF IInv, SignalInv, SignalAt
      <4>6. Entered(h)'
        BY <1>1, <4>4, <4>5 DEF Entered
      <4>7. \A u \in Threads \cup {Idle} :
               u # h => (Entered(u)' <=> Entered(u)) /\ (Leaving(u)' <=> Leaving(u))
        BY <1>1, <4>4 DEF Entered, Leaving
      <4> QED BY <3>3, <4>1, <4>3, <4>6, <4>7 DEF IInv, RunQueueExact
    <3> QED BY <3>4, <3>5
  <2> QED BY <2>1, <2>2
<1>15. RunsReadyThread'
  <2>1. CASE k.current = Idle
    BY <1>5, <2>1 DEF IInv, RunsReadyThread
  <2>2. CASE k.current # Idle
    <3>1. k.current \in Threads /\ (k.state[k.current] = "running" \/ Leaving(k.current))
      BY Zenon, <1>1, <2>2, KernelParts DEF IInv, RunsReadyThread
    <3>2. k.state[k.current] = "running" => k'.state[k.current] = "running"
      BY Zenon, <1>11, <3>1
    <3>3. Leaving(k.current) => Leaving(k.current)'
      BY <1>1, <1>5 DEF Leaving
    <3> QED BY Zenon, <1>5, <2>2, <3>1, <3>2, <3>3 DEF RunsReadyThread
  <2> QED BY <2>1, <2>2
<1>16. SignalInv'
  <2> SUFFICES ASSUME NEW t \in Threads, pc[t] \in Busy PROVE SignalAt(t)'
    BY <1>1 DEF SignalInv, SignalAt, Busy
  <2>0. SignalAt(t)
    BY DEF IInv, SignalInv
  <2>1. k'.current = t /\ ~k'.pendsv
    BY Zenon, <1>5, <2>0, IdleAssumption DEF SignalAt
  <2>2. pc[t] \in {"store", "first", "delete"} => sem[t] \in holds[t] /\ sem[t] \in Mutexes
    BY Zenon, <2>0, LocalParts DEF SignalAt
  <2>3. pc[t] \in {"store", "delete"} => sem[t] \in Semaphores \ {e}
    BY Zenon, <1>2, <2>2
  <2>4. ASSUME pc[t] \in {"old", "wake"}
        PROVE  /\ waitee[t] \in Threads /\ k'.state[waitee[t]] = k.state[waitee[t]]
               /\ \A s \in Semaphores : waitee[t] \notin Range(k'.waiters[s])
    <3>1. /\ waitee[t] \in Threads
          /\ \A s \in Semaphores : waitee[t] \notin Range(k.waiters[s])
      BY Zenon, <2>0, <2>4 DEF SignalAt
    <3>2. q # <<>> => waitee[t] # h
      BY Zenon, <1>0, <1>2, <1>8, <3>1
    <3>3. \A s \in Semaphores : waitee[t] \notin Range(k'.waiters[s])
      BY Zenon, <1>0, <1>8, <1>10, <3>1
    <3> QED BY Zenon, <1>11, <3>1, <3>2, <3>3
  <2>6. pc[t] = "queue" => k'.state[waitee[t]] = "running"
    BY Zenon, <1>11, <2>0 DEF SignalAt
  <2>7. pc[t] = "parking" => k'.state[t] = "blocked"
    BY Zenon, <1>9, <1>11, <2>0 DEF SignalAt
  <2>5. /\ pc[t] = "store" => k'.value[sem[t]] = k.value[sem[t]]
        /\ pc[t] = "delete" => k'.waiters[sem[t]] = k.waiters[sem[t]]
    BY <1>6, <1>10, <2>3
  <2> QED BY <1>1, <2>0, <2>1, <2>4, <2>5, <2>6, <2>7 DEF SignalAt
<1>17. WaitInv'
  <2>1. \A s \in Semaphores : IsInjective(k'.waiters[s])
    BY <1>3, <1>8, <1>10, KernelParts DEF QueuedOnce
  <2>2. \A s \in Semaphores : \A u \in Range(k'.waiters[s]) :
           u \in Range(k.waiters[s]) /\ u \in Threads /\ (q # <<>> => u # h)
    <3> SUFFICES ASSUME NEW s \in Semaphores, NEW u \in Range(k'.waiters[s])
                 PROVE  u \in Range(k.waiters[s]) /\ u \in Threads /\ (q # <<>> => u # h)
      OBVIOUS
    <3>1. u \in Range(k.waiters[s])
      BY Zenon, <1>0, <1>8, <1>10
    <3>2. u \in Threads /\ sem[u] = s
      BY <3>1, WaitersAreThreads DEF IInv, WaitInv, QueuedBlocked
    <3>3. q # <<>> => u # h
      BY Zenon, <1>8, <1>9, <1>10, <3>2
    <3> QED BY <3>1, <3>2, <3>3
  <2>3. \A s \in Semaphores : \A u \in Range(k'.waiters[s]) :
          k'.state[u] = "blocked" /\ pc'[u] = "blocked" /\ sem'[u] = s
    BY <1>1, <1>11, <2>2 DEF IInv, WaitInv, QueuedBlocked
  <2>4. \A u \in Threads : k'.state[u] = "blocked" =>
          k.state[u] = "blocked" /\ (q # <<>> => u # h)
    BY Zenon, <1>11
  <2>5. \A u \in Threads : \A s \in Semaphores :
          (q # <<>> => u # h) /\ u \in Range(k.waiters[s]) => u \in Range(k'.waiters[s])
    BY <1>0, <1>8, <1>10
  <2>6. \A u \in Threads : sem[u] \in Semaphores
    BY Zenon, LocalParts
  <2>7. BlockedQueued'
    BY Zenon, <1>1, <2>4, <2>5, <2>6 DEF IInv, WaitInv, BlockedQueued
  <2>8. WaitsEmptyHanded'
    BY <1>1 DEF IInv, WaitInv, WaitsEmptyHanded
  <2> QED BY <2>1, <2>3, <2>7, <2>8 DEF WaitInv, QueuedOnce, QueuedBlocked
<1>18. CountInv'
  <2>1. \A p \in Mutexes, u \in Threads : Owns(u, p)' <=> Owns(u, p)
    BY <1>1, <1>2, <1>10 DEF Owns
  <2>2. \A p \in Mutexes : InSignal(p)' = InSignal(p)
    BY Zenon, <1>1 DEF InSignal
  <2>3. \A p \in Mutexes : MutexCount(p)'
    BY Zenon, <1>2, <1>6, <1>10, <2>1, <2>2 DEF IInv, CountInv, MutexCount
  <2>4. \A p \in Events \ {e} : EventCount(p)'
    BY SMTT(40), <1>6, <1>10, ThreadingAssumption DEF IInv, CountInv, EventCount
  <2>5. EventCount(e)'
    <3>1. Len(q) = IF v < 0 THEN -v ELSE 0
      BY <1>0, <1>7 DEF EventCount
    <3>2. Len(k'.waiters[e]) = IF v + 1 < 0 THEN -(v + 1) ELSE 0
      BY <1>4, <1>10, <3>1
    <3> QED BY <1>6, <3>2 DEF EventCount
  <2> QED BY <2>3, <2>4, <2>5 DEF CountInv
<1> QED BY <1>13, <1>14, <1>15, <1>16, <1>17, <1>18 DEF IInv

(* What a thread that calls semaphore_wait finds.                          *)
Found(t, s) ==
    /\ KernelType(k) /\ QueueExact(k)
    /\ k.value[s] \in -127..127 /\ k.value[s] \in -Cardinality(Threads)..MaxEvents
    /\ k.state[t] = "running" /\ t # Idle
    /\ k.waiters[s] \in Seq(Threads) /\ IsInjective(k.waiters[s])
    /\ \A p \in Semaphores : t \notin Range(k.waiters[p])
    /\ \A u \in Threads : pc[u] \notin Busy
    /\ \A p \in Semaphores : InSignal(p) = 0
    /\ k.value[s] <= 0 => Len(k.waiters[s]) = -k.value[s]
    /\ k.value[s] > 0 => k.waiters[s] = <<>>
    /\ s \in Mutexes => /\ ~Owns(t, s)
                        /\ k.value[s] <= 0 => \E u \in Threads : Owns(u, s)
                        /\ k.value[s] > 0 => k.value[s] = 1
                                             /\ \A u \in Threads : ~Owns(u, s)

(* It is so by the invariant.                                              *)
LEMMA Waiting ==
    ASSUME IInv, NEW t \in Threads, NEW s \in Semaphores, At(t, "run"),
           s \in Mutexes => holds[t] = {}
    PROVE  Found(t, s)
<1>1. KernelType(k) /\ QueueExact(k)
      /\ k.value[s] \in -Cardinality(Threads)..MaxEvents
      /\ k.waiters[s] \in Seq(Threads)
  <2>1. Whole
    BY WholeNow DEF At
  <2> QED BY Zenon, <2>1, ExactWhole, KernelOK, KernelParts
<1>2. k.value[s] \in -127..127 /\ k.value[s] \in Int
  <2>1. k.value[s] \in Int /\ -Cardinality(Threads) <= k.value[s] /\ k.value[s] <= MaxEvents
    BY <1>1
  <2> QED BY <2>1, CardinalityBound
<1>3. k.state[t] = "running" /\ t # Idle
  BY ExecutesRunning, IdleAssumption DEF At
<1>4. IsInjective(k.waiters[s]) /\ \A p \in Semaphores : t \notin Range(k.waiters[p])
  BY <1>3 DEF IInv, WaitInv, QueuedOnce, QueuedBlocked
<1>5. (\A u \in Threads : pc[u] \notin Busy) /\ \A p \in Semaphores : InSignal(p) = 0
  BY Zenon, NobodySignals DEF At, Busy
<1>7. /\ k.value[s] <= 0 => Len(k.waiters[s]) = -k.value[s]
      /\ k.value[s] > 0 => k.waiters[s] = <<>>
      /\ s \in Mutexes => /\ ~Owns(t, s)
                          /\ k.value[s] <= 0 => \E u \in Threads : Owns(u, s)
                          /\ k.value[s] > 0 => k.value[s] = 1
                                               /\ \A u \in Threads : ~Owns(u, s)
  <2>1. CASE s \in Mutexes
    <3>1. MutexCount(s)
      BY <2>1 DEF IInv, CountInv
    <3>2. ~Owns(t, s)
      BY Zenon, <2>1 DEF Owns, At
    <3>3. CASE \E u \in Threads : Owns(u, s)
      <4>1. k.value[s] = 0 - Len(k.waiters[s])
        BY <1>5, <3>1, <3>3 DEF MutexCount
      <4>2. k.value[s] <= 0 /\ Len(k.waiters[s]) = -k.value[s] /\ ~(k.value[s] > 0)
        BY <4>1
      <4> QED BY <3>2, <3>3, <4>2
    <3>4. CASE \A u \in Threads : ~Owns(u, s)
      <4>1. k.value[s] = 1 /\ k.waiters[s] = <<>>
        BY <3>1, <3>4 DEF MutexCount
      <4>2. ~(k.value[s] <= 0)
        BY <4>1
      <4> QED BY <3>4, <4>1, <4>2
    <3> QED BY Zenon, <3>3, <3>4
  <2>2. CASE s \notin Mutexes
    <3>1. Len(k.waiters[s]) = IF k.value[s] < 0 THEN -k.value[s] ELSE 0
      BY Zenon, <2>2, ThreadingAssumption DEF IInv, CountInv, EventCount
    <3> QED BY <1>2, <2>2, <3>1
  <2> QED BY Zenon, <2>1, <2>2
<1> QED BY Zenon, <1>1, <1>2, <1>3, <1>4, <1>5, <1>7 DEF Found

(* What semaphore_wait then does.                                          *)
LEMMA FoundPasses ==
    ASSUME NEW t \in Threads, NEW s \in Semaphores, Found(t, s), ~must_wait(k, s)
    PROVE  Passed(k, s, semaphore_wait(k, s))
<1>1. KernelType(k) /\ QueueExact(k) /\ k.value[s] \in -127..127
  BY Zenon DEF Found
<1> QED BY Zenon, <1>1, WaitPasses

LEMMA FoundBlocks ==
    ASSUME NEW t \in Threads, NEW s \in Semaphores, Found(t, s), k.current = t,
           must_wait(k, s)
    PROVE  Blocked(k, s, t, semaphore_wait(k, s))
<1>1. /\ KernelType(k) /\ QueueExact(k) /\ k.value[s] \in -127..127
      /\ k.state[t] = "running"
      /\ IsInjective(k.waiters[s]) /\ t \notin Range(k.waiters[s])
  BY Zenon DEF Found
<1> QED BY Zenon, <1>1, WaitBlocks

(* semaphore_wait that returns at once.                                    *)
LEMMA WaitPassesStep ==
    ASSUME IInv, NEW t \in Threads, NEW s \in Semaphores, Wait(t, s), ~must_wait(k, s)
    PROVE  IInv'
<1>0. PICK v : v = k.value[s]
  OBVIOUS
<1>1. /\ At(t, "run") /\ (s \in Mutexes => holds[t] = {})
      /\ k.current = t /\ ~k.pendsv /\ pc[t] = "run"
      /\ k' = semaphore_wait(k, s)
      /\ sem' = [sem EXCEPT ![t] = s]
      /\ holds' = [holds EXCEPT ![t] = @ \cup ({s} \cap Mutexes)]
      /\ UNCHANGED <<pc, reg, waitee, old_state>>
  BY Zenon DEF Wait, At, locals
<1>f. Found(t, s)
  BY <1>1, Waiting
<1>2. /\ v \in -127..127 /\ v \in -Cardinality(Threads)..MaxEvents
      /\ v > 0 => k.waiters[s] = <<>>
      /\ s \in Mutexes /\ v > 0 => v = 1 /\ \A u \in Threads : ~Owns(u, s)
  BY Zenon, <1>0, <1>f DEF Found
<1>n. /\ k.state[t] = "running"
      /\ \A u \in Threads : pc[u] \notin Busy
      /\ \A p \in Semaphores : InSignal(p) = 0
  BY Zenon, <1>f DEF Found
<1>3. /\ KernelType(k') /\ QueueExact(k') /\ v >= 1
      /\ k'.value = [k.value EXCEPT ![s] = v - 1]
      /\ k'.state = k.state /\ k'.queue = k.queue /\ k'.current = k.current
      /\ k'.pendsv = k.pendsv /\ k'.waiters = k.waiters
  <2>1. Passed(k, s, k')
    BY Zenon, <1>1, <1>f, FoundPasses
  <2> QED BY Zenon, <1>0, <2>1 DEF Passed
<1>4. k'.value[s] = v - 1 /\ \A p \in Semaphores \ {s} : k'.value[p] = k.value[p]
  BY <1>3, KernelParts
<1>5. /\ sem'[t] = s /\ holds'[t] = holds[t] \cup ({s} \cap Mutexes)
      /\ \A u \in Threads \ {t} : sem'[u] = sem[u] /\ holds'[u] = holds[u]
  BY <1>1, LocalParts
<1>6. v \in Int /\ v > 0 /\ k.waiters[s] = <<>>
  BY Zenon, <1>2, <1>3, PassingValue
<1>7. TypeOK'
  <2>0. v - 1 \in -Cardinality(Threads)..MaxEvents
    BY Zenon, <1>2, <1>3, PassingValue
  <2>1. \A p \in Semaphores : k'.value[p] \in -Cardinality(Threads)..MaxEvents
    BY Zenon, <1>4, <2>0, KernelOK
  <2> QED BY Zenon, <1>1, <1>3, <2>1, LocalParts, TypeKept
<1>8. RunQueueExact' /\ RunsReadyThread'
  <2>1. pc'[t] = "run" /\ pc' = pc
    BY Zenon, <1>1
  <2> QED BY <1>1, <1>3, <2>1, QueueKept
<1>9. SignalInv'
  BY Zenon, <1>1, <1>n, SignalKept
<1>10. WaitInv'
  <2>1. pc' = pc /\ pc'[t] # "blocked" /\ \A u \in Threads : pc[u] \notin {"old", "wake"}
    BY <1>1, <1>n DEF Busy
  <2> QED BY Zenon, <1>n, <1>3, <1>5, <2>1, WaitKept
<1>11. CountInv'
  <2>1. \A p \in Mutexes : InSignal(p)' = 0 /\ InSignal(p) = 0
    <3>1. \A u \in Threads : pc[u] \notin {"first", "delete"} /\ pc'[u] \notin {"first", "delete"}
      BY Zenon, <1>1, <1>n DEF Busy
    <3> QED BY <3>1 DEF InSignal
  <2>0. pc' = pc /\ pc[t] # "blocked" /\ k'.waiters = k.waiters
    BY Zenon, <1>1, <1>3
  <2>2. \A p \in Mutexes \ {s}, u \in Threads : Owns(u, p)' <=> Owns(u, p)
    BY Zenon, <1>5, <2>0 DEF Owns
  <2>3. \A p \in Mutexes \ {s} : MutexCount(p)'
    <3> SUFFICES ASSUME NEW p \in Mutexes \ {s} PROVE MutexCount(p)'
      OBVIOUS
    <3>1. MutexCount(p)
      BY DEF IInv, CountInv
    <3>2. k'.value[p] = k.value[p]
      BY Zenon, <1>4, ThreadingAssumption
    <3> QED BY <2>0, <2>1, <2>2, <3>1, <3>2 DEF MutexCount
  <2>4. s \in Mutexes => MutexCount(s)'
    <3> SUFFICES ASSUME s \in Mutexes PROVE MutexCount(s)'
      OBVIOUS
    <3>1. \A u \in Threads \ {t} : ~Owns(u, s)'
      <4>1. \A u \in Threads : ~Owns(u, s)
        BY Zenon, <1>2, <1>6
      <4> QED BY <1>5, <2>0, <4>1 DEF Owns
    <3>2. Owns(t, s)'
      BY Zenon, <1>5 DEF Owns
    <3>3. v = 1 /\ k'.waiters[s] = <<>>
      BY Zenon, <1>2, <1>6, <2>0
    <3>4. k'.value[s] = 0 /\ Len(k'.waiters[s]) = 0
      BY <1>4, <3>3
    <3> QED BY <2>1, <3>1, <3>2, <3>4 DEF MutexCount
  <2>5. \A p \in Events \ {s} : EventCount(p)'
    BY Zenon, <1>4, <2>0, ThreadingAssumption DEF IInv, CountInv, EventCount
  <2>6. EventCount(s)'
    BY <1>4, <1>6, <2>0 DEF EventCount
  <2> QED BY Zenon, <2>3, <2>4, <2>5, <2>6 DEF CountInv
<1> QED BY <1>7, <1>8, <1>9, <1>10, <1>11 DEF IInv

(* semaphore_wait that blocks the thread.                                  *)
LEMMA WaitBlocksStep ==
    ASSUME FewThreads, IInv,
           NEW t \in Threads, NEW s \in Semaphores, Wait(t, s), must_wait(k, s)
    PROVE  IInv'
<1>0. PICK v, q : v = k.value[s] /\ q = k.waiters[s]
  OBVIOUS
<1>1. /\ At(t, "run") /\ (s \in Mutexes => holds[t] = {})
      /\ k.current = t /\ ~k.pendsv /\ pc[t] = "run"
      /\ k' = semaphore_wait(k, s)
      /\ sem' = [sem EXCEPT ![t] = s]
      /\ pc' = [pc EXCEPT ![t] = "blocked"]
      /\ UNCHANGED <<reg, waitee, old_state, holds>>
  BY Zenon DEF Wait, At, Goto, locals
<1>f. Found(t, s)
  BY <1>1, Waiting
<1>2. /\ q \in Seq(Threads) /\ IsInjective(q)
      /\ v \in -127..127
      /\ v <= 0 => Len(q) = -v
      /\ s \in Mutexes => (v <= 0 => \E u \in Threads : Owns(u, s))
  BY Zenon, <1>0, <1>f DEF Found
<1>n. /\ \A p \in Semaphores : t \notin Range(k.waiters[p])
      /\ \A u \in Threads : pc[u] \notin Busy
  BY Zenon, <1>f DEF Found
<1>3. /\ KernelType(k') /\ QueueExact(k') /\ v <= 0
      /\ k'.value = [k.value EXCEPT ![s] = v - 1]
      /\ k'.state = [k.state EXCEPT ![t] = "blocked"]
      /\ k'.waiters = [k.waiters EXCEPT ![s] = Append(q, t)]
      /\ k'.current = k.current /\ k'.pendsv
  <2>1. Blocked(k, s, t, k')
    BY <1>1, <1>f, FoundBlocks
  <2> QED BY Zenon, <1>0, <2>1 DEF Blocked
<1>4. /\ Append(q, t) \in Seq(Threads) /\ IsInjective(Append(q, t))
      /\ Range(Append(q, t)) = Range(q) \cup {t}
      /\ Len(Append(q, t)) = Len(q) + 1 /\ Len(q) \in Nat
  <2>1. t \notin Range(q)
    BY <1>0, <1>n
  <2>2. list_append(q, t) = Append(q, t)
    BY <2>1 DEF list_append, list_delete
  <2>3. Range(list_append(q, t)) = Range(q) \cup {t} /\ IsInjective(list_append(q, t))
    BY <1>2, AppendOnce
  <2>4. Append(q, t) \in Seq(Threads) /\ Len(Append(q, t)) = Len(q) + 1 /\ Len(q) \in Nat
    BY <1>2
  <2> QED BY <2>2, <2>3, <2>4
<1>5. Len(q) = -v /\ v \in Int /\ -Cardinality(Threads) <= v - 1
  <2>1. Len(Append(q, t)) <= Cardinality(Threads)
    BY Zenon, <1>4 DEF FewThreads
  <2>2. Len(q) + 1 <= Cardinality(Threads)
    BY <1>4, <2>1
  <2>3. Len(q) = -v /\ v \in Int
    <3>1. v \in -127..127 /\ Len(q) = -v
      BY Zenon, <1>2, <1>3
    <3> QED BY <3>1
  <2> QED BY <2>2, <2>3, CardinalityBound
<1>6. /\ k'.value[s] = v - 1 /\ k'.waiters[s] = Append(q, t) /\ k'.state[t] = "blocked"
      /\ \A p \in Semaphores \ {s} : k'.value[p] = k.value[p] /\ k'.waiters[p] = k.waiters[p]
      /\ \A u \in Threads \ {t} : k'.state[u] = k.state[u]
  <2>1. k'.value[s] = v - 1 /\ \A p \in Semaphores \ {s} : k'.value[p] = k.value[p]
    <3>1. k.value \in [Semaphores -> Int] /\ k'.value = [k.value EXCEPT ![s] = v - 1]
      BY Zenon, <1>3, KernelParts
    <3> QED BY <3>1
  <2>2. /\ k'.waiters[s] = Append(q, t)
        /\ \A p \in Semaphores \ {s} : k'.waiters[p] = k.waiters[p]
    <3>1. /\ k.waiters \in [Semaphores -> Seq(Threads)]
          /\ k'.waiters = [k.waiters EXCEPT ![s] = Append(q, t)]
      BY Zenon, <1>3, KernelParts
    <3> QED BY <3>1
  <2>3. k'.state[t] = "blocked" /\ \A u \in Threads \ {t} : k'.state[u] = k.state[u]
    <3>1. /\ k.state \in [Threads \cup {Idle} -> ThreadState]
          /\ k'.state = [k.state EXCEPT ![t] = "blocked"]
      BY Zenon, <1>3, KernelParts
    <3> QED BY <3>1
  <2> QED BY Zenon, <2>1, <2>2, <2>3
<1>7. /\ sem'[t] = s /\ pc'[t] = "blocked"
      /\ \A u \in Threads \ {t} : sem'[u] = sem[u] /\ pc'[u] = pc[u]
  BY <1>1, LocalParts
<1>8. TypeOK'
  <2>1. \A p \in Semaphores : k'.value[p] \in -Cardinality(Threads)..MaxEvents
    <3>1. v - 1 \in -Cardinality(Threads)..MaxEvents
      BY <1>5, CardinalityBound
    <3> QED BY <1>6, <3>1, KernelOK
  <2>3. pc' \in [Threads -> Labels]
    BY Zenon, <1>1, LocalParts DEF Labels
  <2> QED BY Zenon, <1>1, <1>3, <2>1, <2>3, LocalParts, TypeKept
<1>9. RunQueueExact' /\ RunsReadyThread'
  <2>1. Whole'
    BY Zenon, <1>n, <1>7 DEF Whole, Busy
  <2> QED BY Zenon, <1>3, <2>1, WholeExact DEF RunsReadyThread
<1>10. SignalInv'
  <2>1. \A u \in Threads : pc'[u] \notin Busy
    BY Zenon, <1>n, <1>7 DEF Busy
  <2> QED BY <2>1, SignalKept
<1>11. \A p \in Semaphores : /\ Range(k.waiters[p]) \subseteq Threads \ {t}
                             /\ Range(k'.waiters[p]) = IF p = s THEN Range(k.waiters[p]) \cup {t}
                                                       ELSE Range(k.waiters[p])
  BY Zenon, <1>0, <1>n, <1>4, <1>6, WaitersAreThreads
<1>12. WaitInv'
  <2>0. QueuedOnce /\ QueuedBlocked /\ BlockedQueued /\ WaitsEmptyHanded
    BY DEF IInv, WaitInv
  <2>1. QueuedOnce'
    BY Zenon, <1>4, <1>6, <2>0 DEF QueuedOnce
  <2>2. \A p \in Semaphores : \A u \in Range(k'.waiters[p]) :
          k'.state[u] = "blocked" /\ pc'[u] = "blocked" /\ sem'[u] = p
    <3> SUFFICES ASSUME NEW p \in Semaphores, NEW u \in Range(k'.waiters[p])
                 PROVE  k'.state[u] = "blocked" /\ pc'[u] = "blocked" /\ sem'[u] = p
      OBVIOUS
    <3>1. CASE u = t
      BY Zenon, <1>6, <1>7, <1>11, <3>1
    <3>2. CASE u # t
      <4>1. u \in Range(k.waiters[p]) /\ u \in Threads \ {t}
        BY Zenon, <1>11, <3>2
      <4> QED BY Zenon, <1>6, <1>7, <2>0, <4>1 DEF QueuedBlocked
    <3> QED BY <3>1, <3>2
  <2>3. \A u \in Threads : pc[u] \notin {"old", "wake"}
    BY <1>n DEF Busy
  <2>4. \A u \in Threads : k'.state[u] = "blocked" =>
          \/ pc'[u] \in {"parking", "parked"}
          \/ pc'[u] = "blocked" /\ u \in Range(k'.waiters[sem'[u]])
    <3> SUFFICES ASSUME NEW u \in Threads, k'.state[u] = "blocked"
                 PROVE  \/ pc'[u] \in {"parking", "parked"}
                        \/ pc'[u] = "blocked" /\ u \in Range(k'.waiters[sem'[u]])
      OBVIOUS
    <3>1. CASE u = t
      BY Zenon, <1>7, <1>11, <3>1
    <3>2. CASE u # t
      <4>1. sem[u] \in Semaphores
        BY Zenon, LocalParts
      <4>2. k.state[u] = "blocked" /\ sem'[u] = sem[u] /\ pc'[u] = pc[u]
        BY <1>6, <1>7, <3>2
      <4>3. u \in Range(k.waiters[sem[u]]) => u \in Range(k'.waiters[sem[u]])
        BY Zenon, <1>11, <4>1
      <4> QED BY Zenon, <2>0, <2>3, <4>2, <4>3 DEF BlockedQueued
    <3> QED BY Zenon, <3>1, <3>2
  <2>5. WaitsEmptyHanded'
    BY Zenon, <1>1, <1>7, <2>0 DEF WaitsEmptyHanded
  <2>6. QueuedBlocked' /\ BlockedQueued'
    BY <2>2, <2>4 DEF QueuedBlocked, BlockedQueued
  <2> QED BY <2>1, <2>5, <2>6 DEF WaitInv
<1>13. CountInv'
  <2>1. \A p \in Mutexes : InSignal(p)' = 0 /\ InSignal(p) = 0
    BY <1>n, <1>7 DEF InSignal, Busy
  <2>2. \A p \in Mutexes, u \in Threads : Owns(u, p)' <=> Owns(u, p)
    <3> SUFFICES ASSUME NEW p \in Mutexes, NEW u \in Threads
                 PROVE  Owns(u, p)' <=> Owns(u, p)
      OBVIOUS
    <3>1. p \in Semaphores
      BY ThreadingAssumption
    <3>2. CASE u = t
      BY ZenonT(60), <1>1, <1>7, <1>11, <3>1, <3>2 DEF Owns
    <3>3. CASE u # t
      BY Zenon, <1>1, <1>7, <1>11, <3>1, <3>3 DEF Owns
    <3> QED BY <3>2, <3>3
  <2>3. \A p \in Mutexes \ {s} : MutexCount(p)'
    <3> SUFFICES ASSUME NEW p \in Mutexes \ {s} PROVE MutexCount(p)'
      OBVIOUS
    <3>1. MutexCount(p)
      BY DEF IInv, CountInv
    <3>2. k'.value[p] = k.value[p] /\ k'.waiters[p] = k.waiters[p]
      BY Zenon, <1>6, ThreadingAssumption
    <3> QED BY <2>1, <2>2, <3>1, <3>2 DEF MutexCount
  <2>4. s \in Mutexes => MutexCount(s)'
    <3> SUFFICES ASSUME s \in Mutexes PROVE MutexCount(s)'
      OBVIOUS
    <3>1. (\E u \in Threads : Owns(u, s)) /\ MutexCount(s)
      BY Zenon, <1>2, <1>3 DEF IInv, CountInv
    <3>2. k'.value[s] = 0 - Len(k'.waiters[s])
      <4>1. k'.value[s] = v - 1 /\ k'.waiters[s] = Append(q, t)
        BY Zenon, <1>6
      <4> QED BY <1>5, <4>1
    <3> QED BY <2>1, <2>2, <3>1, <3>2 DEF MutexCount
  <2>5. \A p \in Events \ {s} : EventCount(p)'
    BY Zenon, <1>6, ThreadingAssumption DEF IInv, CountInv, EventCount
  <2>6. EventCount(s)'
    BY <1>5, <1>6 DEF EventCount
  <2> QED BY Zenon, <2>3, <2>4, <2>5, <2>6 DEF CountInv
<1> QED BY <1>8, <1>9, <1>10, <1>12, <1>13 DEF IInv

-----------------------------------------------------------------------------

(* Every step of a thread or of an exception handler preserves the         *)
(* invariant.                                                              *)
LEMMA NextStep == FewThreads /\ IInv /\ [Next]_vars => IInv'
<1> SUFFICES ASSUME FewThreads, IInv, [Next]_vars PROVE IInv'
  OBVIOUS
<1>1. CASE UNCHANGED vars
  <2> USE <1>1 DEF vars
  <2>1. TypeOK' /\ RunQueueExact' /\ RunsReadyThread'
    BY Zenon DEF IInv, TypeOK, RunQueueExact, RunsReadyThread, Entered, Leaving
  <2>2. SignalInv'
    BY DEF IInv, SignalInv, SignalAt
  <2>3. QueuedOnce' /\ QueuedBlocked' /\ BlockedQueued' /\ WaitsEmptyHanded'
    <3>1. QueuedOnce' /\ QueuedBlocked'
      BY Zenon DEF IInv, WaitInv, QueuedOnce, QueuedBlocked
    <3>2. BlockedQueued' /\ WaitsEmptyHanded'
      BY DEF IInv, WaitInv, BlockedQueued, WaitsEmptyHanded
    <3> QED BY Zenon, <3>1, <3>2
  <2>4. CountInv'
    <3>1. \A m \in Mutexes, u \in Threads : Owns(u, m)' <=> Owns(u, m)
      BY DEF Owns
    <3>2. \A m \in Mutexes : InSignal(m)' = InSignal(m)
      BY Zenon DEF InSignal
    <3> QED BY <3>1, <3>2, CountKept
  <2> QED BY <2>1, <2>2, <2>3, <2>4 DEF IInv, WaitInv
<1>2. CASE PendSV
  BY <1>2, PendSVStep
<1>3. CASE \E e \in Events : Interrupt(e)
  BY <1>3, InterruptStep
<1>4. CASE IdleLoop
  BY <1>1, <1>4 DEF IdleLoop
<1>5. ASSUME NEW t \in Threads, ThreadStep(t) PROVE IInv'
  <2>1. CASE \E s \in Semaphores : Wait(t, s)
    BY <2>1, WaitPassesStep, WaitBlocksStep
  <2>2. CASE WaitReturns(t)
    BY <2>2, WaitReturnsStep
  <2>3. CASE \E s \in Mutexes : SignalLoad(t, s)
    BY <2>3, SignalLoadStep
  <2>4. CASE SignalStore(t)
    BY <2>4, SignalStoreStep
  <2>5. CASE SignalFirst(t)
    BY <2>5, SignalFirstStep
  <2>6. CASE SignalDelete(t)
    BY <2>6, SignalDeleteStep
  <2>7. CASE WakeupRead(t)
    BY <2>7, WakeupReadStep
  <2>8. CASE WakeupWrite(t)
    BY <2>8, WakeupWriteStep
  <2>9. CASE WakeupQueue(t)
    BY <2>9, WakeupQueueStep
  <2>10. CASE \E u \in Threads : Spawn(t, u)
    BY <2>10, SpawnStep
  <2>11. CASE ParkRead(t)
    BY <2>11, ParkReadStep
  <2>12. CASE ParkWrite(t)
    BY <2>12, ParkWriteStep
  <2>13. CASE ParkQueue(t)
    BY <2>13, ParkQueueStep
  <2> QED BY <1>5, <2>1, <2>2, <2>3, <2>4, <2>5, <2>6, <2>7, <2>8, <2>9, <2>10, <2>11,
             <2>12, <2>13 DEF ThreadStep
<1> QED BY <1>1, <1>2, <1>3, <1>4, <1>5 DEF Next

-----------------------------------------------------------------------------

(* semaphore.h, line 40: a step takes the first waitee out of a queue,     *)
(* appends the current thread to it, or leaves it alone.                   *)
QueueStep(s) ==
    \/ k'.waiters[s] = k.waiters[s]
    \/ k.waiters[s] # <<>> /\ k'.waiters[s] = Tail(k.waiters[s])
    \/ k'.waiters[s] = Append(k.waiters[s], k.current)

(* Every step leaves a semaphore's queue alone, takes its first thread or  *)
(* adds the running one at its end.                                        *)
LEMMA QueueSteps == IInv /\ Next => \A s \in Semaphores : QueueStep(s)
<1> SUFFICES ASSUME IInv, Next, NEW s \in Semaphores PROVE QueueStep(s)
  OBVIOUS
<1>0. KernelType(k) /\ IsInjective(k.queue) /\ k.waiters \in [Semaphores -> Seq(Threads)]
  BY Zenon, KernelOK DEF KernelType
<1>1. CASE PendSV
  <2>1. k'.waiters = k.waiters
    BY <1>0, <1>1, ExactForSchedule, ScheduleEffect DEF PendSV, Scheduled
  <2> QED BY Zenon, <2>1 DEF QueueStep
<1>2. ASSUME NEW e \in Events, Interrupt(e) PROVE QueueStep(s)
  <2>1. /\ e \in Semaphores /\ IsInjective(k.waiters[e])
        /\ k' = semaphore_signal(k, e) /\ k.value[e] < MaxEvents
    BY Zenon, <1>2, ThreadingAssumption, KernelParts DEF Interrupt, QueuedOnce
  <2>2. k.value[e] \in -Cardinality(Threads)..MaxEvents
    BY Zenon, <2>1, KernelOK
  <2>3. k.value[e] \in -128..126
    BY Zenon, <2>1, <2>2, EventValue
  <2>4. /\ k.waiters[e] = <<>> => k'.waiters = k.waiters
        /\ k.waiters[e] # <<>> => k'.waiters = [k.waiters EXCEPT ![e] = Tail(k.waiters[e])]
    <3>1. Raised(k, e, k')
      BY Zenon, <1>0, <2>1, <2>3, RaiseEffect
    <3> QED BY Zenon, <3>1 DEF Raised
  <2> QED BY Zenon, <1>0, <2>4 DEF QueueStep
<1>3. CASE IdleLoop
  BY <1>3 DEF IdleLoop, vars, QueueStep
<1>4. ASSUME NEW t \in Threads, ThreadStep(t) PROVE QueueStep(s)
  <2>1. ASSUME NEW p \in Semaphores, Wait(t, p) PROVE QueueStep(s)
    <3>1. At(t, "run") /\ (p \in Mutexes => holds[t] = {}) /\ k.current = t
          /\ k' = semaphore_wait(k, p)
      BY Zenon, <2>1 DEF Wait, At
    <3>2. Found(t, p)
      BY <3>1, Waiting
    <3>3. CASE must_wait(k, p)
      <4>1. Blocked(k, p, t, k')
        BY <3>1, <3>2, <3>3, FoundBlocks
      <4>2. k'.waiters = [k.waiters EXCEPT ![p] = Append(k.waiters[p], t)]
        BY <4>1 DEF Blocked
      <4> QED BY <3>1, <4>2 DEF QueueStep
    <3>4. CASE ~must_wait(k, p)
      <4>1. Passed(k, p, k')
        BY Zenon, <3>1, <3>2, <3>4, FoundPasses
      <4> QED BY Zenon, <4>1 DEF Passed, QueueStep
    <3> QED BY Zenon, <3>3, <3>4
  <2>2. CASE WaitReturns(t) \/ (\E p \in Mutexes : SignalLoad(t, p)) \/ SignalFirst(t)
             \/ WakeupRead(t) \/ ParkRead(t) \/ \E u \in Threads : Spawn(t, u)
    BY <2>2 DEF WaitReturns, SignalLoad, SignalFirst, WakeupRead, ParkRead, Spawn, QueueStep
  <2>3. CASE SignalStore(t)
    <3>1. k'.waiters = k.waiters
      BY <2>3 DEF SignalStore, signal_store
    <3> QED BY <3>1 DEF QueueStep
  <2>4. CASE SignalDelete(t)
    <3>1. PICK p : p = sem[t]
      OBVIOUS
    <3>2. /\ p \in Semaphores /\ k.waiters[p] # <<>> /\ IsInjective(k.waiters[p])
          /\ k' = signal_dequeue(k, p)
      BY Zenon, <2>4, <3>1, LocalParts, KernelParts
         DEF SignalDelete, At, IInv, SignalInv, SignalAt, QueuedOnce
    <3>3. k'.waiters = [k.waiters EXCEPT ![p] = Tail(k.waiters[p])]
      BY Zenon, <1>0, <3>2, DequeueEffect DEF Dequeued
    <3>4. k.waiters \in [Semaphores -> Seq(Threads)]
      BY Zenon, KernelParts
    <3>5. CASE s = p
      BY Zenon, <3>2, <3>3, <3>4, <3>5 DEF QueueStep
    <3>6. CASE s # p
      BY Zenon, <3>2, <3>3, <3>4, <3>6 DEF QueueStep
    <3> QED BY Zenon, <3>5, <3>6
  <2>5. CASE WakeupWrite(t) \/ ParkWrite(t)
    <3>1. PICK u, st : k' = [k EXCEPT !.state[u] = st]
      BY Zenon, <2>5 DEF WakeupWrite, ParkWrite
    <3>2. k'.waiters = k.waiters
      BY <1>0, <3>1 DEF KernelType
    <3> QED BY <3>2 DEF QueueStep
  <2>6. CASE WakeupQueue(t) \/ ParkQueue(t)
    <3>1. PICK u, old, new : k' = scheduler_thread_changed_state(k, u, old, new)
      BY Zenon, <2>6 DEF WakeupQueue, ParkQueue
    <3>2. k'.waiters = k.waiters
      BY <1>0, <3>1 DEF KernelType, scheduler_thread_changed_state
    <3> QED BY <3>2 DEF QueueStep
  <2> QED BY <1>4, <2>1, <2>2, <2>3, <2>4, <2>5, <2>6 DEF ThreadStep
<1> QED BY <1>1, <1>2, <1>3, <1>4 DEF Next

INSTANCE FiniteSetTheorems

(* At most all the threads are in a queue that holds none twice.           *)
LEMMA Pigeonhole == FewThreads
<1> SUFFICES ASSUME NEW q \in Seq(Threads), IsInjective(q)
             PROVE  Len(q) <= Cardinality(Threads)
  BY DEF FewThreads
<1>1. q \in Injection(1..Len(q), Threads)
  BY DEF Injection
<1>3. Cardinality(1..Len(q)) = IF 1 > Len(q) THEN 0 ELSE Len(q) - 1 + 1
  BY FS_Interval
<1>4. Cardinality(1..Len(q)) = Len(q)
  BY <1>3
<1> QED BY <1>1, <1>4, FS_Injection, ThreadingAssumption

(* The inductive invariant holds in every reachable state.                 *)
LEMMA Invariance == Spec => []IInv
BY InitStep, NextStep, Pigeonhole, PTL DEF Spec

(* Type correctness; no int8_t value of a semaphore ever overflows.        *)
THEOREM TypeCorrect == Spec => []TypeOK
<1>1. IInv => TypeOK
  BY DEF IInv
<1> QED BY <1>1, Invariance, PTL

(* The run queue holds exactly the RUNNING threads, each of them once,     *)
(* whenever schedule runs, and differs from them at other times only by    *)
(* the thread whose thread_set_state is between its write and the lock.    *)
THEOREM RunQueueCorrect == Spec => []RunQueueExact
<1>1. IInv => RunQueueExact
  BY DEF IInv
<1> QED BY <1>1, Invariance, PTL

(* The processor executes a RUNNING thread, or one about to give it up in  *)
(* thread_block, and idles only when the run queue is empty.               *)
THEOREM ReadyThreadCorrect == Spec => []RunsReadyThread
<1>1. IInv => RunsReadyThread
  BY Zenon DEF IInv
<1> QED BY <1>1, Invariance, PTL

(* At most one thread holds a mutex, whatever interrupts and threads do    *)
(* between the steps of semaphore_signal.                                  *)
THEOREM MutexCorrect == Spec => []MutualExclusion
<1>1. IInv => MutualExclusion
  <2> SUFFICES ASSUME IInv, NEW t \in Threads, NEW u \in Threads, t # u,
                      NEW m, m \in holds[t], m \in holds[u]
               PROVE  FALSE
    BY DEF MutualExclusion
  <2>1. m \in Mutexes
    BY Zenon DEF IInv, TypeOK
  <2> QED BY <2>1 DEF IInv, CountInv, MutexCount, Owns
<1> QED BY <1>1, Invariance, PTL

(* The value of a semaphore and its queue agree, up to the one signal a    *)
(* thread may be in the middle of.                                         *)
THEOREM SemaphoreCorrect == Spec => []NoLostWakeup
<1>1. IInv => NoLostWakeup
  <2> SUFFICES ASSUME IInv, NEW s \in Semaphores
               PROVE  LET v == k.value[s] - InSignal(s)
                      IN  Len(k.waiters[s]) = IF v < 0 THEN -v ELSE 0
    BY DEF NoLostWakeup
  <2>1. k.value[s] \in Int /\ Len(k.waiters[s]) \in Nat
    BY KernelOK
  <2>2. InSignal(s) \in {0, 1}
    BY Zenon DEF InSignal
  <2>3. InSignal(s) = 1 => s \in Mutexes /\ \E t \in Threads : Owns(t, s)
    BY DEF InSignal, IInv, SignalInv, SignalAt, TypeOK, Owns
  <2>4. CASE s \in Events
    <3>1. InSignal(s) = 0
      BY <2>2, <2>3, <2>4, ThreadingAssumption
    <3>2. EventCount(s)
      BY Zenon, <2>4 DEF IInv, CountInv
    <3> QED BY <2>1, <3>1, <3>2 DEF EventCount
  <2>5. CASE s \in Mutexes
    <3>1. MutexCount(s)
      BY <2>5 DEF IInv, CountInv
    <3>2. CASE \E t \in Threads : Owns(t, s)
      <4>1. k.value[s] - InSignal(s) = 0 - Len(k.waiters[s])
        BY <2>2, <3>1, <3>2 DEF MutexCount
      <4> QED BY <4>1
    <3>3. CASE \A t \in Threads : ~Owns(t, s)
      <4>1. InSignal(s) = 0 /\ k.value[s] = 1 /\ Len(k.waiters[s]) = 0
        BY Zenon, <2>2, <2>3, <3>1, <3>3 DEF MutexCount
      <4> QED BY <4>1
    <3> QED BY <3>2, <3>3
  <2> QED BY <2>4, <2>5, ThreadingAssumption
<1> QED BY <1>1, Invariance, PTL

(* Whoever is BLOCKED is queued on its semaphore, about to be woken, or    *)
(* parked for good; whoever is queued is BLOCKED.                          *)
THEOREM BlockedCorrect == Spec => []BlockedIsWaiting
<1>1. IInv => BlockedIsWaiting
  <2>1. IInv => \A t \in Threads : sem[t] \in Semaphores
    BY DEF IInv, TypeOK
  <2>2. IInv => QueuedBlocked /\ BlockedQueued
    BY DEF IInv, WaitInv
  <2> QED BY <2>1, <2>2 DEF QueuedBlocked, BlockedQueued, BlockedIsWaiting
<1> QED BY <1>1, Invariance, PTL

(* Waitees are woken in the order in which they began to wait.             *)
THEOREM OrderCorrect == Spec => WokenInOrder
<1>1. IInv /\ [Next]_vars =>
        [\A s \in Semaphores :
            LET q == k.waiters[s]
            IN  \/ k'.waiters[s] = q
                \/ q # <<>> /\ k'.waiters[s] = Tail(q)
                \/ k'.waiters[s] = Append(q, k.current)]_vars
  BY QueueSteps DEF QueueStep
<1> QED BY <1>1, Invariance, PTL DEF Spec, WokenInOrder
==============================================================================
