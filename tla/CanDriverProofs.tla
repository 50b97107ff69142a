--------------------------- MODULE CanDriverProofs ---------------------------
(***************************************************************************)
(* CanDriver's send_lock comes back, and CanDriver implements CanSpec, for *)
(* any number of threads an int8_t can count.                              *)
(*                                                                         *)
(* The argument counts: send_lock's value and the threads that have taken  *)
(* the lock or wait for it make at least one, unless an answer of the      *)
(* interrupt, which nobody else disturbs, is about to give the lock back;  *)
(* and no more than one and three for every answer so far.                 *)
(***************************************************************************)
EXTENDS CanDriver, KernelProofs

Labels == {"idle", "locked", "transmit", "sending", "out", "store", "first", "delete", "wake"}

TypeInv ==
    /\ pc \in [Threads -> Labels]
    /\ reg \in [Threads -> Int] /\ waitee \in [Threads -> Threads \cup {Idle}]
    /\ send_async \in BOOLEAN /\ txirq \in BOOLEAN
    /\ object \in Threads \cup {NoFrame, Response} /\ requests \in 0..MaxRequests

(* The kernel's state is in order: whoever is queued is BLOCKED and queued *)
(* once.  A thread that has been taken out of a queue need not have been   *)
(* woken: UnlockDelete may take out another one than UnlockWake wakes.     *)
Queued(K) ==
    /\ KernelType(K) /\ QueueExact(K)
    /\ \A s \in Semaphores : IsInjective(K.waiters[s])
    /\ \A s \in Semaphores : \A t \in Range(K.waiters[s]) : K.state[t] = "blocked"
    /\ \A r, s \in Semaphores : \A t \in Range(K.waiters[r]) :
          t \in Range(K.waiters[s]) => r = s
    /\ \A t \in Threads : K.current = t /\ ~K.pendsv => K.state[t] = "running"

(* A queue's threads are at the point of the code that the queue is for.   *)
KernelInv ==
    /\ Queued(k)
    /\ \A t \in Range(k.waiters[SendLock]) : pc[t] = "locked"
    /\ \A t \in Range(k.waiters[SendDone]) : pc[t] = "out"

\* Nobody else runs before a thread at one of these points goes on.
RunInv ==
    \A t \in Threads :
        pc[t] \in {"transmit", "sending", "store", "first", "delete", "wake"} =>
            k.current = t /\ ~k.pendsv

(* The thread that UnlockWake will wake has left the queue by then.        *)
WaiteeInv ==
    \A t \in Threads : pc[t] \in {"delete", "wake"} =>
        /\ waitee[t] \in Threads /\ pc[waitee[t]] = "locked"
        /\ waitee[t] \in Range(k.waiters[SendLock]) =>
              pc[t] = "delete" /\ waitee[t] = Head(k.waiters[SendLock])

-----------------------------------------------------------------------------

Bit(b) == IF b THEN 1 ELSE 0

\* The threads that have decremented send_lock and not given it back.
Takers == {t \in Threads : pc[t] \in {"locked", "transmit", "sending", "out", "store"}}

\* send_lock's value and its takers.
Shares == k.value[SendLock] + Cardinality(Takers)

\* The thread t has the lock.
Active(t) ==
    \/ pc[t] \in {"transmit", "sending", "out", "store"}
    \/ pc[t] = "locked" /\ t \notin Range(k.waiters[SendLock])

Transmitting == \E t \in Threads : pc[t] = "transmit"
Sending == \E t \in Threads : pc[t] = "sending"

\* The transmit interrupts to come, ...
Pending == Bit(object # NoFrame) + Bit(txirq)

\* ... and those, at most, that will give the lock back.
Owed == IF send_async THEN Pending + Bit(Transmitting) ELSE 0

LockInv ==
    /\ \/ Shares >= 1
       \/ /\ Shares = 0 /\ send_async /\ Pending >= 1 /\ \A t \in Threads : ~Active(t)
          /\ \A t \in Threads : pc[t] \in {"first", "delete"} => Takers = {}
    /\ Shares + Owed <= 1 + 3 * requests
    /\ \A t \in Threads : pc[t] = "store" =>
          /\ reg[t] + Cardinality(Takers) >= 1
          /\ reg[t] + Cardinality(Takers) + Owed <= 1 + 3 * requests

DoneInv ==
    /\ k.value[SendDone] + Len(k.waiters[SendDone]) >= 0
    /\ k.value[SendDone] + Pending <= requests + Bit(Sending)

(* As long as only threads send, one of them at most has the lock; every   *)
(* frame is its own, and send_done is signalled once for it.               *)
AloneInv ==
    /\ ~send_async
    /\ \A t, u \in Threads : Active(t) /\ Active(u) => t = u
    /\ \A t, u \in Threads : pc[t] \in {"first", "delete"} => ~Active(u)
    /\ object # NoFrame => ~txirq
    /\ k.value[SendDone] + Pending >= Bit(Sending)

Core ==
    /\ TypeInv /\ KernelInv /\ RunInv /\ WaiteeInv /\ LockInv /\ DoneInv
    /\ requests = 0 => AloneInv

IInv == undefined = "no" => Core

(* What the argument needs of numbers of threads.  ThreadsCount proves it, *)
(* below, where the library's theorems on finite sets are at hand.         *)
Counting ==
    /\ \A q \in Seq(Threads) : IsInjective(q) => Len(q) <= Cardinality(Threads)
    /\ \A S \in SUBSET Threads :
          /\ Cardinality(S) \in Nat /\ Cardinality(S) <= Cardinality(Threads)
          /\ Cardinality(S) = 0 <=> S = {}
          /\ \A t \in Threads \ S : Cardinality(S \cup {t}) = Cardinality(S) + 1
          /\ \A t \in S : Cardinality(S \ {t}) = Cardinality(S) - 1

-----------------------------------------------------------------------------

LEMMA Constants ==
    /\ SendLock \in Semaphores /\ SendDone \in Semaphores /\ SendLock # SendDone
    /\ \A s \in Semaphores : s = SendLock \/ s = SendDone
  BY CanAssumption

LEMMA QueuedTypes ==
    ASSUME NEW K, Queued(K)
    PROVE  /\ K.state \in [Threads \cup {Idle} -> ThreadState]
           /\ K.value \in [Semaphores -> Int] /\ K.waiters \in [Semaphores -> Seq(Threads)]
           /\ K.current \in Threads \cup {Idle} /\ K.pendsv \in BOOLEAN
           /\ \A s \in Semaphores : Range(K.waiters[s]) \subseteq Threads
<1>1. /\ K.state \in [Threads \cup {Idle} -> ThreadState]
      /\ K.value \in [Semaphores -> Int] /\ K.waiters \in [Semaphores -> Seq(Threads)]
      /\ K.current \in Threads \cup {Idle} /\ K.pendsv \in BOOLEAN
  BY DEF Queued, KernelType
<1>. QED BY <1>1 DEF Range

Signals(K, s, K2) ==
    /\ Queued(K2) /\ K2.current = K.current
    /\ K2.value[s] = K.value[s] + 1
    /\ Range(K2.waiters[s]) \subseteq Range(K.waiters[s])
    /\ Len(K2.waiters[s]) >= Len(K.waiters[s]) - 1
    /\ Len(K2.waiters[s]) \in Nat
    /\ K.waiters[s] # <<>> => Head(K.waiters[s]) \notin Range(K2.waiters[s])
    /\ \A r \in Semaphores : r # s =>
          K2.value[r] = K.value[r] /\ K2.waiters[r] = K.waiters[r]
    /\ K.current # Idle => (K2.pendsv <=> K.pendsv)

Waits(K, s, t, K2) ==
    /\ Queued(K2) /\ K2.current = t
    /\ K2.value[s] = K.value[s] - 1
    /\ \A r \in Semaphores : r # s =>
          K2.value[r] = K.value[r] /\ K2.waiters[r] = K.waiters[r]
    /\ \/ K.value[s] >= 1 /\ ~K2.pendsv /\ K2.waiters[s] = K.waiters[s]
       \/ /\ K.value[s] <= 0 /\ K2.pendsv
          /\ Range(K2.waiters[s]) = Range(K.waiters[s]) \cup {t}
          /\ Len(K2.waiters[s]) = Len(K.waiters[s]) + 1

(* What semaphore_signal does to the semaphore s, and leaves of the other. *)
LEMMA QueuedSignal ==
    ASSUME NEW K, Queued(K), NEW s \in Semaphores, K.value[s] \in -128..126
    PROVE  Signals(K, s, semaphore_signal(K, s))
<1> SUFFICES ASSUME NEW K2, K2 = semaphore_signal(K, s)
             PROVE  Signals(K, s, K2)
  OBVIOUS
<1>0. /\ K.state \in [Threads \cup {Idle} -> ThreadState]
      /\ K.value \in [Semaphores -> Int] /\ K.waiters \in [Semaphores -> Seq(Threads)]
      /\ \A r \in Semaphores : Range(K.waiters[r]) \subseteq Threads
  BY QueuedTypes
<1>1. Signalled(K, s, K2)
  BY Zenon, SignalEffect DEF Queued
<1>2. CASE K.waiters[s] = <<>>
  <2>1. K2.state = K.state /\ K2.waiters = K.waiters /\ K2.pendsv = K.pendsv
    BY <1>1, <1>2 DEF Signalled
  <2>2. Queued(K2)
    <3>1. KernelType(K2) /\ QueueExact(K2) /\ K2.current = K.current
      BY <1>1 DEF Signalled
    <3>. QED  BY <2>1, <3>1 DEF Queued
  <2>3. Range(K2.waiters[s]) = {} /\ Len(K2.waiters[s]) = 0 /\ Len(K.waiters[s]) = 0
    BY <1>2, <2>1 DEF Range
  <2>4. Len(K2.waiters[s]) >= Len(K.waiters[s]) - 1 /\ Len(K2.waiters[s]) \in Nat
    BY <2>3
  <2>5. K2.value[s] = K.value[s] + 1 /\ \A r \in Semaphores : r # s => K2.value[r] = K.value[r]
    BY <1>0, <1>1 DEF Signalled
  <2>6. K2.waiters[s] = <<>> /\ K2.current = K.current
    BY <1>1, <1>2 DEF Signalled
  <2>. QED BY Zenon, <2>1, <2>2, <2>3, <2>4, <2>5, <2>6 DEF Signals
<1>3. CASE K.waiters[s] # <<>>
  <2> DEFINE h == Head(K.waiters[s])
  <2>1. /\ K2.state = [K.state EXCEPT ![h] = "running"]
        /\ K2.waiters = [K.waiters EXCEPT ![s] = Tail(K.waiters[s])]
        /\ K2.pendsv <=> (K.pendsv \/ K.current = Idle)
    BY <1>1, <1>3 DEF Signalled
  <2>2. K.waiters[s] \in Seq(Threads) /\ IsInjective(K.waiters[s])
    BY <1>0 DEF Queued
  <2>3. /\ IsInjective(Tail(K.waiters[s])) /\ h \in Threads /\ h \in Range(K.waiters[s])
        /\ Range(Tail(K.waiters[s])) = Range(K.waiters[s]) \ {h}
        /\ Len(Tail(K.waiters[s])) = Len(K.waiters[s]) - 1
        /\ Tail(K.waiters[s]) \in Seq(Threads)
    BY <2>2, <1>3, TailProperties
  <2> HIDE DEF h
  <2>4. /\ K2.waiters[s] = Tail(K.waiters[s])
        /\ \A r \in Semaphores : r # s => K2.waiters[r] = K.waiters[r]
        /\ \A t \in Threads : K2.state[t] = IF t = h THEN "running" ELSE K.state[t]
    BY <2>1, <1>0
  <2>5. \A r \in Semaphores : h \notin Range(K2.waiters[r])
    BY <2>3, <2>4 DEF Queued
  <2>6. Queued(K2)
    <3>1. \A r \in Semaphores : IsInjective(K2.waiters[r])
                                /\ Range(K2.waiters[r]) \subseteq Range(K.waiters[r])
      BY <2>3, <2>4 DEF Queued
    <3>2. \A r \in Semaphores : \A t \in Range(K2.waiters[r]) : K2.state[t] = "blocked"
      <4>1. TAKE r \in Semaphores
      <4>2. TAKE t \in Range(K2.waiters[r])
      <4>3. t \in Range(K.waiters[r]) /\ t \in Threads /\ t # h
        BY <3>1, <2>5, <1>0
      <4>4. K.state[t] = "blocked"
        BY <4>3 DEF Queued
      <4>. QED  BY <4>3, <4>4, <2>4
    <3>4. \A t \in Threads : K2.current = t /\ ~K2.pendsv => K2.state[t] = "running"
      BY <1>1, <2>4 DEF Queued, Signalled
    <3>. QED BY Zenon, <1>1, <3>1, <3>2, <3>4 DEF Queued, Signalled
  <2>9. K2.value[s] = K.value[s] + 1 /\ \A r \in Semaphores : r # s => K2.value[r] = K.value[r]
    BY <1>0, <1>1 DEF Signalled
  <2>. QED
    BY <1>1, <2>3, <2>4, <2>6, <2>9 DEF Signalled, Signals, h
<1>. QED  BY <1>2, <1>3

(* A running thread is in no queue.                                        *)
LEMMA CurrentFree ==
    ASSUME NEW K, Queued(K), NEW t \in Threads, K.current = t, ~K.pendsv, NEW s \in Semaphores
    PROVE  t \notin Range(K.waiters[s])
  BY DEF Queued

(* semaphore_wait of the running thread t: it passes, or it is the last of *)
(* the queue.                                                              *)
LEMMA QueuedWait ==
    ASSUME NEW K, Queued(K), NEW s \in Semaphores, K.value[s] \in -127..127,
           NEW t \in Threads, K.current = t, ~K.pendsv
    PROVE  Waits(K, s, t, semaphore_wait(K, s))
<1> SUFFICES ASSUME NEW K2, K2 = semaphore_wait(K, s)
             PROVE  Waits(K, s, t, K2)
  OBVIOUS
<1>0. /\ K.state \in [Threads \cup {Idle} -> ThreadState]
      /\ K.value \in [Semaphores -> Int] /\ K.waiters \in [Semaphores -> Seq(Threads)]
      /\ \A r \in Semaphores : Range(K.waiters[r]) \subseteq Threads
  BY Zenon, QueuedTypes
<1>1. \A r \in Semaphores : t \notin Range(K.waiters[r])
  BY Zenon, CurrentFree
<1>2. Passed(K, s, K2) \/ Blocked(K, s, t, K2)
  BY Zenon, WaitEffect DEF Queued
<1>3. CASE Passed(K, s, K2)
  <2>1. Queued(K2)
    BY <1>3 DEF Queued, Passed
  <2>. QED  BY <1>0, <1>3, <2>1 DEF Passed, Waits
<1>4. CASE Blocked(K, s, t, K2)
  <2>1. K.waiters[s] \in Seq(Threads) /\ IsInjective(K.waiters[s])
    BY <1>0 DEF Queued
  <2>2. list_append(K.waiters[s], t) = Append(K.waiters[s], t)
    <3>1. t \notin Range(K.waiters[s])
      BY <1>1
    <3>. QED  BY <3>1 DEF list_append, list_delete
  <2>3. /\ IsInjective(Append(K.waiters[s], t))
        /\ Range(Append(K.waiters[s], t)) = Range(K.waiters[s]) \cup {t}
        /\ Len(Append(K.waiters[s], t)) = Len(K.waiters[s]) + 1
    <3>1. /\ IsInjective(list_append(K.waiters[s], t))
          /\ Range(list_append(K.waiters[s], t)) = Range(K.waiters[s]) \cup {t}
      BY <2>1, AppendOnce
    <3>. QED BY <3>1, <2>2
  <2>4. /\ K2.waiters[s] = Append(K.waiters[s], t)
        /\ \A r \in Semaphores : r # s => K2.waiters[r] = K.waiters[r]
        /\ \A u \in Threads : K2.state[u] = IF u = t THEN "blocked" ELSE K.state[u]
        /\ K2.value[s] = K.value[s] - 1
        /\ \A r \in Semaphores : r # s => K2.value[r] = K.value[r]
    BY Zenon, <1>0, <1>4 DEF Blocked
  <2>5. Queued(K2)
    <3>1. \A r \in Semaphores : /\ IsInjective(K2.waiters[r])
                                /\ Range(K2.waiters[r]) \subseteq Threads
                                /\ r # s => Range(K2.waiters[r]) = Range(K.waiters[r])
      <4>1. TAKE r \in Semaphores
      <4>2. CASE r = s
        BY <4>2, <1>0, <2>3, <2>4
      <4>3. CASE r # s
        <5>1. IsInjective(K.waiters[r])
          BY DEF Queued
        <5>. QED  BY <4>3, <5>1, <1>0, <2>4
      <4>. QED BY Zenon, <4>2, <4>3
    <3>2. \A r \in Semaphores : \A u \in Range(K2.waiters[r]) :
             u \in Range(K.waiters[r]) \/ (u = t /\ r = s)
      <4>1. Range(K2.waiters[s]) = Range(K.waiters[s]) \cup {t}
        BY Zenon, <2>3, <2>4
      <4>. QED  BY <3>1, <4>1
    <3>3. \A r \in Semaphores : \A u \in Range(K2.waiters[r]) : K2.state[u] = "blocked"
      <4>1. TAKE r \in Semaphores
      <4>2. TAKE u \in Range(K2.waiters[r])
      <4>3. u \in Threads /\ (u = t \/ u \in Range(K.waiters[r]))
        BY <3>1, <3>2
      <4>4. u \in Range(K.waiters[r]) => K.state[u] = "blocked"
        BY DEF Queued
      <4>. QED  BY <4>3, <4>4, <2>4
    <3>4. \A q, r \in Semaphores : \A u \in Range(K2.waiters[q]) :
             u \in Range(K2.waiters[r]) => q = r
      <4>1. TAKE q, r \in Semaphores
      <4>2. \A u \in Range(K.waiters[q]) : u \in Range(K.waiters[r]) => q = r
        BY DEF Queued
      <4>3. t \notin Range(K.waiters[q]) /\ t \notin Range(K.waiters[r])
        BY <1>1
      <4>4. /\ \A u \in Range(K2.waiters[q]) : u \in Range(K.waiters[q]) \/ (u = t /\ q = s)
            /\ \A u \in Range(K2.waiters[r]) : u \in Range(K.waiters[r]) \/ (u = t /\ r = s)
        BY <3>2
      <4>. QED  BY <4>2, <4>3, <4>4
    <3>. QED BY Zenon, <1>4, <3>1, <3>3, <3>4 DEF Queued, Blocked
  <2>. QED BY Zenon, <1>4, <2>3, <2>4, <2>5 DEF Blocked, Waits
<1>. QED  BY <1>2, <1>3, <1>4

(* PendSV.                                                                 *)
LEMMA QueuedSchedule ==
    ASSUME NEW K, Queued(K)
    PROVE  /\ Queued(schedule(K))
           /\ schedule(K).value = K.value /\ schedule(K).waiters = K.waiters
<1> DEFINE K2 == schedule(K)
<1>1. Scheduled(K, K2)
  BY ScheduleEffect DEF Queued
<1> HIDE DEF K2
<1>2. Queued(K2)
  BY <1>1, IdleAssumption DEF Queued, Scheduled
<1>. QED  BY <1>1, <1>2 DEF Scheduled, K2

-----------------------------------------------------------------------------

(* Takers counts threads.                                                  *)
LEMMA TakersCount ==
    ASSUME Counting
    PROVE  /\ Cardinality(Takers) \in 0..126
           /\ Cardinality(Takers) = 0 <=> Takers = {}
<1>1. Takers \in SUBSET Threads
  BY DEF Takers
<1>2. /\ Cardinality(Takers) \in Nat /\ Cardinality(Takers) <= Cardinality(Threads)
      /\ Cardinality(Takers) = 0 <=> Takers = {}
  BY <1>1 DEF Counting
<1>3. Cardinality(Threads) \in 1..126
  BY CanAssumption
<1>4. Cardinality(Takers) \in 0..126
  BY <1>2, <1>3
<1>. QED  BY <1>2, <1>4

LEMMA ActiveTakes ==
    \A t \in Threads : Active(t) => t \in Takers
  BY DEF Active, Takers

LEMMA OwedType == Pending \in 0..2 /\ Owed \in 0..3 /\ Bit(Sending) \in 0..1
  BY DEF Pending, Owed, Bit

(* No semaphore's value overflows its int8_t.                              *)
LEMMA Bounds ==
    ASSUME Counting, Core
    PROVE  /\ k.value[SendLock] \in -126..121 /\ k.value[SendDone] \in -126..41
           /\ Len(k.waiters[SendDone]) \in Nat /\ requests \in 0..40
           /\ \A t \in Threads : pc[t] = "store" => reg[t] \in -125..121
<1>1. k.value[SendLock] \in Int /\ k.value[SendDone] \in Int
  BY QueuedTypes, Constants DEF Core, KernelInv
<1>10. k.waiters[SendDone] \in Seq(Threads)
  BY QueuedTypes, Constants DEF Core, KernelInv
<1>2. requests \in 0..40
  BY CanAssumption DEF Core, TypeInv
<1>3. IsInjective(k.waiters[SendDone])
  BY Constants DEF Core, KernelInv, Queued
<1>4. Len(k.waiters[SendDone]) \in Nat /\ Len(k.waiters[SendDone]) <= Cardinality(Threads)
  BY <1>10, <1>3 DEF Counting
<1>5. Cardinality(Threads) \in 1..126
  BY CanAssumption
<1>6. Cardinality(Takers) \in 0..126
  BY TakersCount
<1>7. k.value[SendLock] \in -126..121
  <2>1. Shares >= 0 /\ Shares + Owed <= 1 + 3 * requests
    <3>1. Shares \in Int
      BY <1>1, <1>6 DEF Shares
    <3>. QED  BY <3>1 DEF Core, LockInv
  <2>2. \A v \in Int : \A c \in 0..126, o \in 0..3, q \in 0..40 :
           v + c >= 0 /\ (v + c) + o <= 1 + 3 * q => v \in -126..121
    OBVIOUS
  <2>. QED BY Zenon, <1>1, <1>2, <1>6, <2>1, <2>2, OwedType DEF Shares
<1>8. k.value[SendDone] \in -126..41
  <2>1. /\ k.value[SendDone] + Len(k.waiters[SendDone]) >= 0
        /\ k.value[SendDone] + Pending <= requests + Bit(Sending)
    BY DEF Core, DoneInv
  <2>2. \A v \in Int : \A n \in Nat, p \in 0..2, q \in 0..40, b \in 0..1 :
           v + n >= 0 /\ n <= 126 /\ v + p <= q + b => v \in -126..41
    OBVIOUS
  <2>3. Len(k.waiters[SendDone]) <= 126
    <3>2. Cardinality(Threads) \in Nat /\ Cardinality(Threads) <= 126
      BY <1>5
    <3>. QED BY <3>2, <1>4
  <2>. QED BY Zenon, <1>1, <1>2, <1>4, <2>1, <2>2, <2>3, OwedType
<1>9. \A t \in Threads : pc[t] = "store" => reg[t] \in -125..121
  <2>1. SUFFICES ASSUME NEW t \in Threads, pc[t] = "store"
                 PROVE  reg[t] \in -125..121
    OBVIOUS
  <2>2. reg[t] \in Int
    BY DEF Core, TypeInv
  <2>3. /\ reg[t] + Cardinality(Takers) >= 1
        /\ reg[t] + Cardinality(Takers) + Owed <= 1 + 3 * requests
    BY <2>1 DEF Core, LockInv
  <2>4. \A v \in Int : \A c \in 0..126, o \in 0..3, q \in 0..40 :
           v + c >= 1 /\ v + c + o <= 1 + 3 * q => v \in -125..121
    OBVIOUS
  <2>. QED BY Zenon, <2>2, <2>3, <2>4, <1>2, <1>6, OwedType
<1>. QED BY Zenon, <1>2, <1>4, <1>7, <1>8, <1>9

(* So a value can be decremented and incremented.                          *)
LEMMA Fits ==
    ASSUME Counting, Core
    PROVE  /\ k.value[SendLock] \in -127..127 /\ k.value[SendLock] \in -128..126
           /\ k.value[SendDone] \in -127..127 /\ k.value[SendDone] \in -128..126
           /\ Len(k.waiters[SendDone]) \in Nat /\ requests \in Nat
           /\ \A t \in Threads : pc[t] = "store" => reg[t] \in -128..126
<1>1. \A v \in -126..121 : v \in -127..127 /\ v \in -128..126
  OBVIOUS
<1>2. \A v \in -126..41 : v \in -127..127 /\ v \in -128..126
  OBVIOUS
<1>3. \A v \in -125..121 : v \in -128..126
  OBVIOUS
<1>4. \A n \in 0..40 : n \in Nat
  OBVIOUS
<1>5. k.value[SendLock] \in -127..127 /\ k.value[SendLock] \in -128..126
  <2>1. k.value[SendLock] \in -126..121
    BY Zenon, Bounds
  <2>. QED BY <1>1, <2>1
<1>6. k.value[SendDone] \in -127..127 /\ k.value[SendDone] \in -128..126
  <2>1. k.value[SendDone] \in -126..41
    BY Zenon, Bounds
  <2>. QED BY <1>2, <2>1
<1>7. \A t \in Threads : pc[t] = "store" => reg[t] \in -128..126
  <2>1. \A t \in Threads : pc[t] = "store" => reg[t] \in -125..121
    BY Zenon, Bounds
  <2>. QED BY <1>3, <2>1
<1>8. Len(k.waiters[SendDone]) \in Nat /\ requests \in Nat
  BY Zenon, <1>4, Bounds
<1>. QED BY Zenon, <1>5, <1>6, <1>7, <1>8

-----------------------------------------------------------------------------

(* What a step of the running thread t to the label l leaves alone: the    *)
(* others are where interrupts and PendSV leave them.                      *)
LEMMA OneSteps ==
    ASSUME Counting, Core, NEW t \in Threads, k.current = t, NEW l \in Labels, Goto(t, l)
    PROVE  /\ pc' \in [Threads -> Labels] /\ pc'[t] = l
           /\ \A u \in Threads : u # t => pc'[u] = pc[u] /\ pc[u] \in {"idle", "locked", "out"}
           /\ Transmitting <=> pc[t] = "transmit"
           /\ Sending <=> pc[t] = "sending"
           /\ Transmitting' <=> l = "transmit"
           /\ Sending' <=> l = "sending"
<1>1. pc \in [Threads -> Labels]
  BY DEF Core, TypeInv
<1>2. pc' \in [Threads -> Labels] /\ pc'[t] = l /\ \A u \in Threads : u # t => pc'[u] = pc[u]
  BY <1>1 DEF Goto
<1>3. \A u \in Threads : u # t => pc[u] \in {"idle", "locked", "out"}
  BY <1>1 DEF Core, RunInv, Labels
<1>. QED  BY <1>2, <1>3 DEF Transmitting, Sending

(* A thread joins the takers when it waits for the lock, leaves them when  *)
(* it has given it back, and stays what it is otherwise.                   *)
LEMMA TakersSteps ==
    ASSUME Counting, Core, NEW t \in Threads, NEW l \in Labels, Goto(t, l)
    PROVE  LET Taking == {"locked", "transmit", "sending", "out", "store"}
           IN  /\ pc[t] \notin Taking /\ l \in Taking =>
                     Takers' = Takers \cup {t} /\ Cardinality(Takers)' = Cardinality(Takers) + 1
               /\ pc[t] \in Taking /\ l \notin Taking =>
                     Takers' = Takers \ {t} /\ Cardinality(Takers)' = Cardinality(Takers) - 1
               /\ (pc[t] \in Taking <=> l \in Taking) =>
                     Takers' = Takers /\ Cardinality(Takers)' = Cardinality(Takers)
<1> DEFINE Taking == {"locked", "transmit", "sending", "out", "store"}
<1>1. pc \in [Threads -> Labels]
  BY DEF Core, TypeInv
<1>2. pc'[t] = l /\ \A u \in Threads : u # t => pc'[u] = pc[u]
  BY <1>1 DEF Goto
<1>3. Takers \in SUBSET Threads
  BY DEF Takers
<1>4. ASSUME pc[t] \notin Taking, l \in Taking
      PROVE  Takers' = Takers \cup {t} /\ Cardinality(Takers)' = Cardinality(Takers) + 1
  <2>1. Takers' = Takers \cup {t} /\ t \notin Takers
    BY <1>2, <1>4 DEF Takers
  <2>2. Cardinality(Takers \cup {t}) = Cardinality(Takers) + 1
    BY <2>1, <1>3 DEF Counting
  <2>. QED  BY <2>1, <2>2
<1>5. ASSUME pc[t] \in Taking, l \notin Taking
      PROVE  Takers' = Takers \ {t} /\ Cardinality(Takers)' = Cardinality(Takers) - 1
  <2>1. Takers' = Takers \ {t} /\ t \in Takers
    BY <1>2, <1>5 DEF Takers
  <2>2. Cardinality(Takers \ {t}) = Cardinality(Takers) - 1
    BY <2>1, <1>3 DEF Counting
  <2>. QED  BY <2>1, <2>2
<1>6. ASSUME pc[t] \in Taking <=> l \in Taking
      PROVE  Takers' = Takers /\ Cardinality(Takers)' = Cardinality(Takers)
  <2>1. Takers' = Takers
    BY <1>2, <1>6 DEF Takers
  <2>. QED  BY <2>1
<1>. QED  BY <1>4, <1>5, <1>6

(* Nobody but the running thread is anywhere else than where a thread may  *)
(* be left, and nobody else is giving the lock back.                       *)
LEMMA OneRuns ==
    ASSUME Counting, Core, NEW t \in Threads, k.current = t, NEW l \in Labels, Goto(t, l),
           l \in {"idle", "locked", "out"} \/ (k'.current = t /\ ~k'.pendsv)
    PROVE  RunInv' /\ (l \notin {"delete", "wake"} => WaiteeInv')
<1>1. /\ pc'[t] = l
      /\ \A u \in Threads : u # t => pc'[u] \in {"idle", "locked", "out"}
  BY OneSteps
<1>2. RunInv'
  BY <1>1 DEF RunInv
<1>3. l \notin {"delete", "wake"} => WaiteeInv'
  BY <1>1 DEF WaiteeInv
<1>. QED  BY <1>2, <1>3

LEMMA SharesType ==
    ASSUME Counting, Core
    PROVE  /\ Shares \in Int /\ k.value[SendLock] \in Int /\ k.value[SendDone] \in Int
           /\ Cardinality(Takers) \in Nat
           /\ requests \in Nat /\ Len(k.waiters[SendDone]) \in Nat
<1>1. requests \in Nat /\ Len(k.waiters[SendDone]) \in Nat
  BY Zenon, Fits
<1>2. Cardinality(Takers) \in Nat
  BY TakersCount
<1>3. k.value[SendLock] \in Int /\ k.value[SendDone] \in Int
  BY QueuedTypes, Constants DEF Core, KernelInv
<1>4. Shares \in Int
  BY <1>2, <1>3 DEF Shares
<1>. QED BY Zenon, <1>1, <1>2, <1>3, <1>4

-----------------------------------------------------------------------------

(* can_send's semaphore_wait(&can.send_lock): the thread is one more taker *)
(* of a value one smaller.                                                 *)
LEMMA SendLockWaitStep ==
    ASSUME Counting, Core, NEW t \in Threads, SendLockWait(t)
    PROVE  Core'
<1>1. /\ k.current = t /\ ~k.pendsv /\ pc[t] = "idle" /\ Goto(t, "locked")
      /\ k' = semaphore_wait(k, SendLock) /\ "locked" \in Labels
      /\ UNCHANGED <<reg, waitee, send_async, object, txirq, requests>>
  BY DEF SendLockWait, At, signalling, hardware, Labels
<1>2. /\ pc' \in [Threads -> Labels] /\ pc'[t] = "locked"
      /\ \A u \in Threads : u # t => pc'[u] = pc[u] /\ pc[u] \in {"idle", "locked", "out"}
      /\ ~Transmitting /\ ~Sending /\ ~Transmitting' /\ ~Sending'
  BY <1>1, OneSteps
<1>3. Takers' = Takers \cup {t} /\ Cardinality(Takers)' = Cardinality(Takers) + 1
  BY <1>1, TakersSteps
<1>4. /\ Queued(k') /\ k'.current = t
      /\ k'.value[SendLock] = k.value[SendLock] - 1
      /\ k'.value[SendDone] = k.value[SendDone] /\ k'.waiters[SendDone] = k.waiters[SendDone]
      /\ \/ /\ k.value[SendLock] >= 1 /\ ~k'.pendsv
            /\ k'.waiters[SendLock] = k.waiters[SendLock]
         \/ /\ k.value[SendLock] <= 0 /\ k'.pendsv
            /\ Range(k'.waiters[SendLock]) = Range(k.waiters[SendLock]) \cup {t}
  <2>1. Queued(k)
    BY DEF Core, KernelInv
  <2>2. k.value[SendLock] \in -127..127
    BY Zenon, Fits
  <2>3. Waits(k, SendLock, t, k')
    BY <1>1, <2>1, <2>2, QueuedWait, Constants
  <2>. QED  BY <2>3, Constants DEF Waits
<1>5. t \notin Range(k.waiters[SendLock]) /\ t \notin Range(k.waiters[SendDone])
  BY <1>1 DEF Core, KernelInv
<1>6. TypeInv'
  BY <1>1, <1>2 DEF Core, TypeInv
<1>7. KernelInv'
  <2>1. /\ Range(k.waiters[SendLock]) \subseteq Threads
        /\ Range(k.waiters[SendDone]) \subseteq Threads
    BY QueuedTypes, Constants DEF Core, KernelInv
  <2>2. /\ \A u \in Range(k'.waiters[SendLock]) : pc'[u] = "locked"
        /\ \A u \in Range(k'.waiters[SendDone]) : pc'[u] = "out"
    BY <1>2, <1>4, <1>5, <2>1 DEF Core, KernelInv
  <2>. QED  BY <1>4, <2>2 DEF KernelInv
<1>8. RunInv' /\ WaiteeInv'
  BY <1>1, OneRuns
<1>9. /\ Pending' = Pending /\ Owed' = Owed /\ Shares' = Shares
      /\ Shares \in Int /\ Cardinality(Takers) \in Nat /\ k.value[SendLock] \in Int
      /\ requests \in Nat
  <2>1. Pending' = Pending /\ Owed' = Owed
    BY Zenon, <1>1, <1>2 DEF Pending, Owed, Bit
  <2>. QED BY <2>1, <1>3, <1>4, SharesType DEF Shares
<1>10. \A u \in Threads : /\ u # t => (Active(u)' <=> Active(u))
                          /\ Active(t)' => k.value[SendLock] >= 1
  BY <1>2, <1>4 DEF Active
<1>11. LockInv'
  <2>1. \A u \in Threads : pc'[u] \notin {"store", "first", "delete"}
    BY <1>2
  <2>2. k.value[SendLock] >= 1 => Shares >= 1
    BY <1>9 DEF Shares
  <2>3. \/ Shares >= 1
        \/ Shares = 0 /\ send_async /\ Pending >= 1 /\ \A u \in Threads : ~Active(u)
    BY DEF Core, LockInv
  <2>4. \/ Shares >= 1
        \/ Shares = 0 /\ send_async /\ Pending >= 1 /\ \A u \in Threads : ~Active(u)'
    BY <2>2, <2>3, <1>10
  <2>5. Shares + Owed <= 1 + 3 * requests
    BY DEF Core, LockInv
  <2>. QED  BY <1>1, <1>9, <2>1, <2>4, <2>5 DEF LockInv
<1>12. DoneInv'
  BY Zenon, <1>1, <1>2, <1>4, <1>9 DEF Core, DoneInv, Bit
<1>13. ASSUME requests' = 0
       PROVE  AloneInv'
  <2>1. AloneInv /\ requests = 0
    BY <1>1, <1>13 DEF Core
  <2>2. k.value[SendLock] >= 1 => Takers = {}
    <3>1. Shares + Owed <= 1
      BY <2>1 DEF Core, LockInv
    <3>. QED BY <3>1, <1>9, TakersCount, OwedType DEF Shares
  <2>3. Active(t)' => \A u \in Threads : ~Active(u)
    BY <2>2, <1>10, ActiveTakes
  <2>4. /\ \A u, v \in Threads : Active(u)' /\ Active(v)' => u = v
        /\ \A u, v \in Threads : pc'[u] \in {"first", "delete"} => ~Active(v)'
    BY <2>1, <2>3, <1>2, <1>10 DEF AloneInv
  <2>. QED  BY <1>1, <1>2, <1>4, <1>9, <2>1, <2>4 DEF AloneInv, Bit
<1>. QED  BY <1>6, <1>7, <1>8, <1>11, <1>12, <1>13 DEF Core

(* A step of t that changes neither the semaphores nor whether t has the   *)
(* lock.                                                                   *)
LEMMA ActiveStays ==
    ASSUME Counting, Core, NEW t \in Threads, k.current = t, ~k.pendsv, NEW l \in Labels, Goto(t, l),
           k'.waiters[SendLock] = k.waiters[SendLock],
           pc[t] \in {"locked", "transmit", "sending", "out"},
           l \in {"transmit", "sending", "out", "store"}
    PROVE  /\ \A u \in Threads : Active(u)' <=> Active(u)
           /\ Active(t) /\ Shares \in Int /\ Shares >= 1
<1>1. /\ pc'[t] = l
      /\ \A u \in Threads : u # t => pc'[u] = pc[u] /\ pc[u] \in {"idle", "locked", "out"}
  BY OneSteps
<1>2. t \notin Range(k.waiters[SendLock])
  BY CurrentFree, Constants DEF Core, KernelInv
<1>3. Active(t) /\ Active(t)'
  BY <1>1, <1>2 DEF Active
<1>4. \A u \in Threads : u # t => (Active(u)' <=> Active(u))
  BY <1>1 DEF Active
<1>5. Shares \in Int /\ Shares >= 1
  BY <1>3, SharesType DEF Core, LockInv
<1>. QED  BY <1>3, <1>4, <1>5

(* can.send_async = false: the lock is owed by nobody any more.            *)
LEMMA SendSyncStep ==
    ASSUME Counting, Core, NEW t \in Threads, SendSync(t)
    PROVE  Core'
<1>1. /\ k.current = t /\ ~k.pendsv /\ pc[t] = "locked" /\ Goto(t, "transmit")
      /\ "transmit" \in Labels /\ send_async' = FALSE
      /\ UNCHANGED <<k, reg, waitee, object, txirq, requests>>
  BY DEF SendSync, At, signalling, hardware, Labels
<1>2. /\ pc' \in [Threads -> Labels] /\ pc'[t] = "transmit"
      /\ \A u \in Threads : u # t => pc'[u] = pc[u] /\ pc[u] \in {"idle", "locked", "out"}
      /\ ~Transmitting /\ ~Sending /\ Transmitting' /\ ~Sending'
  BY <1>1, OneSteps
<1>3. Takers' = Takers /\ Cardinality(Takers)' = Cardinality(Takers)
  BY <1>1, TakersSteps
<1>4. t \notin Range(k.waiters[SendLock]) /\ t \notin Range(k.waiters[SendDone])
  BY <1>1, CurrentFree, Constants DEF Core, KernelInv
<1>5. /\ \A u \in Threads : Active(u)' <=> Active(u)
      /\ Active(t) /\ Shares \in Int /\ Shares >= 1
  BY <1>1, ActiveStays
<1>6. TypeInv'
  BY <1>1, <1>2 DEF Core, TypeInv
<1>7. KernelInv'
  <2>1. /\ Range(k.waiters[SendLock]) \subseteq Threads
        /\ Range(k.waiters[SendDone]) \subseteq Threads
    BY QueuedTypes, Constants DEF Core, KernelInv
  <2>. QED BY Zenon, <1>1, <1>2, <1>4, <2>1 DEF Core, KernelInv
<1>8. RunInv' /\ WaiteeInv'
  BY <1>1, OneRuns
<1>9. Pending' = Pending /\ Owed' = 0 /\ Shares' = Shares
  BY <1>1, <1>3 DEF Pending, Owed, Shares
<1>10. LockInv'
  <2>1. \A u \in Threads : pc'[u] \notin {"store", "first", "delete"}
    BY <1>2
  <2>2. Shares + Owed <= 1 + 3 * requests /\ requests \in Nat
    BY SharesType DEF Core, LockInv
  <2>3. Shares + 0 <= 1 + 3 * requests
    BY <2>2, <1>5, OwedType
  <2>. QED  BY <1>1, <1>5, <1>9, <2>1, <2>3 DEF LockInv
<1>11. DoneInv'
  BY <1>1, <1>2, <1>9 DEF Core, DoneInv, Bit
<1>12. ASSUME requests' = 0
       PROVE  AloneInv'
  <2>1. AloneInv
    BY <1>1, <1>12 DEF Core
  <2>. QED  BY <1>1, <1>2, <1>5, <1>9, <2>1 DEF AloneInv, Bit
<1>. QED  BY <1>6, <1>7, <1>8, <1>10, <1>11, <1>12 DEF Core

(* can_transmit puts one more frame into message object 0 at most.         *)
LEMMA TransmitPends ==
    ASSUME NEW f, f # NoFrame, can_transmit(f), txirq \in BOOLEAN
    PROVE  /\ Pending' \in 1..2 /\ Pending' <= Pending + 1 /\ txirq' \in BOOLEAN
           /\ object' = f
<1>1. object' = f /\ txirq' \in BOOLEAN
  BY DEF can_transmit
<1>2. CASE object = NoFrame
  <2>1. txirq' = txirq
    BY <1>2 DEF can_transmit
  <2>. QED BY <1>1, <2>1 DEF Pending, Bit
<1>3. CASE object # NoFrame
  BY <1>1, <1>3 DEF Pending, Bit
<1>. QED  BY <1>2, <1>3

(* When only threads send, the thread that has the lock finds message      *)
(* object 0 empty and send_done not signalled, before it has sent its      *)
(* frame and after it has waited for it.                                   *)
LEMMA NothingPends ==
    ASSUME Counting, Core, requests = 0, NEW t \in Threads, k.current = t, ~k.pendsv,
           Active(t), ~Sending
    PROVE  Pending = 0 /\ object = NoFrame /\ ~txirq /\ k.value[SendDone] = 0
<1>1. AloneInv
  BY DEF Core
<1>2. k.waiters[SendDone] \in Seq(Threads)
  BY QueuedTypes, Constants DEF Core, KernelInv
<1>3. \A u \in Range(k.waiters[SendDone]) : u \in Threads /\ pc[u] = "out" /\ Active(u)
  <2>1. Range(k.waiters[SendDone]) \subseteq Threads
    BY QueuedTypes, Constants DEF Core, KernelInv
  <2>. QED  BY <2>1 DEF Core, KernelInv, Active
<1>4. Range(k.waiters[SendDone]) = {}
  <2>1. t \notin Range(k.waiters[SendDone])
    BY CurrentFree, Constants DEF Core, KernelInv
  <2>. QED  BY <1>1, <1>3, <2>1 DEF AloneInv
<1>5. Len(k.waiters[SendDone]) = 0
  <2> SUFFICES ASSUME Len(k.waiters[SendDone]) # 0
               PROVE  FALSE
    OBVIOUS
  <2>1. 1 \in DOMAIN k.waiters[SendDone]
    BY <1>2
  <2>. QED  BY <2>1, <1>4 DEF Range
<1>6. k.value[SendDone] >= 0 /\ k.value[SendDone] + Pending <= 0 /\ k.value[SendDone] \in Int
  BY <1>5, SharesType DEF Core, DoneInv, Bit
<1>7. Pending = 0 /\ k.value[SendDone] = 0
  BY <1>6, OwedType
<1>. QED  BY <1>7 DEF Pending, Bit

(* can_transmit of a thread.                                               *)
LEMMA SendTransmitStep ==
    ASSUME Counting, Core, NEW t \in Threads, SendTransmit(t)
    PROVE  Core'
<1>1. /\ k.current = t /\ ~k.pendsv /\ pc[t] = "transmit" /\ Goto(t, "sending")
      /\ "sending" \in Labels /\ can_transmit(t)
      /\ UNCHANGED <<k, reg, waitee, send_async, requests>>
  BY DEF SendTransmit, At, signalling, Labels
<1>2. /\ pc' \in [Threads -> Labels] /\ pc'[t] = "sending"
      /\ \A u \in Threads : u # t => pc'[u] = pc[u] /\ pc[u] \in {"idle", "locked", "out"}
      /\ Transmitting /\ ~Sending /\ ~Transmitting' /\ Sending'
  BY <1>1, OneSteps
<1>3. Takers' = Takers /\ Cardinality(Takers)' = Cardinality(Takers)
  BY <1>1, TakersSteps
<1>5. /\ \A u \in Threads : Active(u)' <=> Active(u)
      /\ Active(t) /\ Shares \in Int /\ Shares >= 1
  BY <1>1, ActiveStays
<1>6. /\ Pending' \in 1..2 /\ Pending' <= Pending + 1 /\ txirq' \in BOOLEAN
      /\ object' = t
  <2>1. t # NoFrame
    BY CanAssumption
  <2>2. txirq \in BOOLEAN
    BY DEF Core, TypeInv
  <2>. QED  BY <1>1, <2>1, <2>2, TransmitPends
<1>7. TypeInv'
  BY <1>1, <1>2, <1>6 DEF Core, TypeInv
<1>8. KernelInv'
  <2>1. /\ Range(k.waiters[SendLock]) \subseteq Threads
        /\ Range(k.waiters[SendDone]) \subseteq Threads
    BY QueuedTypes, Constants DEF Core, KernelInv
  <2>. QED BY <1>1, <1>2, <2>1 DEF Core, KernelInv
<1>9. RunInv' /\ WaiteeInv'
  BY <1>1, OneRuns
<1>10. Shares' = Shares
  BY <1>1, <1>3 DEF Shares
<1>11. Owed' <= Owed /\ Owed' \in Int
  <2>1. Owed = IF send_async THEN Pending + 1 ELSE 0
    BY <1>2 DEF Owed, Bit
  <2>2. Owed' = IF send_async THEN Pending' + 0 ELSE 0
    BY <1>1, <1>2 DEF Owed, Bit
  <2>3. \A p \in 0..2, q \in 1..2 : q <= p + 1 => q + 0 <= p + 1 /\ q + 0 \in Int
    OBVIOUS
  <2>4. CASE send_async
    BY <2>1, <2>2, <2>3, <2>4, <1>6
  <2>5. CASE ~send_async
    BY <2>1, <2>2, <2>5
  <2>. QED  BY <2>4, <2>5
<1>12. LockInv'
  <2>1. \A u \in Threads : pc'[u] \notin {"store", "first", "delete"}
    BY <1>2
  <2>2. Shares + Owed <= 1 + 3 * requests /\ requests \in Nat
    BY SharesType DEF Core, LockInv
  <2>3. Shares + Owed' <= 1 + 3 * requests
    <3>1. \A h, o, p \in Int, q \in Nat : h + o <= 1 + 3 * q /\ p <= o => h + p <= 1 + 3 * q
      OBVIOUS
    <3>2. Owed \in Int
      BY OwedType
    <3>. QED  BY <2>2, <3>1, <3>2, <1>5, <1>11
  <2>. QED  BY <1>1, <1>5, <1>10, <2>1, <2>3 DEF LockInv
<1>13. DoneInv'
  <2>1. k.value[SendDone] + Pending <= requests /\ k.value[SendDone] \in Int /\ requests \in Nat
    BY <1>2, SharesType DEF Core, DoneInv, Bit
  <2>2. k.value[SendDone] + Pending' <= requests + 1
    BY <2>1, <1>6, OwedType
  <2>. QED  BY <1>1, <1>2, <2>2 DEF Core, DoneInv, Bit
<1>14. ASSUME requests' = 0
       PROVE  AloneInv'
  <2>1. AloneInv /\ requests = 0
    BY Zenon, <1>1, <1>14 DEF Core
  <2>2. Pending = 0 /\ object = NoFrame /\ ~txirq /\ k.value[SendDone] = 0
    BY <1>1, <1>2, <1>5, <2>1, NothingPends
  <2>3. ~txirq'
    BY <1>1, <2>2 DEF can_transmit
  <2>4. k'.value[SendDone] + Pending' >= 1
    <3>1. \A p \in 1..2 : 0 + p >= 1
      OBVIOUS
    <3>. QED BY Zenon, <1>1, <1>6, <2>2, <3>1
  <2>. QED  BY <1>1, <1>2, <1>5, <2>1, <2>3, <2>4 DEF AloneInv, Bit
<1>. QED  BY <1>7, <1>8, <1>9, <1>12, <1>13, <1>14 DEF Core

(* semaphore_wait(&can.send_done).                                         *)
LEMMA SendDoneWaitStep ==
    ASSUME Counting, Core, NEW t \in Threads, SendDoneWait(t)
    PROVE  Core'
<1>1. /\ k.current = t /\ ~k.pendsv /\ pc[t] = "sending" /\ Goto(t, "out")
      /\ k' = semaphore_wait(k, SendDone) /\ "out" \in Labels
      /\ UNCHANGED <<reg, waitee, send_async, object, txirq, requests>>
  BY DEF SendDoneWait, At, signalling, hardware, Labels
<1>2. /\ pc' \in [Threads -> Labels] /\ pc'[t] = "out"
      /\ \A u \in Threads : u # t => pc'[u] = pc[u] /\ pc[u] \in {"idle", "locked", "out"}
      /\ ~Transmitting /\ Sending /\ ~Transmitting' /\ ~Sending'
  BY <1>1, OneSteps
<1>3. Takers' = Takers /\ Cardinality(Takers)' = Cardinality(Takers)
  BY Zenon, <1>1, TakersSteps
<1>4. Waits(k, SendDone, t, k')
  <2>1. Queued(k)
    BY DEF Core, KernelInv
  <2>2. k.value[SendDone] \in -127..127
    BY Zenon, Fits
  <2>. QED  BY <1>1, <2>1, <2>2, QueuedWait, Constants
<1>5. /\ Queued(k') /\ k'.value[SendDone] = k.value[SendDone] - 1
      /\ k'.value[SendLock] = k.value[SendLock] /\ k'.waiters[SendLock] = k.waiters[SendLock]
      /\ \/ k.value[SendDone] >= 1 /\ k'.waiters[SendDone] = k.waiters[SendDone]
         \/ /\ k.value[SendDone] <= 0
            /\ Range(k'.waiters[SendDone]) = Range(k.waiters[SendDone]) \cup {t}
            /\ Len(k'.waiters[SendDone]) = Len(k.waiters[SendDone]) + 1
  BY Zenon, <1>4, Constants DEF Waits
<1>6. t \notin Range(k.waiters[SendLock])
  BY <1>1 DEF Core, KernelInv
<1>7. /\ \A u \in Threads : Active(u)' <=> Active(u)
      /\ Active(t) /\ Shares \in Int /\ Shares >= 1
  BY <1>1, <1>5, ActiveStays
<1>8. TypeInv'
  BY <1>1, <1>2 DEF Core, TypeInv
<1>9. KernelInv'
  <2>1. /\ Range(k.waiters[SendLock]) \subseteq Threads
        /\ Range(k.waiters[SendDone]) \subseteq Threads
    BY QueuedTypes, Constants DEF Core, KernelInv
  <2>2. /\ \A u \in Range(k'.waiters[SendLock]) : pc'[u] = "locked"
        /\ \A u \in Range(k'.waiters[SendDone]) : pc'[u] = "out"
    BY <1>2, <1>5, <1>6, <2>1 DEF Core, KernelInv
  <2>. QED  BY <1>5, <2>2 DEF KernelInv
<1>10. RunInv' /\ WaiteeInv'
  BY Zenon, <1>1, OneRuns
<1>11. Pending' = Pending /\ Owed' = Owed /\ Shares' = Shares
  BY <1>1, <1>2, <1>3, <1>5 DEF Pending, Owed, Shares, Bit
<1>12. LockInv'
  <2>1. \A u \in Threads : pc'[u] \notin {"store", "first", "delete"}
    BY Zenon, <1>2
  <2>. QED  BY <1>1, <1>7, <1>11, <2>1 DEF Core, LockInv
<1>13. DoneInv'
  <2>1. /\ k.value[SendDone] + Pending <= requests + 1
        /\ k.value[SendDone] + Len(k.waiters[SendDone]) >= 0
    BY <1>2 DEF Core, DoneInv, Bit
  <2>2. /\ k.value[SendDone] \in Int /\ requests \in Nat /\ Len(k.waiters[SendDone]) \in Nat
        /\ Pending \in 0..2
    BY SharesType, OwedType
  <2>3. (k.value[SendDone] - 1) + Pending <= requests + 0
    BY <2>1, <2>2
  <2>4. (k.value[SendDone] - 1) + Len(k'.waiters[SendDone]) >= 0
    <3>1. \A v \in Int, n \in Nat : /\ v >= 1 => (v - 1) + n >= 0
                                    /\ v + n >= 0 => (v - 1) + (n + 1) >= 0
      OBVIOUS
    <3>. QED  BY <2>1, <2>2, <3>1, <1>5
  <2>. QED  BY <1>1, <1>2, <1>5, <1>11, <2>3, <2>4 DEF DoneInv, Bit
<1>14. ASSUME requests' = 0
       PROVE  AloneInv'
  <2>1. AloneInv /\ requests = 0
    BY <1>1, <1>14 DEF Core
  <2>2. k.value[SendDone] + Pending >= 1 /\ k.value[SendDone] \in Int /\ Pending \in 0..2
    BY <1>2, <2>1, SharesType, OwedType DEF AloneInv, Bit
  <2>3. (k.value[SendDone] - 1) + Pending >= 0
    BY <2>2
  <2>. QED BY Zenon, <1>1, <1>2, <1>5, <1>7, <1>11, <2>1, <2>3 DEF AloneInv, Bit
<1>. QED  BY <1>8, <1>9, <1>10, <1>12, <1>13, <1>14 DEF Core

(* semaphore_signal(&can.send_lock), the load.                             *)
LEMMA UnlockLoadStep ==
    ASSUME Counting, Core, NEW t \in Threads, UnlockLoad(t)
    PROVE  Core'
<1>1. /\ k.current = t /\ ~k.pendsv /\ pc[t] = "out" /\ Goto(t, "store")
      /\ "store" \in Labels /\ reg' = [reg EXCEPT ![t] = k.value[SendLock]]
      /\ UNCHANGED <<k, waitee, send_async, object, txirq, requests>>
  BY DEF UnlockLoad, At, hardware, Labels
<1>2. /\ pc' \in [Threads -> Labels] /\ pc'[t] = "store"
      /\ \A u \in Threads : u # t => pc'[u] = pc[u] /\ pc[u] \in {"idle", "locked", "out"}
      /\ ~Transmitting /\ ~Sending /\ ~Transmitting' /\ ~Sending'
  BY <1>1, OneSteps
<1>3. Takers' = Takers /\ Cardinality(Takers)' = Cardinality(Takers)
  BY <1>1, TakersSteps
<1>4. t \notin Range(k.waiters[SendLock]) /\ t \notin Range(k.waiters[SendDone])
  BY Zenon, <1>1, CurrentFree, Constants DEF Core, KernelInv
<1>5. /\ \A u \in Threads : Active(u)' <=> Active(u)
      /\ Active(t) /\ Shares \in Int /\ Shares >= 1
  BY <1>1, ActiveStays
<1>6. reg' \in [Threads -> Int] /\ reg'[t] = k.value[SendLock]
  BY <1>1, SharesType DEF Core, TypeInv
<1>7. TypeInv'
  BY Zenon, <1>1, <1>2, <1>6 DEF Core, TypeInv
<1>8. KernelInv'
  <2>1. /\ Range(k.waiters[SendLock]) \subseteq Threads
        /\ Range(k.waiters[SendDone]) \subseteq Threads
    BY QueuedTypes, Constants DEF Core, KernelInv
  <2>. QED  BY <1>1, <1>2, <1>4, <2>1 DEF Core, KernelInv
<1>9. RunInv' /\ WaiteeInv'
  BY <1>1, OneRuns
<1>10. Pending' = Pending /\ Owed' = Owed /\ Shares' = Shares
  BY Zenon, <1>1, <1>2, <1>3 DEF Pending, Owed, Shares, Bit
<1>11. LockInv'
  <2>1. \A u \in Threads : /\ pc'[u] = "store" => u = t
                           /\ pc'[u] \notin {"first", "delete"}
    BY <1>2
  <2>2. Shares + Owed <= 1 + 3 * requests
    BY DEF Core, LockInv
  <2>3. reg'[t] + Cardinality(Takers)' = Shares
    BY <1>3, <1>6 DEF Shares
  <2>. QED  BY <1>1, <1>5, <1>10, <2>1, <2>2, <2>3 DEF LockInv
<1>12. DoneInv'
  BY Zenon, <1>1, <1>2, <1>10 DEF Core, DoneInv, Bit
<1>13. ASSUME requests' = 0
       PROVE  AloneInv'
  <2>1. AloneInv
    BY Zenon, <1>1, <1>13 DEF Core
  <2>. QED  BY <1>1, <1>2, <1>5, <1>10, <2>1 DEF AloneInv, Bit
<1>. QED  BY <1>7, <1>8, <1>9, <1>11, <1>12, <1>13 DEF Core

(* ... and the store, which may undo what an interrupt did in between: the *)
(* value it stores is still enough, for what was loaded was.               *)
LEMMA UnlockStoreStep ==
    ASSUME Counting, Core, NEW t \in Threads, UnlockStore(t)
    PROVE  Core'
<1>1. /\ k.current = t /\ ~k.pendsv /\ pc[t] = "store" /\ Goto(t, "first")
      /\ "first" \in Labels /\ k' = signal_store(k, SendLock, reg[t])
      /\ UNCHANGED <<reg, waitee, send_async, object, txirq, requests>>
  BY Zenon DEF UnlockStore, At, signalling, hardware, Labels
<1>2. /\ pc' \in [Threads -> Labels] /\ pc'[t] = "first"
      /\ \A u \in Threads : u # t => pc'[u] = pc[u] /\ pc[u] \in {"idle", "locked", "out"}
      /\ ~Transmitting /\ ~Sending /\ ~Transmitting' /\ ~Sending'
  BY <1>1, OneSteps
<1>3. Takers' = Takers \ {t} /\ Cardinality(Takers)' = Cardinality(Takers) - 1
  BY Zenon, <1>1, TakersSteps
<1>4. t \notin Range(k.waiters[SendLock]) /\ t \notin Range(k.waiters[SendDone])
  BY <1>1 DEF Core, KernelInv
<1>5. reg[t] \in Int /\ reg[t] \in -128..126
  <2>1. reg[t] \in Int
    BY DEF Core, TypeInv
  <2>. QED BY Zenon, <1>1, <2>1, Fits
<1>6. /\ KernelType(k') /\ k'.value = [k.value EXCEPT ![SendLock] = reg[t] + 1]
      /\ k'.state = k.state /\ k'.queue = k.queue /\ k'.current = k.current
      /\ k'.pendsv = k.pendsv /\ k'.waiters = k.waiters
  <2>1. KernelType(k)
    BY DEF Core, KernelInv, Queued
  <2>2. Counted(k, SendLock, reg[t], k')
    BY Zenon, <1>1, <1>5, <2>1, StoreEffect, Constants
  <2>. QED BY Zenon, <2>2 DEF Counted
<1>7. k'.value[SendLock] = reg[t] + 1 /\ k'.value[SendDone] = k.value[SendDone]
  BY <1>6, Constants, QueuedTypes DEF Core, KernelInv
<1>8. Queued(k')
  BY <1>6 DEF Core, KernelInv, Queued, QueueExact, Running
<1>9. TypeInv'
  BY <1>1, <1>2 DEF Core, TypeInv
<1>10. KernelInv'
  <2>1. /\ Range(k.waiters[SendLock]) \subseteq Threads
        /\ Range(k.waiters[SendDone]) \subseteq Threads
    BY QueuedTypes, Constants DEF Core, KernelInv
  <2>. QED BY Zenon, <1>2, <1>4, <1>6, <1>8, <2>1 DEF Core, KernelInv
<1>11. RunInv' /\ WaiteeInv'
  BY <1>1, <1>6, OneRuns
<1>12. Pending' = Pending /\ Owed' = Owed
  BY <1>1, <1>2 DEF Pending, Owed, Bit
<1>13. Shares' = reg[t] + Cardinality(Takers) /\ Shares' \in Int
  <2>2. reg[t] \in Int /\ Cardinality(Takers) \in Nat
    BY <1>5, SharesType
  <2>3. Shares' = (reg[t] + 1) + (Cardinality(Takers) - 1)
    BY Zenon, <1>3, <1>7 DEF Shares
  <2>. QED BY <2>2, <2>3
<1>14. LockInv'
  <2>1. \A u \in Threads : pc'[u] # "store"
    BY Zenon, <1>2
  <2>2. /\ reg[t] + Cardinality(Takers) >= 1
        /\ reg[t] + Cardinality(Takers) + Owed <= 1 + 3 * requests
    BY <1>1 DEF Core, LockInv
  <2>. QED  BY <1>1, <1>12, <1>13, <2>1, <2>2 DEF LockInv
<1>15. DoneInv'
  BY Zenon, <1>1, <1>2, <1>6, <1>7, <1>12 DEF Core, DoneInv, Bit
<1>16. ASSUME requests' = 0
       PROVE  AloneInv'
  <2>1. AloneInv
    BY Zenon, <1>1, <1>16 DEF Core
  <2>2. Active(t) /\ ~Active(t)' /\ \A u \in Threads : u # t => (Active(u)' <=> Active(u))
    BY Zenon, <1>1, <1>2, <1>6 DEF Active
  <2>3. \A u \in Threads : ~Active(u)'
    BY <2>1, <2>2 DEF AloneInv
  <2>. QED  BY <1>1, <1>2, <1>7, <1>12, <2>1, <2>3 DEF AloneInv, Bit
<1>. QED  BY <1>9, <1>10, <1>11, <1>14, <1>15, <1>16 DEF Core

(* ... the first waitee is looked up.                                      *)
LEMMA UnlockFirstStep ==
    ASSUME Counting, Core, NEW t \in Threads, UnlockFirst(t)
    PROVE  Core'
<1>1. /\ k.current = t /\ ~k.pendsv /\ pc[t] = "first"
      /\ UNCHANGED <<k, reg, send_async, object, txirq, requests>>
  BY DEF UnlockFirst, At, hardware
<1>2. PICK l \in {"idle", "delete"} :
         /\ Goto(t, l)
         /\ l = "idle" => UNCHANGED waitee
         /\ l = "delete" => /\ k.waiters[SendLock] # <<>>
                            /\ waitee' = [waitee EXCEPT ![t] = Head(k.waiters[SendLock])]
  BY DEF UnlockFirst
<1>3. l \in Labels
  BY Zenon DEF Labels
<1>4. /\ pc' \in [Threads -> Labels] /\ pc'[t] = l
      /\ \A u \in Threads : u # t => pc'[u] = pc[u] /\ pc[u] \in {"idle", "locked", "out"}
      /\ ~Transmitting /\ ~Sending /\ ~Transmitting' /\ ~Sending'
  BY <1>1, <1>2, <1>3, OneSteps
<1>5. Takers' = Takers /\ Cardinality(Takers)' = Cardinality(Takers)
  BY Zenon, <1>1, <1>2, <1>3, TakersSteps
<1>7. /\ k.waiters[SendLock] \in Seq(Threads) /\ IsInjective(k.waiters[SendLock])
      /\ Range(k.waiters[SendLock]) \subseteq Threads
      /\ Range(k.waiters[SendDone]) \subseteq Threads
  BY Zenon, QueuedTypes, Constants DEF Core, KernelInv, Queued
<1>8. l = "delete" => /\ waitee'[t] = Head(k.waiters[SendLock])
                      /\ waitee'[t] \in Threads /\ waitee'[t] \in Range(k.waiters[SendLock])
                      /\ waitee' \in [Threads -> Threads \cup {Idle}]
  <2>1. k.waiters[SendLock] # <<>> =>
           Head(k.waiters[SendLock]) \in Threads /\ Head(k.waiters[SendLock]) \in Range(k.waiters[SendLock])
    BY <1>7, TailProperties
  <2>2. waitee \in [Threads -> Threads \cup {Idle}]
    BY DEF Core, TypeInv
  <2>. QED  BY <1>2, <2>1, <2>2
<1>9. TypeInv'
  <2>1. waitee' \in [Threads -> Threads \cup {Idle}]
    BY Zenon, <1>2, <1>8 DEF Core, TypeInv
  <2>. QED  BY <1>1, <1>4, <2>1 DEF Core, TypeInv
<1>10. KernelInv'
  BY Zenon, <1>1, <1>4, <1>7 DEF Core, KernelInv
<1>11. RunInv'
  BY <1>1, <1>2, <1>3, OneRuns
<1>12. WaiteeInv'
  <2>1. CASE l = "idle"
    BY Zenon, <1>1, <1>2, <1>3, <2>1, OneRuns
  <2>2. CASE l = "delete"
    <3>1. pc[waitee'[t]] = "locked" /\ pc'[waitee'[t]] = "locked"
      BY <1>1, <1>4, <1>8, <2>2 DEF Core, KernelInv
    <3>. QED BY Zenon, <1>1, <1>4, <1>8, <3>1 DEF WaiteeInv
  <2>. QED  BY <2>1, <2>2
<1>13. Pending' = Pending /\ Owed' = Owed /\ Shares' = Shares
  BY <1>1, <1>4, <1>5 DEF Pending, Owed, Shares, Bit
<1>14. \A u \in Threads : Active(u)' <=> Active(u)
  BY Zenon, <1>1, <1>4 DEF Active
<1>15. LockInv'
  <2>1. \A u \in Threads : /\ pc'[u] # "store"
                           /\ pc'[u] \in {"first", "delete"} => pc[u] \in {"first", "delete"}
    BY Zenon, <1>1, <1>4
  <2>. QED  BY <1>1, <1>5, <1>13, <1>14, <2>1 DEF Core, LockInv
<1>16. DoneInv'
  BY <1>1, <1>4, <1>13 DEF Core, DoneInv, Bit
<1>17. ASSUME requests' = 0
       PROVE  AloneInv'
  <2>1. AloneInv
    BY <1>1, <1>17 DEF Core
  <2>. QED BY Zenon, <1>1, <1>4, <1>13, <1>14, <2>1 DEF AloneInv, Bit
<1>. QED  BY <1>9, <1>10, <1>11, <1>12, <1>15, <1>16, <1>17 DEF Core

(* ... the first waitee is taken out of the queue: it has the lock now.    *)
LEMMA UnlockDeleteStep ==
    ASSUME Counting, Core, NEW t \in Threads, UnlockDelete(t), undefined' = "no"
    PROVE  Core'
<1> DEFINE h == Head(k.waiters[SendLock])
<1>1. /\ k.current = t /\ ~k.pendsv /\ pc[t] = "delete" /\ Goto(t, "wake")
      /\ "wake" \in Labels
      /\ k.waiters[SendLock] # <<>> /\ k' = signal_dequeue(k, SendLock)
      /\ UNCHANGED <<reg, waitee, send_async, object, txirq, requests>>
  BY Zenon DEF UnlockDelete, At, signalling, hardware, Labels
<1>2. /\ pc' \in [Threads -> Labels] /\ pc'[t] = "wake"
      /\ \A u \in Threads : u # t => pc'[u] = pc[u] /\ pc[u] \in {"idle", "locked", "out"}
      /\ ~Transmitting /\ ~Sending /\ ~Transmitting' /\ ~Sending'
  BY <1>1, OneSteps
<1>3. Takers' = Takers /\ Cardinality(Takers)' = Cardinality(Takers)
  BY Zenon, <1>1, TakersSteps
<1>4. t \notin Range(k.waiters[SendLock]) /\ t \notin Range(k.waiters[SendDone])
  BY Zenon, <1>1 DEF Core, KernelInv
<1>5. /\ k.waiters[SendLock] \in Seq(Threads) /\ IsInjective(k.waiters[SendLock])
      /\ Range(k.waiters[SendLock]) \subseteq Threads
      /\ Range(k.waiters[SendDone]) \subseteq Threads
      /\ KernelType(k) /\ k.waiters \in [Semaphores -> Seq(Threads)]
  BY Zenon, QueuedTypes, Constants DEF Core, KernelInv, Queued
<1>6. /\ IsInjective(Tail(k.waiters[SendLock]))
      /\ Range(Tail(k.waiters[SendLock])) = Range(k.waiters[SendLock]) \ {h}
      /\ h \in Threads /\ h \in Range(k.waiters[SendLock])
  BY <1>1, <1>5, TailProperties
<1>7. /\ KernelType(k')
      /\ k'.waiters = [k.waiters EXCEPT ![SendLock] = Tail(k.waiters[SendLock])]
      /\ k'.state = k.state /\ k'.queue = k.queue /\ k'.current = k.current
      /\ k'.pendsv = k.pendsv /\ k'.value = k.value
  <2>1. Dequeued(k, SendLock, k')
    BY Zenon, <1>1, <1>5, DequeueEffect, Constants
  <2>. QED  BY <2>1 DEF Dequeued
<1> HIDE DEF h
<1>8. /\ k'.waiters[SendLock] = Tail(k.waiters[SendLock])
      /\ k'.waiters[SendDone] = k.waiters[SendDone]
      /\ Range(k'.waiters[SendLock]) = Range(k.waiters[SendLock]) \ {h}
  BY <1>5, <1>6, <1>7, Constants
<1>9. Queued(k')
  <2>1. \A s \in Semaphores : IsInjective(k'.waiters[s])
                              /\ Range(k'.waiters[s]) \subseteq Range(k.waiters[s])
    BY Zenon, <1>6, <1>8, Constants DEF Core, KernelInv, Queued
  <2>2. QueueExact(k')
    BY <1>7 DEF Core, KernelInv, Queued, QueueExact, Running
  <2>3. \A s \in Semaphores : \A u \in Range(k'.waiters[s]) : k'.state[u] = "blocked"
    BY <2>1, <1>7 DEF Core, KernelInv, Queued
  <2>4. \A r, s \in Semaphores : \A u \in Range(k'.waiters[r]) :
           u \in Range(k'.waiters[s]) => r = s
    BY Zenon, <2>1 DEF Core, KernelInv, Queued
  <2>5. \A u \in Threads : k'.current = u /\ ~k'.pendsv => k'.state[u] = "running"
    BY Zenon, <1>7 DEF Core, KernelInv, Queued
  <2>. QED BY Zenon, <1>7, <2>1, <2>2, <2>3, <2>4, <2>5 DEF Queued
<1>10. TypeInv'
  BY Zenon, <1>1, <1>2 DEF Core, TypeInv
<1>11. KernelInv'
  BY Zenon, <1>2, <1>4, <1>5, <1>8, <1>9 DEF Core, KernelInv
<1>12. RunInv'
  BY <1>1, <1>7, OneRuns
<1>13. pc[h] = "locked" /\ h # t /\ pc'[h] = "locked"
  BY Zenon, <1>1, <1>2, <1>6 DEF Core, KernelInv
<1>14. WaiteeInv'
  <2>1. /\ waitee[t] \in Threads /\ pc[waitee[t]] = "locked"
        /\ waitee[t] \in Range(k.waiters[SendLock]) => waitee[t] = h
    BY Zenon, <1>1 DEF Core, WaiteeInv, h
  <2>2. waitee[t] \notin Range(k'.waiters[SendLock]) /\ pc'[waitee[t]] = "locked"
    BY Zenon, <1>1, <1>2, <1>8, <2>1
  <2>. QED  BY <1>1, <1>2, <2>1, <2>2 DEF WaiteeInv
<1>15. Pending' = Pending /\ Owed' = Owed /\ Shares' = Shares
  BY Zenon, <1>1, <1>2, <1>3, <1>7 DEF Pending, Owed, Shares, Bit
<1>16. LockInv'
  <2>1. \A u \in Threads : pc'[u] \notin {"store", "first", "delete"}
    BY <1>2
  <2>2. h \in Takers
    BY Zenon, <1>6, <1>13 DEF Takers
  <2>3. Shares >= 1 /\ Shares + Owed <= 1 + 3 * requests
    BY <1>1, <2>2 DEF Core, LockInv
  <2>. QED  BY <1>1, <1>15, <2>1, <2>3 DEF LockInv
<1>17. DoneInv'
  BY Zenon, <1>1, <1>2, <1>7, <1>8, <1>15 DEF Core, DoneInv, Bit
<1>18. ASSUME requests' = 0
       PROVE  AloneInv'
  <2>1. AloneInv
    BY <1>1, <1>18 DEF Core
  <2>2. \A u \in Threads : ~Active(u)
    BY <1>1, <2>1 DEF AloneInv
  <2>3. \A u \in Threads : Active(u)' => u = h
    BY Zenon, <1>2, <1>8, <2>2 DEF Active
  <2>. QED BY Zenon, <1>1, <1>2, <1>7, <1>15, <2>1, <2>3 DEF AloneInv, Bit
<1>. QED BY Zenon, <1>10, <1>11, <1>12, <1>14, <1>16, <1>17, <1>18 DEF Core

(* ... and the waitee that was looked up is woken.                         *)
LEMMA UnlockWakeStep ==
    ASSUME Counting, Core, NEW t \in Threads, UnlockWake(t)
    PROVE  Core'
<1>1. /\ k.current = t /\ ~k.pendsv /\ pc[t] = "wake" /\ Goto(t, "idle")
      /\ "idle" \in Labels /\ k' = thread_wakeup(k, waitee[t])
      /\ UNCHANGED <<reg, waitee, send_async, object, txirq, requests>>
  BY Zenon DEF UnlockWake, At, signalling, hardware, Labels
<1>2. /\ pc' \in [Threads -> Labels] /\ pc'[t] = "idle"
      /\ \A u \in Threads : u # t => pc'[u] = pc[u] /\ pc[u] \in {"idle", "locked", "out"}
      /\ ~Transmitting /\ ~Sending /\ ~Transmitting' /\ ~Sending'
  BY <1>1, OneSteps
<1>3. Takers' = Takers /\ Cardinality(Takers)' = Cardinality(Takers)
  BY Zenon, <1>1, TakersSteps
<1>4. t \notin Range(k.waiters[SendLock]) /\ t \notin Range(k.waiters[SendDone])
  BY Zenon, <1>1 DEF Core, KernelInv
<1>5. /\ Range(k.waiters[SendLock]) \subseteq Threads
      /\ Range(k.waiters[SendDone]) \subseteq Threads
      /\ KernelType(k) /\ QueueExact(k) /\ k.state \in [Threads \cup {Idle} -> ThreadState]
  BY Zenon, QueuedTypes, Constants DEF Core, KernelInv, Queued
<1>6. /\ waitee[t] \in Threads
      /\ \A s \in Semaphores : waitee[t] \notin Range(k.waiters[s])
  <2>1. /\ waitee[t] \in Threads /\ pc[waitee[t]] = "locked"
        /\ waitee[t] \notin Range(k.waiters[SendLock])
    BY <1>1 DEF Core, WaiteeInv
  <2>2. waitee[t] \notin Range(k.waiters[SendDone])
    BY <2>1 DEF Core, KernelInv
  <2>. QED  BY <2>1, <2>2, Constants
<1>7. /\ KernelType(k') /\ QueueExact(k')
      /\ k'.state = [k.state EXCEPT ![waitee[t]] = "running"]
      /\ k'.current = k.current /\ k'.value = k.value /\ k'.waiters = k.waiters
      /\ k'.pendsv <=> (k.pendsv \/ k.current = Idle)
  <2>1. Woken(k, waitee[t], k')
    BY Zenon, <1>1, <1>5, <1>6, WakeupEffect
  <2>. QED BY Zenon, <2>1 DEF Woken
<1>8. Queued(k')
  <2>2. \A s \in Semaphores : \A u \in Range(k.waiters[s]) : u \in Threads /\ u # waitee[t]
    BY Zenon, <1>6, QueuedTypes DEF Core, KernelInv
  <2>3. \A s \in Semaphores : \A u \in Range(k'.waiters[s]) : k'.state[u] = "blocked"
    BY <1>7, <2>2 DEF Core, KernelInv, Queued
  <2>4. \A u \in Threads : k'.current = u /\ ~k'.pendsv => k'.state[u] = "running"
    BY <1>7 DEF Core, KernelInv, Queued
  <2>5. \A s \in Semaphores : IsInjective(k'.waiters[s])
    BY Zenon, <1>7 DEF Core, KernelInv, Queued
  <2>6. \A r, s \in Semaphores : \A u \in Range(k'.waiters[r]) :
           u \in Range(k'.waiters[s]) => r = s
    BY <1>7 DEF Core, KernelInv, Queued
  <2>. QED  BY <1>7, <2>3, <2>4, <2>5, <2>6 DEF Queued
<1>9. TypeInv'
  BY Zenon, <1>1, <1>2 DEF Core, TypeInv
<1>10. KernelInv'
  BY Zenon, <1>2, <1>4, <1>5, <1>7, <1>8 DEF Core, KernelInv
<1>11. RunInv' /\ WaiteeInv'
  BY Zenon, <1>1, OneRuns
<1>12. Pending' = Pending /\ Owed' = Owed /\ Shares' = Shares
  BY Zenon, <1>1, <1>2, <1>3, <1>7 DEF Pending, Owed, Shares, Bit
<1>13. \A u \in Threads : Active(u)' <=> Active(u)
  BY <1>1, <1>2, <1>7 DEF Active
<1>14. \A u \in Threads : pc'[u] \notin {"store", "first", "delete"}
  BY <1>2
<1>15. LockInv'
  BY Zenon, <1>1, <1>12, <1>13, <1>14 DEF Core, LockInv
<1>16. DoneInv'
  BY Zenon, <1>1, <1>2, <1>7, <1>12 DEF Core, DoneInv, Bit
<1>17. ASSUME requests' = 0
       PROVE  AloneInv'
  <2>1. AloneInv
    BY <1>1, <1>17 DEF Core
  <2>. QED BY Zenon, <1>1, <1>2, <1>7, <1>12, <1>13, <2>1 DEF AloneInv, Bit
<1>. QED  BY <1>9, <1>10, <1>11, <1>15, <1>16, <1>17 DEF Core

-----------------------------------------------------------------------------

LEMMA PendSVStep ==
    ASSUME Counting, Core, PendSV
    PROVE  Core'
<1>1. /\ k.pendsv /\ k' = schedule(k)
      /\ UNCHANGED <<pc, reg, waitee, send_async, object, txirq, requests>>
  BY DEF PendSV, signalling, hardware
<1>2. Queued(k') /\ k'.value = k.value /\ k'.waiters = k.waiters
  BY <1>1, QueuedSchedule DEF Core, KernelInv
<1>3. TypeInv'
  BY <1>1 DEF Core, TypeInv
<1>4. KernelInv'
  BY <1>1, <1>2 DEF Core, KernelInv
<1>5. RunInv'
  BY <1>1 DEF Core, RunInv
<1>6. WaiteeInv'
  BY <1>1, <1>2 DEF Core, WaiteeInv
<1>7. /\ Takers' = Takers /\ Transmitting' = Transmitting /\ Sending' = Sending
      /\ \A u \in Threads : Active(u)' <=> Active(u)
  BY Zenon, <1>1, <1>2 DEF Takers, Transmitting, Sending, Active
<1>8. Pending' = Pending /\ Owed' = Owed /\ Shares' = Shares
  BY Zenon, <1>1, <1>2, <1>7 DEF Pending, Owed, Shares
<1>9. LockInv'
  BY Zenon, <1>1, <1>7, <1>8 DEF Core, LockInv
<1>10. DoneInv'
  BY Zenon, <1>1, <1>2, <1>7, <1>8 DEF Core, DoneInv
<1>11. ASSUME requests' = 0
       PROVE  AloneInv'
  <2>1. AloneInv
    BY <1>1, <1>11 DEF Core
  <2>. QED  BY <1>1, <1>2, <1>7, <1>8, <2>1 DEF AloneInv
<1>. QED  BY <1>3, <1>4, <1>5, <1>6, <1>9, <1>10, <1>11 DEF Core

(* The frame is out: its interrupt is what pends now.                      *)
LEMMA BusStep ==
    ASSUME Counting, Core, Bus
    PROVE  Core'
<1>1. /\ object # NoFrame /\ object' = NoFrame /\ txirq' = TRUE
      /\ UNCHANGED <<k, pc, reg, waitee, send_async, requests>>
  BY DEF Bus, signalling
<1>2. TypeInv'
  BY Zenon, <1>1 DEF Core, TypeInv
<1>3. KernelInv' /\ RunInv' /\ WaiteeInv'
  BY <1>1 DEF Core, KernelInv, RunInv, WaiteeInv
<1>4. /\ Takers' = Takers /\ Transmitting' = Transmitting /\ Sending' = Sending
      /\ \A u \in Threads : Active(u)' <=> Active(u)
  BY Zenon, <1>1 DEF Takers, Transmitting, Sending, Active
<1>5. Shares' = Shares
  BY <1>1, <1>4 DEF Shares
<1>6. Pending' = 1 /\ Pending \in 1..2
  BY <1>1 DEF Pending, Bit
<1>7. Owed' \in 0..3 /\ Owed' <= Owed /\ Owed \in 0..3
  <2>1. Bit(Transmitting) \in 0..1 /\ Bit(Transmitting)' = Bit(Transmitting)
    BY <1>4 DEF Bit
  <2>2. CASE send_async
    <3>1. Owed = Pending + Bit(Transmitting) /\ Owed' = 1 + Bit(Transmitting)
      BY <1>1, <1>6, <2>1, <2>2 DEF Owed
    <3>. QED  BY <3>1, <1>6, <2>1
  <2>3. CASE ~send_async
    BY <1>1, <2>3 DEF Owed
  <2>. QED  BY <2>2, <2>3
<1>8. LockInv'
  <2>1. Shares + Owed <= 1 + 3 * requests /\ Shares \in Int /\ requests \in Nat
    BY SharesType DEF Core, LockInv
  <2>2. \A a \in Int, o, p \in 0..3, q \in Nat :
           p <= o /\ a + o <= 1 + 3 * q => a + p <= 1 + 3 * q
    OBVIOUS
  <2>3. Shares + Owed' <= 1 + 3 * requests
    BY Zenon, <1>7, <2>1, <2>2
  <2>4. \A u \in Threads : pc[u] = "store" =>
           /\ reg[u] + Cardinality(Takers) >= 1
           /\ reg[u] + Cardinality(Takers) + Owed' <= 1 + 3 * requests
    <3> SUFFICES ASSUME NEW u \in Threads, pc[u] = "store"
                 PROVE  /\ reg[u] + Cardinality(Takers) >= 1
                        /\ reg[u] + Cardinality(Takers) + Owed' <= 1 + 3 * requests
      OBVIOUS
    <3>1. /\ reg[u] + Cardinality(Takers) >= 1
          /\ reg[u] + Cardinality(Takers) + Owed <= 1 + 3 * requests
      BY DEF Core, LockInv
    <3>2. reg[u] \in Int /\ Cardinality(Takers) \in Nat
      BY SharesType DEF Core, TypeInv
    <3>3. reg[u] + Cardinality(Takers) \in Int
      BY <3>2
    <3>. QED BY <3>1, <3>3, <2>1, <1>7
  <2>. QED BY <1>1, <1>4, <1>5, <1>6, <2>3, <2>4 DEF Core, LockInv
<1>9. DoneInv'
  <2>1. /\ k.value[SendDone] + Pending <= requests + Bit(Sending)
        /\ k.value[SendDone] \in Int /\ requests \in Nat
    BY SharesType DEF Core, DoneInv
  <2>2. k.value[SendDone] + 1 <= requests + Bit(Sending)
    BY <2>1, <1>6, OwedType
  <2>. QED BY Zenon, <1>1, <1>4, <1>6, <2>2 DEF Core, DoneInv
<1>10. ASSUME requests' = 0
       PROVE  AloneInv'
  <2>1. AloneInv
    BY <1>1, <1>10 DEF Core
  <2>2. Pending = 1
    BY <1>1, <2>1 DEF AloneInv, Pending, Bit
  <2>. QED  BY <1>1, <1>4, <1>6, <2>1, <2>2 DEF AloneInv
<1>. QED  BY <1>2, <1>3, <1>8, <1>9, <1>10 DEF Core

(* The transmit interrupt: semaphore_signal(&can.send_done), and           *)
(* semaphore_signal(&can.send_lock) for an asynchronous send.              *)
LEMMA CallbackSignals ==
    ASSUME Counting, Core, can_rom_callback_tx
    PROVE  /\ Queued(k') /\ k'.current = k.current
           /\ k'.value[SendDone] = k.value[SendDone] + 1
           /\ Range(k'.waiters[SendDone]) \subseteq Range(k.waiters[SendDone])
           /\ Len(k'.waiters[SendDone]) \in Nat
           /\ Len(k'.waiters[SendDone]) >= Len(k.waiters[SendDone]) - 1
           /\ Range(k'.waiters[SendLock]) \subseteq Range(k.waiters[SendLock])
           /\ k.current # Idle => (k'.pendsv <=> k.pendsv)
           /\ send_async => /\ k'.value[SendLock] = k.value[SendLock] + 1
                            /\ k.waiters[SendLock] # <<>> =>
                                  Head(k.waiters[SendLock]) \notin Range(k'.waiters[SendLock])
           /\ ~send_async => /\ k'.value[SendLock] = k.value[SendLock]
                             /\ k'.waiters[SendLock] = k.waiters[SendLock]
<1> DEFINE done == semaphore_signal(k, SendDone)
<1>1. k' = IF send_async THEN semaphore_signal(done, SendLock) ELSE done
  BY DEF can_rom_callback_tx
<1>2. Signals(k, SendDone, done)
  <2>2. Queued(k) /\ k.value[SendDone] \in -128..126
    BY Zenon, Fits DEF Core, KernelInv
  <2>. QED BY Zenon, <2>2, QueuedSignal, Constants
<1> HIDE DEF done
<1>3. /\ Queued(done) /\ done.current = k.current
      /\ done.value[SendDone] = k.value[SendDone] + 1
      /\ Range(done.waiters[SendDone]) \subseteq Range(k.waiters[SendDone])
      /\ Len(done.waiters[SendDone]) \in Nat
      /\ Len(done.waiters[SendDone]) >= Len(k.waiters[SendDone]) - 1
      /\ done.value[SendLock] = k.value[SendLock]
      /\ done.waiters[SendLock] = k.waiters[SendLock]
      /\ k.current # Idle => (done.pendsv <=> k.pendsv)
  BY Zenon, <1>2, Constants DEF Signals
<1>4. CASE ~send_async
  BY Zenon, <1>1, <1>3, <1>4
<1>5. CASE send_async
  <2>2. done.value[SendLock] \in -128..126
    BY Zenon, <1>3, Fits
  <2>3. Signals(done, SendLock, k')
    BY Zenon, <1>1, <1>3, <1>5, <2>2, QueuedSignal, Constants
  <2>4. /\ Queued(k') /\ k'.current = done.current
        /\ k'.value[SendLock] = done.value[SendLock] + 1
        /\ Range(k'.waiters[SendLock]) \subseteq Range(done.waiters[SendLock])
        /\ done.waiters[SendLock] # <<>> =>
              Head(done.waiters[SendLock]) \notin Range(k'.waiters[SendLock])
        /\ k'.value[SendDone] = done.value[SendDone]
        /\ k'.waiters[SendDone] = done.waiters[SendDone]
        /\ done.current # Idle => (k'.pendsv <=> done.pendsv)
    BY Zenon, <2>3, Constants DEF Signals
  <2>. QED  BY <1>3, <1>5, <2>4
<1>. QED BY Zenon, <1>4, <1>5

LEMMA can_rom_callback_txStep ==
    ASSUME Counting, Core, can_rom_callback_tx
    PROVE  Core'
<1>1. /\ txirq /\ ~k.pendsv /\ txirq' = FALSE
      /\ UNCHANGED <<pc, reg, waitee, send_async, object, requests>>
  BY Zenon DEF can_rom_callback_tx, signalling
<1>2. /\ Queued(k') /\ k'.current = k.current
      /\ k'.value[SendDone] = k.value[SendDone] + 1
      /\ Range(k'.waiters[SendDone]) \subseteq Range(k.waiters[SendDone])
      /\ Len(k'.waiters[SendDone]) \in Nat
      /\ Len(k'.waiters[SendDone]) >= Len(k.waiters[SendDone]) - 1
      /\ Range(k'.waiters[SendLock]) \subseteq Range(k.waiters[SendLock])
      /\ k.current # Idle => (k'.pendsv <=> k.pendsv)
      /\ send_async => /\ k'.value[SendLock] = k.value[SendLock] + 1
                       /\ k.waiters[SendLock] # <<>> =>
                             Head(k.waiters[SendLock]) \notin Range(k'.waiters[SendLock])
      /\ ~send_async => /\ k'.value[SendLock] = k.value[SendLock]
                        /\ k'.waiters[SendLock] = k.waiters[SendLock]
  BY CallbackSignals
<1>3. TypeInv'
  BY <1>1 DEF Core, TypeInv
<1>4. KernelInv'
  BY Zenon, <1>1, <1>2 DEF Core, KernelInv
<1>5. RunInv'
  BY Zenon, <1>1, <1>2, IdleAssumption DEF Core, RunInv
<1>6. WaiteeInv'
  <2>1. SUFFICES ASSUME NEW t \in Threads, pc[t] \in {"delete", "wake"}
                 PROVE  /\ waitee[t] \in Threads /\ pc[waitee[t]] = "locked"
                        /\ waitee[t] \in Range(k'.waiters[SendLock]) =>
                              pc[t] = "delete" /\ waitee[t] = Head(k'.waiters[SendLock])
    BY Zenon, <1>1 DEF WaiteeInv
  <2>2. /\ waitee[t] \in Threads /\ pc[waitee[t]] = "locked"
        /\ waitee[t] \in Range(k.waiters[SendLock]) =>
              pc[t] = "delete" /\ waitee[t] = Head(k.waiters[SendLock])
    BY <2>1 DEF Core, WaiteeInv
  <2>3. waitee[t] \in Range(k.waiters[SendLock]) => k.waiters[SendLock] # <<>>
    BY DEF Range
  <2>. QED BY Zenon, <1>2, <2>2, <2>3
<1>7. /\ Takers' = Takers /\ Cardinality(Takers)' = Cardinality(Takers)
      /\ Transmitting' = Transmitting /\ Sending' = Sending
  BY Zenon, <1>1 DEF Takers, Transmitting, Sending
<1>8. ~send_async => \A u \in Threads : Active(u)' <=> Active(u)
  BY <1>1, <1>2 DEF Active
<1>9. Pending' = Pending - 1 /\ Pending \in 1..2
  BY <1>1 DEF Pending, Bit
<1>10. /\ send_async => Owed' = Owed - 1 /\ Shares' = Shares + 1
       /\ ~send_async => Owed' = 0 /\ Owed = 0 /\ Shares' = Shares
  <2>1. CASE send_async
    <3>1. Owed = Pending + Bit(Transmitting) /\ Owed' = Pending' + Bit(Transmitting)
      BY <1>1, <1>7, <2>1 DEF Owed
    <3>3. Bit(Transmitting) \in 0..1
      BY DEF Bit
    <3>4. Owed' = Owed - 1
      BY <3>1, <3>3, <1>9
    <3>5. \A v \in Int, n \in Nat : (v + 1) + n = (v + n) + 1
      OBVIOUS
    <3>6. Shares' = Shares + 1
      BY Zenon, <3>5, <1>2, <1>7, <2>1, SharesType DEF Shares
    <3>. QED  BY <2>1, <3>4, <3>6
  <2>2. CASE ~send_async
    BY Zenon, <1>1, <1>2, <1>7, <2>2 DEF Owed, Shares
  <2>. QED  BY <2>1, <2>2
<1>11. LockInv'
  <2>0. /\ Shares \in Int /\ requests \in Nat /\ Owed \in 0..3
        /\ Shares + Owed <= 1 + 3 * requests
    BY Zenon, SharesType, OwedType DEF Core, LockInv
  <2>1. CASE send_async
    <3>1. Shares >= 0
      BY <2>0 DEF Core, LockInv
    <3>2. Shares + 1 >= 1 /\ (Shares + 1) + (Owed - 1) <= 1 + 3 * requests
      BY <2>0, <3>1
    <3>3. \A u \in Threads : pc[u] = "store" =>
             /\ reg[u] + Cardinality(Takers) >= 1
             /\ reg[u] + Cardinality(Takers) + (Owed - 1) <= 1 + 3 * requests
      <4> SUFFICES ASSUME NEW u \in Threads, pc[u] = "store"
                   PROVE  /\ reg[u] + Cardinality(Takers) >= 1
                          /\ reg[u] + Cardinality(Takers) + (Owed - 1) <= 1 + 3 * requests
        OBVIOUS
      <4>1. /\ reg[u] + Cardinality(Takers) >= 1
            /\ reg[u] + Cardinality(Takers) + Owed <= 1 + 3 * requests
        BY DEF Core, LockInv
      <4>2. reg[u] \in Int /\ Cardinality(Takers) \in Nat
        BY SharesType DEF Core, TypeInv
      <4>. QED BY <4>1, <4>2, <2>0
    <3>. QED  BY <1>1, <1>7, <1>10, <2>1, <3>2, <3>3 DEF LockInv
  <2>2. CASE ~send_async
    BY Zenon, <1>1, <1>7, <1>10, <2>2 DEF Core, LockInv
  <2>. QED  BY <2>1, <2>2
<1>12. DoneInv'
  <2>1. /\ k.value[SendDone] + Pending <= requests + Bit(Sending)
        /\ k.value[SendDone] + Len(k.waiters[SendDone]) >= 0
    BY DEF Core, DoneInv
  <2>2. /\ k.value[SendDone] \in Int /\ requests \in Nat
        /\ Len(k.waiters[SendDone]) \in Nat /\ Bit(Sending) \in 0..1
    BY SharesType, OwedType
  <2>3. (k.value[SendDone] + 1) + (Pending - 1) <= requests + Bit(Sending)
    BY <2>1, <2>2, <1>9
  <2>4. (k.value[SendDone] + 1) + Len(k'.waiters[SendDone]) >= 0
    <3>1. \A v \in Int, m, n \in Nat : v + n >= 0 /\ m >= n - 1 => (v + 1) + m >= 0
      OBVIOUS
    <3>. QED  BY <3>1, <2>1, <2>2, <1>2
  <2>. QED  BY <1>1, <1>2, <1>7, <1>9, <2>3, <2>4 DEF DoneInv
<1>13. ASSUME requests' = 0
       PROVE  AloneInv'
  <2>1. AloneInv
    BY <1>1, <1>13 DEF Core
  <2>2. \A u \in Threads : Active(u)' <=> Active(u)
    BY <2>1, <1>8 DEF AloneInv
  <2>3. k.value[SendDone] + Pending >= Bit(Sending) /\ k.value[SendDone] \in Int
    BY <2>1, SharesType DEF AloneInv
  <2>4. (k.value[SendDone] + 1) + (Pending - 1) >= Bit(Sending)
    BY <2>3, OwedType
  <2>. QED BY Zenon, <1>1, <1>2, <1>7, <1>9, <2>1, <2>2, <2>4 DEF AloneInv
<1>. QED  BY <1>3, <1>4, <1>5, <1>6, <1>11, <1>12, <1>13 DEF Core

(* can_send by the receive interrupt, when it gets the lock: it will be    *)
(* given back by a transmit interrupt.                                     *)
LEMMA can_node_discovery_callbackStep ==
    ASSUME Counting, Core, can_node_discovery_callback, undefined' = "no"
    PROVE  Core'
<1>1. /\ requests < MaxRequests /\ ~k.pendsv /\ requests' = requests + 1
      /\ ~must_wait(k, SendLock) /\ k' = semaphore_wait(k, SendLock)
      /\ send_async' = TRUE /\ can_transmit(Response) /\ UNCHANGED <<pc, reg, waitee>>
  BY DEF can_node_discovery_callback, signalling
<1>2. /\ KernelType(k') /\ QueueExact(k') /\ k.value[SendLock] >= 1
      /\ k'.value = [k.value EXCEPT ![SendLock] = k.value[SendLock] - 1]
      /\ k'.state = k.state /\ k'.current = k.current
      /\ k'.pendsv = k.pendsv /\ k'.waiters = k.waiters
  <2>2. k.value[SendLock] \in -127..127
    BY Zenon, Fits
  <2>3. KernelType(k) /\ QueueExact(k)
    BY Zenon DEF Core, KernelInv, Queued
  <2>4. Passed(k, SendLock, k')
    BY Zenon, <1>1, <2>2, <2>3, WaitPasses, Constants
  <2>. QED  BY <2>4 DEF Passed
<1>3. /\ k'.value[SendLock] = k.value[SendLock] - 1
      /\ k'.value[SendDone] = k.value[SendDone]
  <2>1. k.value \in [Semaphores -> Int]
    BY Zenon, QueuedTypes DEF Core, KernelInv
  <2>. QED  BY <1>2, <2>1, Constants
<1>4. Queued(k')
  BY <1>2 DEF Core, KernelInv, Queued
<1>5. /\ Pending' \in 1..2 /\ Pending' <= Pending + 1 /\ txirq' \in BOOLEAN
      /\ object' = Response
  <2>1. Response # NoFrame
    BY CanAssumption
  <2>2. txirq \in BOOLEAN
    BY Zenon DEF Core, TypeInv
  <2>. QED  BY <1>1, <2>1, <2>2, TransmitPends
<1>6. TypeInv'
  <2>1. requests' \in 0..MaxRequests
    BY <1>1, CanAssumption DEF Core, TypeInv
  <2>. QED  BY <1>1, <1>5, <2>1 DEF Core, TypeInv
<1>7. KernelInv' /\ RunInv' /\ WaiteeInv'
  <2>1. KernelInv'
    BY <1>1, <1>2, <1>4 DEF Core, KernelInv
  <2>2. RunInv'
    BY Zenon, <1>1, <1>2 DEF Core, RunInv
  <2>3. WaiteeInv'
    BY <1>1, <1>2 DEF Core, WaiteeInv
  <2>. QED BY Zenon, <2>1, <2>2, <2>3
<1>8. /\ Takers' = Takers /\ Cardinality(Takers)' = Cardinality(Takers)
      /\ Transmitting' = Transmitting /\ Sending' = Sending
      /\ \A u \in Threads : Active(u)' <=> Active(u)
  BY Zenon, <1>1, <1>2 DEF Takers, Transmitting, Sending, Active
<1>9. /\ Shares \in Int /\ k.value[SendLock] \in Int /\ k.value[SendDone] \in Int
      /\ Cardinality(Takers) \in Nat /\ requests \in Nat /\ Len(k.waiters[SendDone]) \in Nat
      /\ Owed \in 0..3 /\ Pending \in 0..2 /\ Bit(Sending) \in 0..1
  BY SharesType, OwedType
<1>10. Owed' \in 0..3
  <2>1. Owed' = Pending' + Bit(Transmitting)'
    BY <1>1 DEF Owed
  <2>2. Bit(Transmitting)' \in 0..1
    BY DEF Bit
  <2>. QED BY <2>1, <2>2, <1>5
<1>11. Shares' = Shares - 1
  <2>. QED BY <1>3, <1>8, <1>9 DEF Shares
<1>12. LockInv'
  <2>1. Shares + Owed <= 1 + 3 * requests
    BY DEF Core, LockInv
  <2>2. \A a \in Int, o, p \in 0..3, q \in Nat :
           a + o <= 1 + 3 * q => a + p <= 1 + 3 * (q + 1) /\ (a - 1) + p <= 1 + 3 * (q + 1)
    OBVIOUS
  <2>3. (Shares - 1) + Owed' <= 1 + 3 * (requests + 1)
    BY <1>9, <1>10, <2>1, <2>2
  <2>4. \A u \in Threads : pc[u] = "store" =>
           /\ reg[u] + Cardinality(Takers) >= 1
           /\ reg[u] + Cardinality(Takers) + Owed' <= 1 + 3 * (requests + 1)
    <3> SUFFICES ASSUME NEW u \in Threads, pc[u] = "store"
                 PROVE  /\ reg[u] + Cardinality(Takers) >= 1
                        /\ reg[u] + Cardinality(Takers) + Owed' <= 1 + 3 * (requests + 1)
      OBVIOUS
    <3>1. /\ reg[u] + Cardinality(Takers) >= 1
          /\ reg[u] + Cardinality(Takers) + Owed <= 1 + 3 * requests
      BY DEF Core, LockInv
    <3>2. reg[u] \in Int
      BY DEF Core, TypeInv
    <3>3. reg[u] + Cardinality(Takers) \in Int
      BY <3>2, <1>9
    <3>. QED BY <3>1, <3>3, <1>9, <1>10
  <2>5. CASE Cardinality(Takers) # 0
    <3>1. k.value[SendLock] >= 1 /\ k.value[SendLock] \in Int /\ Cardinality(Takers) \in Nat
      BY Zenon, <1>2, <1>9
    <3>2. Shares - 1 >= 1
      BY <2>5, <3>1 DEF Shares
    <3>. QED BY Zenon, <1>1, <1>8, <1>11, <2>3, <2>4, <3>2 DEF LockInv
  <2>6. CASE Cardinality(Takers) = 0
    <3>1. Takers = {}
      BY <2>6, TakersCount
    <3>2. \A u \in Threads : ~Active(u)
      BY <3>1, ActiveTakes
    <3>4. Shares - 1 >= 1 \/ Shares - 1 = 0
      <4>1. k.value[SendLock] >= 1 /\ k.value[SendLock] \in Int
        BY Zenon, <1>2, <1>9
      <4>. QED BY <2>6, <4>1 DEF Shares
    <3>5. Pending' >= 1
      BY <1>5
    <3>. QED  BY <1>1, <1>8, <1>11, <2>3, <2>4, <3>1, <3>2, <3>4, <3>5 DEF LockInv
  <2>. QED  BY <2>5, <2>6
<1>13. DoneInv'
  <2>1. /\ k.value[SendDone] + Pending <= requests + Bit(Sending)
        /\ k.value[SendDone] + Len(k.waiters[SendDone]) >= 0
    BY DEF Core, DoneInv
  <2>3. k.value[SendDone] + Pending' <= (requests + 1) + Bit(Sending)
    BY <2>1, <1>5, <1>9
  <2>. QED BY Zenon, <1>1, <1>2, <1>3, <1>8, <2>1, <2>3 DEF DoneInv
<1>14. requests' # 0
  BY <1>1, <1>9
<1>. QED  BY <1>6, <1>7, <1>12, <1>13, <1>14 DEF Core

-----------------------------------------------------------------------------

LEMMA InitStep == Counting /\ Init => Core
<1> SUFFICES ASSUME Counting, Init
             PROVE  Core
  OBVIOUS
<1>1. PICK order \in Bijection(1..Cardinality(Threads), Threads) :
         k = [state   |-> [t \in Threads \cup {Idle} |->
                             IF t = Idle THEN "stopped" ELSE "running"],
              queue   |-> order, current |-> Head(order), pendsv |-> FALSE,
              value   |-> [s \in Semaphores |-> IF s = SendLock THEN 1 ELSE 0],
              waiters |-> [s \in Semaphores |-> <<>>]]
  BY Zenon DEF Init
<1>2. /\ pc = [t \in Threads |-> "idle"]
      /\ reg = [t \in Threads |-> 0] /\ waitee = [t \in Threads |-> Idle]
      /\ send_async = FALSE /\ object = NoFrame /\ txirq = FALSE /\ requests = 0
  BY DEF Init
<1>3. Cardinality(Threads) \in Nat \ {0}
  <2>1. \A n \in 1..126 : n \in Nat \ {0}
    OBVIOUS
  <2>. QED  BY <2>1, CanAssumption
<1>4. order \in Seq(Threads) /\ IsInjective(order) /\ Range(order) = Threads /\ Head(order) \in Threads
  <2>1. /\ order \in [1..Cardinality(Threads) -> Threads] /\ IsInjective(order)
        /\ \A t \in Threads : \E i \in 1..Cardinality(Threads) : order[i] = t
    BY DEF Bijection, Injection, Surjection
  <2>2. order \in Seq(Threads) /\ Len(order) = Cardinality(Threads)
    BY <2>1, <1>3
  <2>3. Range(order) = Threads
    BY <2>1 DEF Range
  <2>4. Head(order) \in Threads
    BY <2>2, <1>3
  <2>. QED  BY <2>1, <2>2, <2>3, <2>4
<1>5. /\ k.state = [t \in Threads \cup {Idle} |-> IF t = Idle THEN "stopped" ELSE "running"]
      /\ k.queue = order /\ k.current = Head(order) /\ k.pendsv = FALSE
      /\ k.value = [s \in Semaphores |-> IF s = SendLock THEN 1 ELSE 0]
      /\ k.waiters = [s \in Semaphores |-> <<>>]
  BY <1>1
<1>6. TypeInv
  <2>1. 0 \in 0..MaxRequests
    BY CanAssumption
  <2>2. pc \in [Threads -> Labels]
    BY <1>2 DEF Labels
  <2>3. reg \in [Threads -> Int] /\ waitee \in [Threads -> Threads \cup {Idle}]
    BY <1>2
  <2>. QED  BY <1>2, <2>1, <2>2, <2>3 DEF TypeInv
<1>7. KernelType(k)
  <2>1. k.state \in [Threads \cup {Idle} -> ThreadState]
    BY <1>5 DEF ThreadState
  <2>2. k.value \in [Semaphores -> Int] /\ k.waiters \in [Semaphores -> Seq(Threads)]
    BY <1>5
  <2>3. k = [state |-> k.state, queue |-> k.queue, current |-> k.current,
             pendsv |-> k.pendsv, value |-> k.value, waiters |-> k.waiters]
    BY Zenon, <1>1
  <2>. QED BY Zenon, <1>4, <1>5, <2>1, <2>2, <2>3 DEF KernelType
<1>8. QueueExact(k)
  BY <1>4, <1>5, IdleAssumption DEF QueueExact, Running
<1>9. \A s \in Semaphores : Range(k.waiters[s]) = {} /\ k.waiters[s] = <<>>
  BY <1>5 DEF Range
<1>10. KernelInv
  <2>1. \A s \in Semaphores : IsInjective(k.waiters[s])
    BY <1>9 DEF IsInjective
  <2>2. \A t \in Threads : k.state[t] = "running"
    BY <1>5, IdleAssumption
  <2>. QED BY Zenon, <1>7, <1>8, <1>9, <2>1, <2>2, Constants DEF KernelInv, Queued
<1>11. RunInv /\ WaiteeInv
  BY Zenon, <1>2 DEF RunInv, WaiteeInv
<1>12. Takers = {} /\ Cardinality(Takers) = 0
  BY <1>2, TakersCount DEF Takers
<1>13. k.value[SendLock] = 1 /\ k.value[SendDone] = 0 /\ Len(k.waiters[SendDone]) = 0
  BY <1>5, Constants
<1>14. Pending = 0 /\ Owed = 0 /\ ~Sending
  BY <1>2 DEF Pending, Owed, Bit, Sending
<1>15. LockInv
  BY <1>2, <1>12, <1>13, <1>14 DEF LockInv, Shares
<1>16. DoneInv
  BY <1>2, <1>13, <1>14 DEF DoneInv, Bit
<1>17. AloneInv
  BY <1>2, <1>13, <1>14 DEF AloneInv, Bit, Active
<1>. QED  BY <1>6, <1>10, <1>11, <1>15, <1>16, <1>17 DEF Core

LEMMA CoreStutters == Core /\ UNCHANGED vars => Core'
<1> SUFFICES ASSUME Core, UNCHANGED vars
             PROVE  Core'
  OBVIOUS
<1>1. UNCHANGED <<k, pc, reg, waitee, send_async, object, txirq, requests>>
  BY DEF vars
<1>2. /\ Takers' = Takers /\ Transmitting' = Transmitting /\ Sending' = Sending
      /\ \A u \in Threads : Active(u)' <=> Active(u)
  BY <1>1 DEF Takers, Transmitting, Sending, Active
<1>3. Pending' = Pending /\ Owed' = Owed /\ Shares' = Shares
  BY Zenon, <1>1, <1>2 DEF Pending, Owed, Shares
<1>4. TypeInv' /\ KernelInv' /\ RunInv' /\ WaiteeInv'
  BY Zenon, <1>1 DEF Core, TypeInv, KernelInv, RunInv, WaiteeInv
<1>5. LockInv' /\ DoneInv'
  BY <1>1, <1>2, <1>3 DEF Core, LockInv, DoneInv
<1>6. (requests = 0 => AloneInv)'
  BY Zenon, <1>1, <1>2, <1>3 DEF Core, AloneInv
<1>. QED  BY <1>4, <1>5, <1>6 DEF Core

LEMMA NextStep == Counting /\ IInv /\ [Next]_vars => IInv'
<1> SUFFICES ASSUME Counting, IInv, [Next]_vars, undefined' = "no"
             PROVE  Core'
  BY DEF IInv
<1>1. CASE UNCHANGED vars
  <2>1. undefined = "no"
    BY <1>1 DEF vars
  <2>. QED  BY <1>1, <2>1, CoreStutters DEF IInv
<1>2. CASE PendSV
  BY <1>2, PendSVStep DEF IInv, PendSV
<1>3. CASE Bus
  BY <1>3, BusStep DEF IInv, Bus
<1>4. CASE can_rom_callback_tx
  BY <1>4, can_rom_callback_txStep DEF IInv, can_rom_callback_tx
<1>5. CASE can_node_discovery_callback
  BY <1>5, can_node_discovery_callbackStep DEF IInv, can_node_discovery_callback
<1>6. ASSUME NEW t \in Threads, ThreadStep(t)
      PROVE  Core'
  <2>1. CASE SendLockWait(t)
    BY <2>1, SendLockWaitStep DEF IInv, SendLockWait
  <2>2. CASE SendSync(t)
    BY Zenon, <2>2, SendSyncStep DEF IInv, SendSync
  <2>3. CASE SendTransmit(t)
    BY <2>3, SendTransmitStep DEF IInv, SendTransmit
  <2>4. CASE SendDoneWait(t)
    BY <2>4, SendDoneWaitStep DEF IInv, SendDoneWait
  <2>5. CASE UnlockLoad(t)
    BY <2>5, UnlockLoadStep DEF IInv, UnlockLoad
  <2>6. CASE UnlockStore(t)
    BY <2>6, UnlockStoreStep DEF IInv, UnlockStore
  <2>7. CASE UnlockFirst(t)
    BY Zenon, <2>7, UnlockFirstStep DEF IInv, UnlockFirst
  <2>8. CASE UnlockDelete(t)
    BY <2>8, UnlockDeleteStep DEF IInv, UnlockDelete
  <2>9. CASE UnlockWake(t)
    BY <2>9, UnlockWakeStep DEF IInv, UnlockWake
  <2>. QED  BY <1>6, <2>1, <2>2, <2>3, <2>4, <2>5, <2>6, <2>7, <2>8, <2>9 DEF ThreadStep
<1>. QED  BY <1>1, <1>2, <1>3, <1>4, <1>5, <1>6 DEF Next, IdleLoop, Undefined

-----------------------------------------------------------------------------

\* How a step of t to the label l changes what CanSpec sees of it.
ClientAt(l) ==
    CASE l \in {"locked", "transmit"} -> "waiting"
      [] l \in {"sending", "out"} -> "sending"
      [] OTHER -> "idle"

LEMMA ClientSteps ==
    ASSUME Counting, Core, NEW t \in Threads, NEW l \in Labels, Goto(t, l)
    PROVE  /\ Client[t] = ClientAt(pc[t])
           /\ Client' = [Client EXCEPT ![t] = ClientAt(l)]
           /\ ClientAt(l) = ClientAt(pc[t]) => Client' = Client
<1>1. pc \in [Threads -> Labels]
  BY DEF Core, TypeInv
<1>2. Client = [u \in Threads |-> ClientAt(pc[u])]
  BY DEF Client, ClientAt
<1>3. Client' = [u \in Threads |-> ClientAt(pc'[u])]
  BY DEF Client, ClientAt
<1>4. \A u \in Threads : pc'[u] = IF u = t THEN l ELSE pc[u]
  BY Zenon, <1>1 DEF Goto
<1> HIDE DEF ClientAt
<1>6. Client' = [Client EXCEPT ![t] = ClientAt(l)]
  BY Zenon, <1>2, <1>3, <1>4
<1>. QED BY <1>2, <1>6

(* Every step of a thread is a step of CanSpec, or none, as long as only   *)
(* threads send.                                                           *)
LEMMA ThreadStepMaps ==
    ASSUME Counting, Core, requests = 0, NEW t \in Threads, ThreadStep(t)
    PROVE  /\ requests' = requests
           /\ \/ Client' = Client /\ object' = object
              \/ Abstract!Call(t) \/ Abstract!Transmit(t) \/ Abstract!Return(t)
<1>0. /\ \A l \in {"idle", "locked", "transmit", "sending", "out", "store", "first",
                   "delete", "wake"} : l \in Labels
      /\ ClientAt("locked") = "waiting" /\ ClientAt("transmit") = "waiting"
      /\ ClientAt("sending") = "sending" /\ ClientAt("out") = "sending"
      /\ \A l \in {"idle", "store", "first", "delete", "wake"} : ClientAt(l) = "idle"
  BY DEF ClientAt, Labels
<1>1. CASE SendLockWait(t)
  <2>1. /\ pc[t] = "idle" /\ Goto(t, "locked") /\ object' = object /\ requests' = requests
    BY Zenon, <1>1 DEF SendLockWait, At, hardware
  <2>2. Client[t] = "idle" /\ Client' = [Client EXCEPT ![t] = "waiting"]
    BY <1>0, <2>1, ClientSteps
  <2>. QED BY Zenon, <2>1, <2>2 DEF Abstract!Call
<1>2. CASE SendSync(t)
  <2>1. /\ pc[t] = "locked" /\ Goto(t, "transmit") /\ object' = object /\ requests' = requests
    BY Zenon, <1>2 DEF SendSync, At, hardware
  <2>. QED  BY <1>0, <2>1, ClientSteps
<1>3. CASE SendTransmit(t)
  <2>1. /\ pc[t] = "transmit" /\ Goto(t, "sending") /\ object' = t /\ requests' = requests
        /\ k.current = t /\ ~k.pendsv
    BY Zenon, <1>3 DEF SendTransmit, At, can_transmit
  <2>2. Client[t] = "waiting" /\ Client' = [Client EXCEPT ![t] = "sending"]
    BY <1>0, <2>1, ClientSteps
  <2>3. ~Sending
    BY <1>0, <2>1, OneSteps
  <2>4. object = NoFrame
    BY <2>1, <2>3, NothingPends DEF Active
  <2>. QED  BY <2>1, <2>2, <2>4 DEF Abstract!Transmit
<1>4. CASE SendDoneWait(t)
  <2>1. /\ pc[t] = "sending" /\ Goto(t, "out") /\ object' = object /\ requests' = requests
    BY Zenon, <1>4 DEF SendDoneWait, At, hardware
  <2>. QED BY Zenon, <1>0, <2>1, ClientSteps
<1>5. CASE UnlockLoad(t)
  <2>1. /\ pc[t] = "out" /\ Goto(t, "store") /\ object' = object /\ requests' = requests
        /\ k.current = t /\ ~k.pendsv
    BY Zenon, <1>5 DEF UnlockLoad, At, hardware
  <2>2. Client[t] = "sending" /\ Client' = [Client EXCEPT ![t] = "idle"]
    BY <1>0, <2>1, ClientSteps
  <2>3. ~Sending
    BY Zenon, <1>0, <2>1, OneSteps
  <2>4. object # t
    BY Zenon, <2>1, <2>3, NothingPends, CanAssumption DEF Active
  <2>. QED  BY <2>1, <2>2, <2>4 DEF Abstract!Return
<1>6. CASE UnlockStore(t)
  <2>1. /\ pc[t] = "store" /\ Goto(t, "first") /\ object' = object /\ requests' = requests
    BY <1>6 DEF UnlockStore, At, hardware
  <2>. QED BY Zenon, <1>0, <2>1, ClientSteps
<1>7. CASE UnlockFirst(t)
  <2>1. /\ pc[t] = "first" /\ object' = object /\ requests' = requests
        /\ Goto(t, "idle") \/ Goto(t, "delete")
    BY <1>7 DEF UnlockFirst, At, hardware
  <2>. QED BY Zenon, <1>0, <2>1, ClientSteps
<1>8. CASE UnlockDelete(t)
  <2>1. /\ pc[t] = "delete" /\ object' = object /\ requests' = requests
        /\ Goto(t, "wake") \/ pc' = pc
    BY <1>8 DEF UnlockDelete, At, hardware
  <2>2. pc' = pc => Client' = Client
    BY DEF Client
  <2>. QED  BY <1>0, <2>1, <2>2, ClientSteps
<1>9. CASE UnlockWake(t)
  <2>1. /\ pc[t] = "wake" /\ Goto(t, "idle") /\ object' = object /\ requests' = requests
    BY <1>9 DEF UnlockWake, At, hardware
  <2>. QED  BY <1>0, <2>1, ClientSteps
<1>. QED  BY <1>1, <1>2, <1>3, <1>4, <1>5, <1>6, <1>7, <1>8, <1>9 DEF ThreadStep

LEMMA StepMaps ==
    ASSUME Counting, IInv, IInv', [Next]_vars
    PROVE  [Abstract!Next]_(Abstract!vars)
<1>1. CASE UNCHANGED vars
  BY <1>1 DEF vars, Abstract!vars, Client
<1> SUFFICES ASSUME Next, ~UNCHANGED vars
             PROVE  [Abstract!Next]_(Abstract!vars)
  BY <1>1
<1>2. undefined = "no" /\ Core
  BY Zenon DEF Next, IdleLoop, Undefined, PendSV, Bus, can_rom_callback_tx,
     can_node_discovery_callback, ThreadStep, SendLockWait, SendSync, SendTransmit,
     SendDoneWait, UnlockLoad, UnlockStore, UnlockFirst, UnlockDelete, UnlockWake, At, IInv
<1>3. requests \in Nat
  BY Zenon, <1>2, SharesType
<1>4. CASE requests > 0 \/ can_node_discovery_callback
  <2>1. requests' = requests \/ requests' = requests + 1
    BY Zenon DEF Next, IdleLoop, Undefined, PendSV, Bus, can_rom_callback_tx,
       can_node_discovery_callback, ThreadStep, SendLockWait, SendSync, SendTransmit,
       SendDoneWait, UnlockLoad, UnlockStore, UnlockFirst, UnlockDelete, UnlockWake
  <2>2. can_node_discovery_callback => requests' = requests + 1
    BY DEF can_node_discovery_callback
  <2>3. requests' > 0
    BY <1>3, <1>4, <2>1, <2>2
  <2>. QED  BY <2>3 DEF Abstract!Next
<1>5. CASE requests = 0 /\ ~can_node_discovery_callback
  <2>1. CASE PendSV \/ can_rom_callback_tx
    BY <2>1 DEF PendSV, can_rom_callback_tx, hardware, Abstract!vars, Client
  <2>2. CASE Bus
    <3>1. Abstract!Out /\ (requests > 0)' = (requests > 0)
      BY <2>2 DEF Bus, Abstract!Out, Client
    <3>. QED  BY <3>1 DEF Abstract!Next, Abstract!Promised
  <2>3. ASSUME NEW t \in Threads, ThreadStep(t)
        PROVE  [Abstract!Next]_(Abstract!vars)
    <3>1. /\ requests' = requests
          /\ \/ Client' = Client /\ object' = object
             \/ Abstract!Call(t) \/ Abstract!Transmit(t) \/ Abstract!Return(t)
      BY Zenon, <1>2, <1>5, <2>3, ThreadStepMaps
    <3>. QED BY <3>1 DEF Abstract!Next, Abstract!Promised, Abstract!vars
  <2>. QED  BY <1>5, <2>1, <2>2, <2>3 DEF Next, IdleLoop, Undefined
<1>. QED  BY <1>3, <1>4, <1>5

-----------------------------------------------------------------------------

INSTANCE FiniteSetTheorems

LEMMA ThreadsCount == Counting
<1>1. ASSUME NEW q \in Seq(Threads), IsInjective(q)
      PROVE  Len(q) <= Cardinality(Threads)
  <2>1. q \in Injection(1..Len(q), Threads)
    BY <1>1 DEF Injection
  <2>3. Cardinality(1..Len(q)) = IF 1 > Len(q) THEN 0 ELSE Len(q) - 1 + 1
    BY FS_Interval
  <2>4. Cardinality(1..Len(q)) = Len(q)
    BY <2>3
  <2>. QED  BY <2>1, <2>4, FS_Injection, CanAssumption
<1>2. ASSUME NEW S \in SUBSET Threads
      PROVE  /\ IsFiniteSet(S)
             /\ Cardinality(S) \in Nat /\ Cardinality(S) <= Cardinality(Threads)
             /\ Cardinality(S) = 0 <=> S = {}
  <2>1. IsFiniteSet(S) /\ Cardinality(S) <= Cardinality(Threads)
    BY FS_Subset, CanAssumption
  <2>. QED  BY <2>1, FS_CardinalityType, FS_EmptySet
<1>4. ASSUME NEW S \in SUBSET Threads, NEW t \in S
      PROVE  Cardinality(S \ {t}) = Cardinality(S) - 1
  BY <1>2, FS_RemoveElement
<1>. QED BY <1>1, <1>2, <1>4 DEF Counting

LEMMA Invariance == Spec => []IInv
<1>1. Init => IInv
  BY InitStep, ThreadsCount DEF IInv
<1>. QED  BY <1>1, NextStep, ThreadsCount, PTL DEF Spec

-----------------------------------------------------------------------------

(* send_lock is never lost: when no can_send is under way and no transmit  *)
(* interrupt is to come, it is free, however many answers the receive      *)
(* interrupt has sent in between (can_rom.c).                              *)
THEOREM LockReturned == Spec => []LockComesBack
<1>1. IInv => LockComesBack
  <2> SUFFICES ASSUME Counting, Core, object = NoFrame, ~txirq,
                      \A t \in Threads : pc[t] = "idle"
               PROVE  k.value[SendLock] >= 1
    BY Zenon, ThreadsCount DEF IInv, LockComesBack
  <2>1. Takers = {} /\ Cardinality(Takers) = 0
    BY TakersCount DEF Takers
  <2>2. Pending = 0
    BY DEF Pending, Bit
  <2>3. Shares >= 1
    BY <2>2 DEF Core, LockInv
  <2>. QED BY <2>1, <2>3, SharesType DEF Shares
<1>. QED  BY <1>1, Invariance, PTL

(* The driver implements CanSpec, what can_send promises to threads: a     *)
(* frame in message object 0 is never overwritten, and can_send does not   *)
(* return before its own frame is out (can_rom.c).                         *)
THEOREM DriverRefines == Spec => ImplementsCanSpec
<1>1. Init => Abstract!Init
  BY DEF Init, Abstract!Init, Client
<1>2. IInv /\ IInv' /\ [Next]_vars => [Abstract!Next]_(Abstract!vars)
  BY StepMaps, ThreadsCount
<1>. QED  BY <1>1, <1>2, Invariance, PTL DEF Spec, Abstract!Spec, ImplementsCanSpec
==============================================================================
