----------------------------- MODULE KernelProofs ----------------------------
(***************************************************************************)
(* Every kernel operation keeps the run queue equal to the set of RUNNING  *)
(* threads, for any number of threads and semaphores.  First what the list *)
(* operations do to a list in which every entry occurs once.  The proofs   *)
(* of the modules that use the kernel cite these lemmas.                   *)
(***************************************************************************)
EXTENDS Kernel, TLAPS

(* Two lists one after the other.                                          *)
LEMMA Concatenation ==
    ASSUME NEW S, NEW a \in Seq(S), NEW b \in Seq(S)
    PROVE  /\ a \o b \in Seq(S)
           /\ Len(a \o b) = Len(a) + Len(b)
           /\ \A j \in 1..(Len(a) + Len(b)) :
                 (a \o b)[j] = IF j <= Len(a) THEN a[j] ELSE b[j - Len(a)]
OBVIOUS

(* A sequence without some position: what list_delete makes of a list.     *)
LEMMA WithoutProperties ==
    ASSUME NEW S, NEW q \in Seq(S), NEW i \in 1..Len(q)
    PROVE  /\ Without(q, i) \in Seq(S)
           /\ Len(Without(q, i)) = Len(q) - 1
           /\ \A j \in 1..(Len(q) - 1) :
                 Without(q, i)[j] = IF j < i THEN q[j] ELSE q[j + 1]
<1> DEFINE a == SubSeq(q, 1, i - 1)
           b == SubSeq(q, i + 1, Len(q))
<1>1. a \in Seq(S) /\ Len(a) = i - 1 /\ \A j \in 1..(i - 1) : a[j] = q[j]
  OBVIOUS
<1>2. /\ b \in Seq(S) /\ Len(b) = Len(q) - i
      /\ \A j \in 1..(Len(q) - i) : b[j] = q[i + j]
  OBVIOUS
<1>3. Without(q, i) = a \o b
  BY DEF Without
<1> HIDE DEF a, b
<1>4. /\ a \o b \in Seq(S) /\ Len(a \o b) = Len(a) + Len(b)
      /\ \A j \in 1..(Len(a) + Len(b)) :
            (a \o b)[j] = IF j <= Len(a) THEN a[j] ELSE b[j - Len(a)]
  BY <1>1, <1>2, Concatenation
<1>5. \A j \in 1..(Len(q) - 1) : (a \o b)[j] = IF j < i THEN q[j] ELSE q[j + 1]
  BY <1>1, <1>2, <1>4
<1> QED BY <1>1, <1>2, <1>3, <1>4, <1>5

(* list_delete takes out the entry and nothing else.                       *)
LEMMA DeleteProperties ==
    ASSUME NEW S, NEW q \in Seq(S), IsInjective(q), NEW e
    PROVE  /\ list_delete(q, e) \in Seq(S)
           /\ IsInjective(list_delete(q, e))
           /\ Range(list_delete(q, e)) = Range(q) \ {e}
<1>1. CASE e \notin Range(q)
  BY <1>1 DEF list_delete
<1>2. CASE e \in Range(q)
  <2> DEFINE i == IndexOf(q, e)
             d == Without(q, i)
  <2>1. i \in 1..Len(q) /\ q[i] = e
    BY <1>2 DEF IndexOf, Range
  <2>2. /\ d \in Seq(S) /\ Len(d) = Len(q) - 1
        /\ \A j \in 1..(Len(q) - 1) : d[j] = IF j < i THEN q[j] ELSE q[j + 1]
    BY <2>1, WithoutProperties
  <2> HIDE DEF d, i
  <2>3. IsInjective(d)
    <3> SUFFICES ASSUME NEW a \in 1..(Len(q) - 1), NEW b \in 1..(Len(q) - 1),
                        d[a] = d[b]
                 PROVE  a = b
      BY <2>2 DEF IsInjective
    <3> DEFINE f(x) == IF x < i THEN x ELSE x + 1
    <3>1. f(a) \in DOMAIN q /\ f(b) \in DOMAIN q /\ q[f(a)] = q[f(b)]
      BY <2>1, <2>2
    <3>2. f(a) = f(b)
      BY <3>1 DEF IsInjective
    <3> QED BY <2>1, <3>2
  <2>4. Range(d) \subseteq Range(q) \ {e}
    BY SMTT(40), <2>1, <2>2 DEF Range, IsInjective
  <2>5. Range(q) \ {e} \subseteq Range(d)
    <3> SUFFICES ASSUME NEW j \in 1..Len(q), q[j] # e
                 PROVE  q[j] \in Range(d)
      BY DEF Range
    <3>1. CASE j < i
      <4>1. j \in 1..Len(d) /\ d[j] = q[j]
        BY <2>1, <2>2, <3>1
      <4> QED BY <4>1, <2>2 DEF Range
    <3>2. CASE j > i
      <4>1. j - 1 \in 1..Len(d) /\ d[j - 1] = q[j]
        BY <2>1, <2>2, <3>2
      <4> QED BY <4>1, <2>2 DEF Range
    <3> QED BY <2>1, <3>1, <3>2
  <2> QED BY <1>2, <2>2, <2>3, <2>4, <2>5 DEF list_delete, d, i
<1> QED BY <1>1, <1>2

(* list_append puts the entry in, once, wherever it was before.            *)
LEMMA AppendOnce ==
    ASSUME NEW S, NEW q \in Seq(S), IsInjective(q), NEW e \in S
    PROVE  /\ list_append(q, e) \in Seq(S)
           /\ IsInjective(list_append(q, e))
           /\ Range(list_append(q, e)) = Range(q) \cup {e}
           /\ e \notin Range(q) => list_append(q, e) = Append(q, e)
<1> DEFINE d == list_delete(q, e)
<1>1. d \in Seq(S) /\ IsInjective(d) /\ Range(d) = Range(q) \ {e}
  BY DeleteProperties
<1>5. e \notin Range(q) => d = q
  BY DEF list_delete
<1>6. list_append(q, e) = Append(d, e)
  BY DEF list_append
<1> HIDE DEF d
<1>2. /\ Append(d, e) \in Seq(S) /\ Len(Append(d, e)) = Len(d) + 1
      /\ \A j \in 1..Len(d) : Append(d, e)[j] = d[j]
      /\ Append(d, e)[Len(d) + 1] = e
  BY <1>1
<1>3. IsInjective(Append(d, e))
  <2> SUFFICES ASSUME NEW a \in 1..(Len(d) + 1), NEW b \in 1..(Len(d) + 1),
                      Append(d, e)[a] = Append(d, e)[b]
               PROVE  a = b
    BY <1>2 DEF IsInjective
  <2>1. \A j \in 1..Len(d) : d[j] # e
    <3> SUFFICES ASSUME NEW j \in 1..Len(d) PROVE d[j] # e
      OBVIOUS
    <3>1. j \in DOMAIN d
      BY <1>1
    <3>2. d[j] \in Range(d)
      BY <3>1 DEF Range
    <3> QED BY <3>2, <1>1
  <2>2. a \in 1..Len(d) <=> b \in 1..Len(d)
    BY <1>1, <1>2, <2>1
  <2>3. CASE a \in 1..Len(d) /\ b \in 1..Len(d)
    BY <1>1, <1>2, <2>3 DEF IsInjective
  <2> QED BY <1>1, <2>2, <2>3
<1>4. Range(Append(d, e)) = Range(d) \cup {e}
  <2>1. Range(d) \cup {e} \subseteq Range(Append(d, e))
    <3>1. Range(d) \subseteq Range(Append(d, e))
      BY <1>1, <1>2 DEF Range
    <3>2. e \in Range(Append(d, e))
      <4>1. Len(d) + 1 \in DOMAIN Append(d, e)
        BY <1>1, <1>2
      <4> QED BY <4>1, <1>2 DEF Range
    <3> QED BY <3>1, <3>2
  <2>2. Range(Append(d, e)) \subseteq Range(d) \cup {e}
    BY <1>1, <1>2 DEF Range
  <2> QED BY <2>1, <2>2
<1> QED BY <1>1, <1>2, <1>3, <1>4, <1>5, <1>6

(* list_lrotate keeps the entries.                                         *)
LEMMA RotateProperties ==
    ASSUME NEW S, NEW q \in Seq(S), IsInjective(q)
    PROVE  /\ list_lrotate(q) \in Seq(S)
           /\ IsInjective(list_lrotate(q))
           /\ Range(list_lrotate(q)) = Range(q)
           /\ list_lrotate(q) = <<>> <=> q = <<>>
<1>1. CASE q = <<>>
  BY <1>1 DEF list_lrotate
<1>2. CASE q # <<>>
  <2> DEFINE r == Append(Tail(q), Head(q))
  <2>1. /\ r \in Seq(S) /\ Len(r) = Len(q)
        /\ \A j \in 1..(Len(q) - 1) : r[j] = q[j + 1]
        /\ r[Len(q)] = q[1]
    BY <1>2
  <2>2. IsInjective(r)
    BY <2>1 DEF IsInjective
  <2>3. Range(r) \subseteq Range(q)
    BY <2>1, <1>2 DEF Range
  <2>4. Range(q) \subseteq Range(r)
    <3> SUFFICES ASSUME NEW j \in 1..Len(q) PROVE q[j] \in Range(r)
      BY DEF Range
    <3>1. CASE j = 1
      <4>1. Len(q) \in DOMAIN r
        BY <2>1, <1>2
      <4> QED BY <4>1, <2>1, <3>1 DEF Range
    <3>2. CASE j # 1
      <4>1. j - 1 \in DOMAIN r /\ r[j - 1] = q[j]
        BY <2>1, <3>2
      <4> QED BY <4>1 DEF Range
    <3> QED BY <3>1, <3>2
  <2>5. list_lrotate(q) = r /\ r # <<>>
    BY <1>2, <2>1 DEF list_lrotate
  <2> QED BY <1>2, <2>1, <2>2, <2>3, <2>4, <2>5
<1> QED BY <1>1, <1>2

(* Taking the first entry off a list leaves the others.                    *)
LEMMA TailProperties ==
    ASSUME NEW S, NEW q \in Seq(S), IsInjective(q), q # <<>>
    PROVE  /\ Tail(q) \in Seq(S) /\ IsInjective(Tail(q))
           /\ Head(q) \in S /\ Head(q) \in Range(q)
           /\ Range(Tail(q)) = Range(q) \ {Head(q)}
           /\ Len(Tail(q)) = Len(q) - 1
<1>1. /\ Tail(q) \in Seq(S) /\ Len(Tail(q)) = Len(q) - 1 /\ Head(q) = q[1]
      /\ \A j \in 1..(Len(q) - 1) : Tail(q)[j] = q[j + 1]
      /\ Len(q) \in Nat \ {0}
  OBVIOUS
<1>2. IsInjective(Tail(q))
  BY <1>1 DEF IsInjective
<1>3. Head(q) \in S /\ Head(q) \in Range(q)
  BY <1>1 DEF Range
<1>4. Range(Tail(q)) \subseteq Range(q) \ {Head(q)}
  BY <1>1 DEF Range, IsInjective
<1>5. Range(q) \ {Head(q)} \subseteq Range(Tail(q))
  <2> SUFFICES ASSUME NEW j \in 1..Len(q), q[j] # Head(q)
               PROVE  q[j] \in Range(Tail(q))
    BY DEF Range
  <2>1. j - 1 \in DOMAIN Tail(q) /\ Tail(q)[j - 1] = q[j]
    BY <1>1
  <2> QED BY <2>1 DEF Range
<1> QED BY <1>1, <1>2, <1>3, <1>4, <1>5

-----------------------------------------------------------------------------

KernelType(K) ==
    K \in [state   : [Threads \cup {Idle} -> ThreadState],
           queue   : Seq(Threads),
           current : Threads \cup {Idle},
           pendsv  : BOOLEAN,
           value   : [Semaphores -> Int],
           waiters : [Semaphores -> Seq(Threads)]]

Running(K) == {t \in Threads \cup {Idle} : K.state[t] = "running"}

QueueExact(K) == IsInjective(K.queue) /\ Range(K.queue) = Running(K)

(* Numbers that fit an int8_t are not changed by its arithmetic.           *)
LEMMA Int8Identity == \A n \in -128..127 : Int8(n) = n
BY DEF Int8

-----------------------------------------------------------------------------
(* What an operation makes of the kernel's state K, as relations between K *)
(* and the state K2 after it.  The modules that use the kernel reason with *)
(* these relations.                                                        *)

(* thread_wakeup, of a thread in any state (core/thread.c).                *)
Woken(K, t, K2) ==
    /\ KernelType(K2) /\ QueueExact(K2) /\ K2.current = K.current
    /\ K2.state = [K.state EXCEPT ![t] = "running"]
    /\ K2.value = K.value /\ K2.waiters = K.waiters
    /\ K2.pendsv <=> (K.pendsv \/ K.current = Idle)

(* thread_block of the current thread, which is RUNNING: it leaves the run *)
(* queue and PendSV is made pending.                                       *)
Stopped(K, t, K2) ==
    /\ KernelType(K2) /\ QueueExact(K2) /\ K2.current = K.current
    /\ K2.state = [K.state EXCEPT ![t] = "blocked"]
    /\ K2.value = K.value /\ K2.waiters = K.waiters
    /\ K2.pendsv

(* schedule: whoever it picks is RUNNING, and the idle thread is picked    *)
(* only when nobody is.                                                    *)
Scheduled(K, K2) ==
    /\ KernelType(K2) /\ QueueExact(K2) /\ ~K2.pendsv
    /\ K2.state = K.state /\ K2.value = K.value /\ K2.waiters = K.waiters
    /\ K2.current = Idle => K2.queue = <<>> /\ Running(K2) = {}
    /\ K2.current # Idle => K2.state[K2.current] = "running"

(* The parts of semaphore_signal: the value is stored, ...                 *)
Counted(K, s, v, K2) ==
    /\ KernelType(K2) /\ K2.value = [K.value EXCEPT ![s] = v + 1]
    /\ K2.state = K.state /\ K2.queue = K.queue /\ K2.current = K.current
    /\ K2.pendsv = K.pendsv /\ K2.waiters = K.waiters

(* ... and list_delete leaves the rest of the queue in its order.          *)
Dequeued(K, s, K2) ==
    /\ KernelType(K2) /\ K2.waiters = [K.waiters EXCEPT ![s] = Tail(K.waiters[s])]
    /\ K2.state = K.state /\ K2.queue = K.queue /\ K2.current = K.current
    /\ K2.pendsv = K.pendsv /\ K2.value = K.value

(* semaphore_signal, with and without a waitee.                            *)
Signalled(K, s, K2) ==
    /\ KernelType(K2) /\ QueueExact(K2) /\ K2.current = K.current
    /\ K2.value = [K.value EXCEPT ![s] = K.value[s] + 1]
    /\ K.waiters[s] = <<>> =>
          /\ K2.state = K.state /\ K2.queue = K.queue /\ K2.waiters = K.waiters
          /\ K2.pendsv = K.pendsv
    /\ K.waiters[s] # <<>> =>
          /\ K2.state = [K.state EXCEPT ![Head(K.waiters[s])] = "running"]
          /\ K2.waiters = [K.waiters EXCEPT ![s] = Tail(K.waiters[s])]
          /\ K2.pendsv <=> (K.pendsv \/ K.current = Idle)

(* The same, without a word on which threads are queued.                   *)
Raised(K, s, K2) ==
    /\ KernelType(K2) /\ K2.current = K.current
    /\ K2.value = [K.value EXCEPT ![s] = K.value[s] + 1]
    /\ K.waiters[s] = <<>> =>
          /\ K2.state = K.state /\ K2.queue = K.queue /\ K2.waiters = K.waiters
          /\ K2.pendsv = K.pendsv
    /\ K.waiters[s] # <<>> =>
          LET h == Head(K.waiters[s])
          IN  /\ K2.state = [K.state EXCEPT ![h] = "running"]
              /\ K2.queue = IF K.state[h] # "running" THEN list_append(K.queue, h) ELSE K.queue
              /\ K2.waiters = [K.waiters EXCEPT ![s] = Tail(K.waiters[s])]
              /\ K2.pendsv <=> (K.pendsv \/ K.current = Idle)

(* semaphore_wait that finds a token, ...                                  *)
Passed(K, s, K2) ==
    /\ KernelType(K2) /\ QueueExact(K2) /\ K2.current = K.current /\ K.value[s] >= 1
    /\ K2.value = [K.value EXCEPT ![s] = K.value[s] - 1] /\ K2.queue = K.queue
    /\ K2.state = K.state /\ K2.waiters = K.waiters /\ K2.pendsv = K.pendsv

(* ... and one that blocks.                                                *)
Blocked(K, s, t, K2) ==
    /\ KernelType(K2) /\ QueueExact(K2) /\ K2.current = K.current /\ K.value[s] <= 0
    /\ K2.value = [K.value EXCEPT ![s] = K.value[s] - 1]
    /\ K2.state = [K.state EXCEPT ![t] = "blocked"]
    /\ K2.waiters = [K.waiters EXCEPT ![s] = Append(K.waiters[s], t)]
    /\ K2.pendsv

(* What thread_wakeup does to each part, whichever threads are queued.     *)
LEMMA WakeupParts ==
    ASSUME NEW K, KernelType(K), IsInjective(K.queue), NEW t \in Threads,
           NEW K2, K2 = thread_wakeup(K, t)
    PROVE  /\ KernelType(K2) /\ K2.state = [K.state EXCEPT ![t] = "running"]
           /\ K2.queue = IF K.state[t] # "running" THEN list_append(K.queue, t) ELSE K.queue
           /\ K2.current = K.current /\ K2.value = K.value /\ K2.waiters = K.waiters
           /\ K2.pendsv = (K.pendsv \/ K.current = Idle)
<1>1. /\ K2.state = [K.state EXCEPT ![t] = "running"]
      /\ K2.queue = IF K.state[t] # "running" THEN list_append(K.queue, t) ELSE K.queue
      /\ K2.current = K.current /\ K2.value = K.value /\ K2.waiters = K.waiters
      /\ K2.pendsv = (K.pendsv \/ K.current = Idle)
      /\ K2 = [state |-> K2.state, queue |-> K2.queue, current |-> K2.current,
               pendsv |-> K2.pendsv, value |-> K2.value, waiters |-> K2.waiters]
  BY DEF KernelType, thread_wakeup, thread_set_state, scheduler_thread_changed_state
<1>2. K.queue \in Seq(Threads) /\ K.state \in [Threads \cup {Idle} -> ThreadState]
  BY DEF KernelType
<1>3. K2.queue \in Seq(Threads)
  BY <1>1, <1>2, AppendOnce
<1>4. K2.state \in [Threads \cup {Idle} -> ThreadState]
  BY <1>1, <1>2 DEF ThreadState
<1>5. K2.current \in Threads \cup {Idle} /\ K2.value \in [Semaphores -> Int]
      /\ K2.waiters \in [Semaphores -> Seq(Threads)] /\ K2.pendsv \in BOOLEAN
  BY <1>1 DEF KernelType
<1>6. KernelType(K2)
  BY <1>1, <1>3, <1>4, <1>5 DEF KernelType
<1> QED BY <1>1, <1>6

(* The scheduler's part of thread_set_state, where interrupts come before  *)
(* it: the run queue gets the thread that was woken ...                    *)
LEMMA EnqueueParts ==
    ASSUME NEW K, KernelType(K), IsInjective(K.queue), NEW t \in Threads,
           NEW old, old # "running",
           NEW K2, K2 = scheduler_thread_changed_state(K, t, old, "running")
    PROVE  /\ KernelType(K2) /\ K2.queue = list_append(K.queue, t)
           /\ K2.state = K.state /\ K2.current = K.current
           /\ K2.value = K.value /\ K2.waiters = K.waiters
           /\ K2.pendsv <=> (K.pendsv \/ K.current = Idle)
<1>1. list_append(K.queue, t) \in Seq(Threads)
  BY AppendOnce DEF KernelType
<1>2. K2 = [K EXCEPT !.queue = list_append(K.queue, t), !.pendsv = (K.pendsv \/ K.current = Idle)]
  BY DEF KernelType, scheduler_thread_changed_state
<1>3. (K.pendsv \/ K.current = Idle) \in BOOLEAN
  OBVIOUS
<1> QED BY <1>1, <1>2, <1>3 DEF KernelType

(* ... or loses the current one, which has blocked.                        *)
LEMMA DequeueParts ==
    ASSUME NEW K, KernelType(K), IsInjective(K.queue), NEW t \in Threads, K.current = t,
           NEW K2, K2 = scheduler_thread_changed_state(K, t, "running", "blocked")
    PROVE  /\ KernelType(K2) /\ K2.queue = list_delete(K.queue, t)
           /\ K2.state = K.state /\ K2.current = K.current
           /\ K2.value = K.value /\ K2.waiters = K.waiters /\ K2.pendsv
<1>1. list_delete(K.queue, t) \in Seq(Threads)
  BY DeleteProperties DEF KernelType
<1>2. K2 = [K EXCEPT !.queue = list_delete(K.queue, t), !.pendsv = TRUE]
  BY DEF KernelType, scheduler_thread_changed_state
<1> QED BY <1>1, <1>2 DEF KernelType

LEMMA WakeupEffect ==
    ASSUME NEW K, KernelType(K), QueueExact(K), NEW t \in Threads
    PROVE  Woken(K, t, thread_wakeup(K, t))
<1>0. PICK K2 : K2 = thread_wakeup(K, t)
  OBVIOUS
<1>1. /\ KernelType(K2) /\ K2.state = [K.state EXCEPT ![t] = "running"]
      /\ K2.queue = IF K.state[t] # "running" THEN list_append(K.queue, t) ELSE K.queue
      /\ K2.current = K.current /\ K2.value = K.value /\ K2.waiters = K.waiters
      /\ K2.pendsv = (K.pendsv \/ K.current = Idle)
  BY <1>0, WakeupParts DEF QueueExact
<1>2. K.queue \in Seq(Threads) /\ K.state \in [Threads \cup {Idle} -> ThreadState]
  BY DEF KernelType
<1>3. Running(K2) = Running(K) \cup {t}
  BY <1>1, <1>2 DEF Running
<1>4. IsInjective(K2.queue) /\ Range(K2.queue) = Range(K.queue) \cup {t}
  <2>1. CASE K.state[t] = "running"
    BY <1>1, <1>2, <2>1 DEF QueueExact, Running
  <2>2. CASE K.state[t] # "running"
    BY <1>1, <1>2, <2>2, AppendOnce DEF QueueExact
  <2> QED BY <2>1, <2>2
<1>5. QueueExact(K2)
  BY <1>3, <1>4 DEF QueueExact
<1> QED BY <1>0, <1>1, <1>5 DEF Woken

LEMMA BlockEffect ==
    ASSUME NEW K, KernelType(K), QueueExact(K), NEW t \in Threads,
           K.current = t, K.state[t] = "running"
    PROVE  Stopped(K, t, thread_block(K))
<1>0. PICK K2 : K2 = thread_block(K)
  OBVIOUS
<1>1. /\ K2.state = [K.state EXCEPT ![t] = "blocked"]
      /\ K2.queue = list_delete(K.queue, t)
      /\ K2.current = K.current /\ K2.value = K.value /\ K2.waiters = K.waiters
      /\ K2.pendsv = TRUE
      /\ K2 = [state |-> K2.state, queue |-> K2.queue, current |-> K2.current,
               pendsv |-> K2.pendsv, value |-> K2.value, waiters |-> K2.waiters]
  BY <1>0 DEF KernelType, thread_block, thread_set_state, scheduler_thread_changed_state
<1>2. K.queue \in Seq(Threads) /\ K.state \in [Threads \cup {Idle} -> ThreadState]
  BY DEF KernelType
<1>3. Running(K2) = Running(K) \ {t}
  BY <1>1, <1>2 DEF Running
<1>4. K2.queue \in Seq(Threads) /\ IsInjective(K2.queue)
      /\ Range(K2.queue) = Range(K.queue) \ {t}
  BY <1>1, <1>2, DeleteProperties DEF QueueExact
<1>5. QueueExact(K2)
  BY <1>3, <1>4 DEF QueueExact
<1>6. KernelType(K2)
  <2>1. K2.state \in [Threads \cup {Idle} -> ThreadState]
    BY <1>1, <1>2 DEF ThreadState
  <2>2. K2.current \in Threads \cup {Idle} /\ K2.value \in [Semaphores -> Int]
        /\ K2.waiters \in [Semaphores -> Seq(Threads)] /\ K2.pendsv \in BOOLEAN
    BY <1>1 DEF KernelType
  <2> QED BY <1>1, <1>4, <2>1, <2>2 DEF KernelType
<1> QED BY <1>0, <1>1, <1>5, <1>6 DEF Stopped

LEMMA ScheduleEffect ==
    ASSUME NEW K, KernelType(K), QueueExact(K)
    PROVE  Scheduled(K, schedule(K))
<1>0. PICK K2 : K2 = schedule(K)
  OBVIOUS
<1> DEFINE r == list_lrotate(K.queue)
<1>1. /\ K2.state = K.state /\ K2.value = K.value /\ K2.waiters = K.waiters
      /\ K2.queue = r
      /\ K2.current = IF K.queue = <<>> THEN Idle ELSE Head(r)
      /\ K2.pendsv = FALSE
      /\ K2 = [state |-> K2.state, queue |-> K2.queue, current |-> K2.current,
               pendsv |-> K2.pendsv, value |-> K2.value, waiters |-> K2.waiters]
  BY <1>0 DEF KernelType, schedule
<1>2. K.queue \in Seq(Threads)
  BY DEF KernelType
<1>3. r \in Seq(Threads) /\ IsInjective(r) /\ Range(r) = Range(K.queue)
      /\ (r = <<>> <=> K.queue = <<>>)
  BY <1>2, RotateProperties DEF QueueExact
<1>4. r # <<>> => Head(r) \in Range(r) /\ Head(r) \in Threads
  BY <1>3, TailProperties
<1>5. Running(K2) = Running(K)
  BY <1>1 DEF Running
<1>6. QueueExact(K2)
  BY <1>1, <1>3, <1>5 DEF QueueExact
<1>7. K2.current = Idle => K2.queue = <<>> /\ Running(K2) = {}
  <2>1. K2.current = Idle => K2.queue = <<>>
    BY <1>1, <1>3, <1>4, IdleAssumption
  <2>2. Range(<<>>) = {}
    BY DEF Range
  <2> QED BY <1>6, <2>1, <2>2 DEF QueueExact
<1>8. K2.current # Idle => K2.state[K2.current] = "running"
  BY <1>1, <1>3, <1>4, <1>6 DEF QueueExact, Running
<1>9. KernelType(K2)
  <2>1. K2.current \in Threads \cup {Idle}
    BY <1>1, <1>3, <1>4
  <2>2. K2.state \in [Threads \cup {Idle} -> ThreadState]
        /\ K2.value \in [Semaphores -> Int]
        /\ K2.waiters \in [Semaphores -> Seq(Threads)] /\ K2.pendsv \in BOOLEAN
    BY <1>1 DEF KernelType
  <2> QED BY <1>1, <1>3, <2>1, <2>2 DEF KernelType
<1> QED BY <1>0, <1>1, <1>6, <1>7, <1>8, <1>9 DEF Scheduled

LEMMA StoreEffect ==
    ASSUME NEW K, KernelType(K), NEW s \in Semaphores, NEW v, v \in -128..126
    PROVE  Counted(K, s, v, signal_store(K, s, v))
<1>1. Int8(v + 1) = v + 1 /\ v + 1 \in Int
  BY Int8Identity
<1> QED BY <1>1 DEF KernelType, signal_store, Counted

LEMMA DequeueEffect ==
    ASSUME NEW K, KernelType(K), NEW s \in Semaphores,
           IsInjective(K.waiters[s]), K.waiters[s] # <<>>
    PROVE  Dequeued(K, s, signal_dequeue(K, s))
<1>1. Tail(K.waiters[s]) \in Seq(Threads)
  BY TailProperties DEF KernelType
<1> QED BY <1>1 DEF KernelType, signal_dequeue, Dequeued

LEMMA RaiseEffect ==
    ASSUME NEW K, KernelType(K), IsInjective(K.queue), NEW s \in Semaphores,
           K.value[s] \in -128..126, IsInjective(K.waiters[s])
    PROVE  Raised(K, s, semaphore_signal(K, s))
<1>0. PICK K2 : K2 = semaphore_signal(K, s)
  OBVIOUS
<1>1. PICK v, stored : v = K.value[s] /\ stored = signal_store(K, s, v)
  OBVIOUS
<1>2. Counted(K, s, v, stored)
  BY <1>1, StoreEffect
<1>3. CASE K.waiters[s] = <<>>
  <2>1. K2 = stored
    BY <1>0, <1>1, <1>3 DEF semaphore_signal
  <2> QED BY <1>0, <1>1, <1>2, <1>3, <2>1 DEF Counted, Raised
<1>4. CASE K.waiters[s] # <<>>
  <2>1. PICK h, taken : h = Head(K.waiters[s]) /\ taken = signal_dequeue(stored, s)
    OBVIOUS
  <2>2. K2 = thread_wakeup(taken, h)
    BY <1>0, <1>1, <1>4, <2>1 DEF semaphore_signal
  <2>3. KernelType(stored) /\ stored.waiters = K.waiters
    BY <1>2 DEF Counted
  <2>4. Dequeued(stored, s, taken)
    BY <1>4, <2>1, <2>3, DequeueEffect
  <2>5. /\ KernelType(taken) /\ taken.queue = K.queue /\ taken.state = K.state
        /\ taken.current = K.current /\ taken.pendsv = K.pendsv
        /\ taken.value = [K.value EXCEPT ![s] = K.value[s] + 1]
        /\ taken.waiters = [K.waiters EXCEPT ![s] = Tail(K.waiters[s])]
    BY <1>1, <1>2, <2>4 DEF Counted, Dequeued
  <2>6. h \in Threads
    BY <1>4, <2>1, TailProperties DEF KernelType
  <2>7. /\ KernelType(K2) /\ K2.state = [K.state EXCEPT ![h] = "running"]
        /\ K2.queue = IF K.state[h] # "running" THEN list_append(K.queue, h) ELSE K.queue
        /\ K2.current = K.current /\ K2.value = taken.value /\ K2.waiters = taken.waiters
        /\ K2.pendsv = (K.pendsv \/ K.current = Idle)
    BY <2>2, <2>5, <2>6, WakeupParts
  <2> QED BY <1>0, <1>4, <2>1, <2>5, <2>7 DEF Raised
<1> QED BY <1>3, <1>4

LEMMA SignalEffect ==
    ASSUME NEW K, KernelType(K), QueueExact(K), NEW s \in Semaphores,
           K.value[s] \in -128..126, IsInjective(K.waiters[s])
    PROVE  Signalled(K, s, semaphore_signal(K, s))
<1>0. PICK K2 : K2 = semaphore_signal(K, s)
  OBVIOUS
<1>1. Raised(K, s, K2)
  BY <1>0, RaiseEffect DEF QueueExact
<1>2. CASE K.waiters[s] = <<>>
  <2>1. QueueExact(K2)
    BY <1>1, <1>2 DEF Raised, QueueExact, Running
  <2> QED BY <1>0, <1>1, <1>2, <2>1 DEF Raised, Signalled
<1>3. CASE K.waiters[s] # <<>>
  <2>1. PICK h : h = Head(K.waiters[s])
    OBVIOUS
  <2>2. h \in Threads
    BY <1>3, <2>1, TailProperties DEF KernelType
  <2>3. /\ K2.state = [K.state EXCEPT ![h] = "running"]
        /\ K2.queue = IF K.state[h] # "running" THEN list_append(K.queue, h) ELSE K.queue
    BY <1>1, <1>3, <2>1 DEF Raised
  <2>4. K.queue \in Seq(Threads) /\ K.state \in [Threads \cup {Idle} -> ThreadState]
    BY DEF KernelType
  <2>5. Running(K2) = Running(K) \cup {h}
    BY <2>2, <2>3, <2>4 DEF Running
  <2>6. IsInjective(K2.queue) /\ Range(K2.queue) = Range(K.queue) \cup {h}
    <3>1. CASE K.state[h] = "running"
      BY <2>2, <2>3, <3>1 DEF QueueExact, Running
    <3>2. CASE K.state[h] # "running"
      BY <2>2, <2>3, <2>4, <3>2, AppendOnce DEF QueueExact
    <3> QED BY <3>1, <3>2
  <2>7. QueueExact(K2)
    BY <2>5, <2>6 DEF QueueExact
  <2> QED BY <1>0, <1>1, <1>3, <2>7 DEF Raised, Signalled
<1> QED BY <1>2, <1>3

LEMMA WaitPasses ==
    ASSUME NEW K, KernelType(K), QueueExact(K), NEW s \in Semaphores,
           K.value[s] \in -127..127, ~must_wait(K, s)
    PROVE  Passed(K, s, semaphore_wait(K, s))
<1>0. PICK K2 : K2 = semaphore_wait(K, s)
  OBVIOUS
<1>1. Int8(K.value[s] - 1) = K.value[s] - 1
  <2>1. K.value[s] - 1 \in -128..127
    OBVIOUS
  <2> QED BY <2>1, Int8Identity
<1>2. K.value[s] >= 1 /\ K.value[s] - 1 \in Int
  BY <1>1 DEF must_wait
<1>3. PICK w \in Int : w = K.value[s] - 1
  BY <1>2
<1>4. K2 = [K EXCEPT !.value[s] = w]
  BY <1>0, <1>1, <1>3 DEF semaphore_wait
<1>5. /\ KernelType(K2)
      /\ K2.value = [K.value EXCEPT ![s] = w]
      /\ K2.state = K.state /\ K2.queue = K.queue /\ K2.current = K.current
      /\ K2.pendsv = K.pendsv /\ K2.waiters = K.waiters
  BY ZenonT(60), <1>4 DEF KernelType
<1>6. QueueExact(K2)
  BY <1>5 DEF QueueExact, Running
<1> QED BY <1>0, <1>2, <1>3, <1>5, <1>6 DEF Passed

LEMMA WaitBlocks ==
    ASSUME NEW K, KernelType(K), QueueExact(K), NEW s \in Semaphores, NEW t \in Threads,
           K.value[s] \in -127..127, K.current = t, K.state[t] = "running",
           IsInjective(K.waiters[s]), t \notin Range(K.waiters[s]), must_wait(K, s)
    PROVE  Blocked(K, s, t, semaphore_wait(K, s))
<1>0. PICK K2 : K2 = semaphore_wait(K, s)
  OBVIOUS
<1>1. Int8(K.value[s] - 1) = K.value[s] - 1
  <2>1. K.value[s] - 1 \in -128..127
    OBVIOUS
  <2> QED BY <2>1, Int8Identity
<1>2. K.value[s] <= 0 /\ K.value[s] - 1 \in Int
  BY <1>1 DEF must_wait
<1>3. PICK q : q = list_append(K.waiters[s], t)
  OBVIOUS
<1>4. q = Append(K.waiters[s], t) /\ q \in Seq(Threads)
  <2>1. K.waiters[s] \in Seq(Threads)
    BY DEF KernelType
  <2>2. q = Append(K.waiters[s], t)
    BY <1>3 DEF list_append, list_delete
  <2> QED BY <2>1, <2>2
<1>5. PICK dec, taken : /\ dec = [K EXCEPT !.value[s] = K.value[s] - 1]
                        /\ taken = [dec EXCEPT !.waiters[s] = q]
  OBVIOUS
<1>6. K2 = thread_block(taken)
  <2>1. dec.waiters[s] = K.waiters[s]
    BY <1>5 DEF KernelType
  <2> QED BY <1>0, <1>1, <1>3, <1>5, <2>1 DEF semaphore_wait
<1>7. /\ KernelType(taken)
      /\ taken.value = [K.value EXCEPT ![s] = K.value[s] - 1]
      /\ taken.waiters = [K.waiters EXCEPT ![s] = q]
      /\ taken.state = K.state /\ taken.queue = K.queue /\ taken.current = K.current
  <2>1. /\ KernelType(dec)
        /\ dec.value = [K.value EXCEPT ![s] = K.value[s] - 1]
        /\ dec.waiters = K.waiters
        /\ dec.state = K.state /\ dec.queue = K.queue /\ dec.current = K.current
    BY <1>2, <1>5 DEF KernelType
  <2> QED BY <1>4, <1>5, <2>1 DEF KernelType
<1>8. QueueExact(taken)
  BY <1>7 DEF QueueExact, Running
<1>9. Stopped(taken, t, K2)
  BY <1>6, <1>7, <1>8, BlockEffect
<1> QED BY <1>0, <1>2, <1>4, <1>7, <1>9 DEF Stopped, Blocked

(* semaphore_wait by the thread t that runs.                               *)
LEMMA WaitEffect ==
    ASSUME NEW K, KernelType(K), QueueExact(K), NEW s \in Semaphores, NEW t \in Threads,
           K.value[s] \in -127..127, K.current = t, K.state[t] = "running",
           IsInjective(K.waiters[s]), t \notin Range(K.waiters[s])
    PROVE  \/ Passed(K, s, semaphore_wait(K, s))
           \/ Blocked(K, s, t, semaphore_wait(K, s))
BY WaitPasses, WaitBlocks

-----------------------------------------------------------------------------
(* Where every thread is either RUNNING or queued at one semaphore, and    *)
(* semaphore_signal is one step, the kernel keeps it so.                   *)

InQueue(K, t) == \E s \in Semaphores : t \in Range(K.waiters[s])

Sound(K) ==
    /\ KernelType(K) /\ QueueExact(K)
    /\ \A s \in Semaphores : IsInjective(K.waiters[s])
    /\ \A r, s \in Semaphores : \A t \in Range(K.waiters[r]) :
          t \in Range(K.waiters[s]) => r = s
    /\ \A t \in Threads : K.state[t] = IF InQueue(K, t) THEN "blocked" ELSE "running"
    /\ \A t \in Threads : K.current = t /\ ~K.pendsv => K.state[t] = "running"

(* What Sound says of the types.                                           *)
LEMMA SoundTypes ==
    ASSUME NEW K, Sound(K)
    PROVE  /\ K.state \in [Threads \cup {Idle} -> ThreadState]
           /\ K.value \in [Semaphores -> Int] /\ K.waiters \in [Semaphores -> Seq(Threads)]
           /\ K.current \in Threads \cup {Idle} /\ K.pendsv \in BOOLEAN
           /\ \A s \in Semaphores : Range(K.waiters[s]) \subseteq Threads
<1>1. /\ K.state \in [Threads \cup {Idle} -> ThreadState]
      /\ K.value \in [Semaphores -> Int] /\ K.waiters \in [Semaphores -> Seq(Threads)]
      /\ K.current \in Threads \cup {Idle} /\ K.pendsv \in BOOLEAN
  BY DEF Sound, KernelType
<1>2. \A s \in Semaphores : Range(K.waiters[s]) \subseteq Threads
  BY <1>1 DEF Range
<1> QED BY <1>1, <1>2

LEMMA SignalSound ==
    ASSUME NEW K, Sound(K), NEW s \in Semaphores, K.value[s] \in -128..126
    PROVE  /\ Sound(semaphore_signal(K, s))
           /\ semaphore_signal(K, s).current = K.current
           /\ semaphore_signal(K, s).value = [K.value EXCEPT ![s] = K.value[s] + 1]
           /\ semaphore_signal(K, s).waiters =
                 IF K.waiters[s] = <<>> THEN K.waiters
                 ELSE [K.waiters EXCEPT ![s] = Tail(K.waiters[s])]
<1>1. PICK K2 : K2 = semaphore_signal(K, s)
  OBVIOUS
<1>2. Signalled(K, s, K2)
  BY <1>1, SignalEffect DEF Sound
<1>3. /\ K.state \in [Threads \cup {Idle} -> ThreadState]
      /\ K.waiters \in [Semaphores -> Seq(Threads)]
      /\ \A r \in Semaphores : Range(K.waiters[r]) \subseteq Threads
      /\ IsInjective(K.waiters[s])
  BY SoundTypes DEF Sound
<1>4. CASE K.waiters[s] = <<>>
  <2>1. /\ K2.state = K.state /\ K2.waiters = K.waiters /\ K2.pendsv = K.pendsv
        /\ K2.current = K.current /\ KernelType(K2) /\ QueueExact(K2)
    BY <1>2, <1>4 DEF Signalled
  <2>2. Sound(K2)
    BY <2>1 DEF Sound, InQueue
  <2> QED BY <1>1, <1>2, <1>4, <2>1, <2>2 DEF Signalled
<1>5. CASE K.waiters[s] # <<>>
  <2>1. PICK h : h = Head(K.waiters[s])
    OBVIOUS
  <2>2. /\ K2.state = [K.state EXCEPT ![h] = "running"]
        /\ K2.waiters = [K.waiters EXCEPT ![s] = Tail(K.waiters[s])]
        /\ K2.pendsv <=> (K.pendsv \/ K.current = Idle)
        /\ K2.current = K.current /\ KernelType(K2) /\ QueueExact(K2)
    BY <1>2, <1>5, <2>1 DEF Signalled
  <2>3. /\ h \in Threads /\ h \in Range(K.waiters[s]) /\ IsInjective(Tail(K.waiters[s]))
        /\ Range(Tail(K.waiters[s])) = Range(K.waiters[s]) \ {h}
    <3>1. K.waiters[s] \in Seq(Threads)
      BY <1>3
    <3> QED BY <1>3, <1>5, <2>1, <3>1, TailProperties
  <2>4. /\ K2.waiters[s] = Tail(K.waiters[s])
        /\ \A r \in Semaphores : r # s => K2.waiters[r] = K.waiters[r]
    BY <1>3, <2>2
  <2>5. K2.state[h] = "running" /\ \A t \in Threads : t # h => K2.state[t] = K.state[t]
    BY <1>3, <2>2, <2>3
  <2>6. \A r \in Semaphores : Range(K2.waiters[r]) = Range(K.waiters[r]) \ {h}
    BY <2>3, <2>4 DEF Sound
  <2>7. \A r \in Semaphores : IsInjective(K2.waiters[r])
    BY <2>3, <2>4 DEF Sound
  <2>8. \A q, r \in Semaphores : \A t \in Range(K2.waiters[q]) :
           t \in Range(K2.waiters[r]) => q = r
    BY <2>6 DEF Sound
  <2>9. \A t \in Threads : K2.state[t] = IF InQueue(K2, t) THEN "blocked" ELSE "running"
    BY <2>5, <2>6 DEF Sound, InQueue
  <2>10. \A t \in Threads : K2.current = t /\ ~K2.pendsv => K2.state[t] = "running"
    BY <2>2, <2>5 DEF Sound
  <2>11. Sound(K2)
    BY <2>2, <2>7, <2>8, <2>9, <2>10 DEF Sound
  <2> QED BY <1>1, <1>2, <1>5, <2>2, <2>11 DEF Signalled
<1> QED BY <1>4, <1>5

LEMMA WaitSound ==
    ASSUME NEW K, Sound(K), NEW s \in Semaphores, K.value[s] \in -127..127,
           K.current \in Threads, ~K.pendsv
    PROVE  /\ Sound(semaphore_wait(K, s))
           /\ semaphore_wait(K, s).current = K.current
           /\ semaphore_wait(K, s).value = [K.value EXCEPT ![s] = K.value[s] - 1]
           /\ K.value[s] >= 1 => semaphore_wait(K, s).waiters = K.waiters
                                 /\ ~semaphore_wait(K, s).pendsv
           /\ K.value[s] <= 0 => semaphore_wait(K, s).waiters =
                                    [K.waiters EXCEPT ![s] = Append(K.waiters[s], K.current)]
                                 /\ semaphore_wait(K, s).pendsv
<1>1. PICK K2, t : K2 = semaphore_wait(K, s) /\ t = K.current
  OBVIOUS
<1>2. /\ K.state \in [Threads \cup {Idle} -> ThreadState] /\ t \in Threads
      /\ K.value \in [Semaphores -> Int] /\ K.value[s] \in Int
      /\ K.waiters \in [Semaphores -> Seq(Threads)] /\ K.waiters[s] \in Seq(Threads)
      /\ \A r \in Semaphores : Range(K.waiters[r]) \subseteq Threads
      /\ IsInjective(K.waiters[s])
  BY <1>1, SoundTypes DEF Sound
<1>3. K.state[t] = "running" /\ \A r \in Semaphores : t \notin Range(K.waiters[r])
  BY <1>1, <1>2 DEF Sound, InQueue
<1>4. Passed(K, s, K2) \/ Blocked(K, s, t, K2)
  BY <1>1, <1>2, <1>3, WaitEffect DEF Sound
<1>5. CASE Passed(K, s, K2)
  <2>1. Sound(K2)
    BY <1>5 DEF Passed, Sound, InQueue
  <2>2. ~(K.value[s] <= 0)
    BY <1>2, <1>5 DEF Passed
  <2> QED BY <1>1, <1>5, <2>1, <2>2 DEF Passed
<1>6. CASE Blocked(K, s, t, K2)
  <2>1. /\ K2.state = [K.state EXCEPT ![t] = "blocked"]
        /\ K2.waiters = [K.waiters EXCEPT ![s] = Append(K.waiters[s], t)] /\ K2.pendsv
        /\ K2.current = K.current /\ KernelType(K2) /\ QueueExact(K2)
        /\ K2.value = [K.value EXCEPT ![s] = K.value[s] - 1] /\ K.value[s] <= 0
    BY <1>6 DEF Blocked
  <2>2. /\ IsInjective(Append(K.waiters[s], t))
        /\ Range(Append(K.waiters[s], t)) = Range(K.waiters[s]) \cup {t}
    <3>1. PICK q \in Seq(Threads) : q = K.waiters[s]
      BY <1>2
    <3>2. IsInjective(q) /\ t \notin Range(q)
      BY <1>2, <1>3, <3>1
    <3>3. list_append(q, t) = Append(q, t)
      BY <3>2 DEF list_append, list_delete
    <3>4. IsInjective(list_append(q, t)) /\ Range(list_append(q, t)) = Range(q) \cup {t}
      BY <1>2, <3>2, AppendOnce
    <3> QED BY <3>1, <3>3, <3>4
  <2>3. /\ K2.waiters[s] = Append(K.waiters[s], t)
        /\ \A r \in Semaphores : r # s => K2.waiters[r] = K.waiters[r]
    BY <1>2, <2>1
  <2>4. K2.state[t] = "blocked" /\ \A u \in Threads : u # t => K2.state[u] = K.state[u]
    BY <1>2, <2>1
  <2>5. \A r \in Semaphores :
           \A u : u \in Range(K2.waiters[r]) <=> u \in Range(K.waiters[r]) \/ (r = s /\ u = t)
    BY <2>2, <2>3
  <2>6. \A r \in Semaphores : IsInjective(K2.waiters[r])
    BY <2>2, <2>3 DEF Sound
  <2>7. \A q, r \in Semaphores : \A u \in Range(K2.waiters[q]) :
           u \in Range(K2.waiters[r]) => q = r
    BY <1>3, <2>5 DEF Sound
  <2>8. \A u \in Threads : K2.state[u] = IF InQueue(K2, u) THEN "blocked" ELSE "running"
    <3> TAKE u \in Threads
    <3>1. CASE u = t
      BY <2>4, <2>5, <3>1 DEF InQueue
    <3>2. CASE u # t
      <4>1. InQueue(K2, u) <=> InQueue(K, u)
        BY <2>5, <3>2 DEF InQueue
      <4> QED BY <2>4, <3>2, <4>1 DEF Sound
    <3> QED BY <3>1, <3>2
  <2>9. Sound(K2)
    BY <2>1, <2>6, <2>7, <2>8 DEF Sound
  <2>10. ~(K.value[s] >= 1)
    BY <1>2, <2>1
  <2> QED BY <1>1, <2>1, <2>9, <2>10
<1> QED BY <1>4, <1>5, <1>6

LEMMA ScheduleSound ==
    ASSUME NEW K, Sound(K)
    PROVE  /\ Sound(schedule(K)) /\ ~schedule(K).pendsv
           /\ schedule(K).value = K.value /\ schedule(K).waiters = K.waiters
<1>1. PICK K2 : K2 = schedule(K)
  OBVIOUS
<1>2. Scheduled(K, K2)
  BY <1>1, ScheduleEffect DEF Sound
<1>3. \A t \in Threads : K2.current = t => K2.state[t] = "running"
  BY <1>2, IdleAssumption DEF Scheduled
<1>4. Sound(K2)
  BY <1>2, <1>3 DEF Scheduled, Sound, InQueue
<1> QED BY <1>1, <1>2, <1>4 DEF Scheduled
==============================================================================
