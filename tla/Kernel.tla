-------------------------------- MODULE Kernel -------------------------------
(***************************************************************************)
(* The kernel's operations as functions of the kernel's state, a record k: *)
(*   k.state    thread->state of every thread       (include/thread.h)     *)
(*   k.queue    scheduler.running_queue             (core/scheduler.c)     *)
(*   k.current  scheduler.current_thread                                   *)
(*   k.pendsv   PendSV is pending: arch_yield() was called (arch.c)        *)
(*   k.value    semaphore->value, an int8_t         (core/semaphore.c)     *)
(*   k.waiters  semaphore->queue, as the waiting threads in their order    *)
(*                                                                         *)
(* PRIMASK needs no variable.  Every stretch of code between               *)
(* scheduler_lock (cpsid) and scheduler_unlock (cpsie) is one step of the  *)
(* models that use these operators, and so is every exception handler: no  *)
(* priorities are ever configured, so handlers do not preempt each other.  *)
(***************************************************************************)
EXTENDS Lists, FiniteSets

CONSTANTS Threads,      \* the threads that take part in scheduling
          Idle,         \* arch.c's idle_thread, run when the queue is empty
          Semaphores

ASSUME IdleAssumption == Idle \notin Threads

\* int8_t arithmetic
Int8(n) == ((n + 128) % 256) - 128

ThreadState == {"running", "stopped", "blocked"}

\* A faulty scheduler_thread_changed_state: a thread that blocks stays queued.
scheduler_thread_changed_state_keeps_entry(k, t, old, new) ==
    [k EXCEPT !.queue  = IF old # "running" /\ new = "running" THEN list_append(@, t) ELSE @,
              !.pendsv = \/ @
                         \/ old = "running" /\ new # "running" /\ t = k.current
                         \/ k.current = Idle]

\* A faulty one: nothing is rescheduled when the processor idles.
scheduler_thread_changed_state_no_idle_yield(k, t, old, new) ==
    [k EXCEPT
       !.queue  = IF old = "running" /\ new # "running" THEN list_delete(@, t)
                  ELSE IF old # "running" /\ new = "running" THEN list_append(@, t)
                  ELSE @,
       !.pendsv = @ \/ (old = "running" /\ new # "running" /\ t = k.current)]

(* scheduler_thread_changed_state, all of it under the lock.               *)
scheduler_thread_changed_state(k, t, old, new) ==
    [k EXCEPT
       !.queue  = IF old = "running" /\ new # "running" THEN list_delete(@, t)
                  ELSE IF old # "running" /\ new = "running" THEN list_append(@, t)
                  ELSE @,
       !.pendsv = \/ @
                  \/ old = "running" /\ new # "running" /\ t = k.current
                  \/ k.current = Idle]

(* thread_set_state where nothing comes between its parts: called by an    *)
(* exception handler, or with the interrupts locked out.                   *)
thread_set_state(k, t, new) ==
    scheduler_thread_changed_state([k EXCEPT !.state[t] = new], t, k.state[t], new)

thread_block(k) == thread_set_state(k, k.current, "blocked")

thread_wakeup(k, t) == thread_set_state(k, t, "running")

(* PendSV: schedule(), the only place that changes the current thread.     *)
schedule(k) ==
    [k EXCEPT !.queue   = list_lrotate(@),
              !.current = IF k.queue = <<>> THEN Idle
                          ELSE Head(list_lrotate(k.queue)),
              !.pendsv  = FALSE]

-----------------------------------------------------------------------------

\* A faulty test in semaphore_wait: a value of -1 is let through.
must_wait_off_by_one(k, s) == Int8(k.value[s] - 1) < -1

(* The thread calling semaphore_wait does not get past it at once.         *)
must_wait(k, s) == Int8(k.value[s] - 1) < 0

\* A faulty semaphore_wait: a thread that blocks takes the token twice.
semaphore_wait_twice(k, s) ==
    IF must_wait(k, s)
    THEN thread_block([k EXCEPT !.value[s] = Int8(@ - 2),
                                !.waiters[s] = list_append(@, k.current)])
    ELSE [k EXCEPT !.value[s] = Int8(@ - 1)]

semaphore_wait(k, s) ==
    LET taken == [k EXCEPT !.value[s] = Int8(@ - 1)]
    IN  IF must_wait(k, s)
        THEN thread_block([taken EXCEPT !.waiters[s] = list_append(@, k.current)])
        ELSE taken

(* The parts of semaphore_signal.  It takes no lock: called by a thread,   *)
(* interrupts are served between them.                                     *)
signal_store(k, s, v) == [k EXCEPT !.value[s] = Int8(v + 1)]

\* A faulty dequeue: the last waitee is taken out, the first one woken.
signal_dequeue_last(k, s) == [k EXCEPT !.waiters[s] = Without(@, Len(@))]

signal_dequeue(k, s) == [k EXCEPT !.waiters[s] = Tail(@)]

\* A faulty semaphore_signal: a waitee is only woken for a positive value.
semaphore_signal_if_positive(k, s) ==
    LET stored == signal_store(k, s, k.value[s])
    IN  IF k.waiters[s] = <<>> \/ stored.value[s] <= 0 THEN stored
        ELSE thread_wakeup(signal_dequeue(stored, s), Head(k.waiters[s]))

(* The whole of semaphore_signal, as an interrupt handler performs it.     *)
semaphore_signal(k, s) ==
    LET stored == signal_store(k, s, k.value[s])
    IN  IF k.waiters[s] = <<>> THEN stored
        ELSE thread_wakeup(signal_dequeue(stored, s), Head(k.waiters[s]))
==============================================================================
