------------------------------ MODULE Threading ------------------------------
(***************************************************************************)
(* The firmware's threads on top of the kernel: cooperative threads that   *)
(* lock and unlock mutexes (semaphores that start at 1: the lock of the    *)
(* I2C, CAN and UART drivers), wait for events (semaphores that start at 0 *)
(* and are signalled by an interrupt handler: done, read_sem, write_sem,   *)
(* can_node.sem), start other threads and end by blocking for good.        *)
(* Interrupts come between any two steps of a thread.                      *)
(***************************************************************************)
EXTENDS Kernel

CONSTANTS Main,         \* the thread scheduler_init makes of the boot context
          Mutexes, Events,
          MaxEvents     \* bound: how far interrupts run ahead of the waiters

ASSUME ThreadingAssumption ==
    /\ Main \in Threads
    /\ Mutexes \cap Events = {}
    /\ Semaphores = Mutexes \cup Events /\ Semaphores # {}
    /\ IsFiniteSet(Threads) /\ Cardinality(Threads) \in 1..126
    /\ MaxEvents \in 1..127

VARIABLES k,            \* the kernel's state (Kernel.tla)
          pc,           \* where each thread is in the code it runs
          sem,          \* the semaphore each thread is working on
          reg,          \* the value semaphore_signal loaded for its value++
          waitee,       \* semaphore_signal's local of that name
          old_state,    \* thread_set_state's local of that name
          holds         \* the mutexes each thread has locked

vars == <<k, pc, sem, reg, waitee, old_state, holds>>
locals == <<reg, waitee, old_state>>

(* firmware_main after scheduler_init and the idle thread's init hook: the *)
(* boot context is the main thread, every other thread is created but not  *)
(* started.                                                                *)
Init ==
    /\ k = [state   |-> [t \in Threads \cup {Idle} |->
                            IF t = Main THEN "running" ELSE "stopped"],
            queue   |-> <<Main>>,
            current |-> Main,
            pendsv  |-> FALSE,
            value   |-> [s \in Semaphores |-> IF s \in Mutexes THEN 1 ELSE 0],
            waiters |-> [s \in Semaphores |-> <<>>]]
    /\ pc = [t \in Threads |-> "run"]
    /\ sem = [t \in Threads |-> CHOOSE s \in Semaphores : TRUE]
    /\ reg = [t \in Threads |-> 0]
    /\ waitee = [t \in Threads |-> Idle]
    /\ old_state = [t \in Threads |-> "stopped"]
    /\ holds = [t \in Threads |-> {}]

(* The processor executes t's code at pc: a pending PendSV is taken before *)
(* the next instruction, since interrupts are enabled between two steps.   *)
At(t, label) == k.current = t /\ ~k.pendsv /\ pc[t] = label

Goto(t, label) == pc' = [pc EXCEPT ![t] = label]

(* arch_handle_pendsv.                                                     *)
PendSV ==
    /\ k.pendsv
    /\ k' = schedule(k)
    /\ UNCHANGED <<pc, sem, locals, holds>>

(* An interrupt handler signals an event.  PendSV has a lower exception    *)
(* number and the same priority as every interrupt: it is served first.    *)
Interrupt(e) ==
    /\ ~k.pendsv
    /\ k.value[e] < MaxEvents
    /\ k' = semaphore_signal(k, e)
    /\ UNCHANGED <<pc, sem, locals, holds>>

(* arch_idle_thread waits for interrupts.                                  *)
IdleLoop == k.current = Idle /\ ~k.pendsv /\ UNCHANGED vars

-----------------------------------------------------------------------------

(* semaphore_wait, up to the point where it returns or the thread blocks.  *)
(* The drivers lock one mutex at a time.                                   *)
Wait(t, s) ==
    /\ At(t, "run")
    /\ s \in Mutexes => holds[t] = {}
    /\ k' = semaphore_wait(k, s)
    /\ sem' = [sem EXCEPT ![t] = s]
    /\ IF must_wait(k, s)
       THEN Goto(t, "blocked") /\ UNCHANGED holds
       ELSE /\ holds' = [holds EXCEPT ![t] = @ \cup ({s} \cap Mutexes)]
            /\ UNCHANGED pc
    /\ UNCHANGED locals

(* A blocked thread that was woken returns from semaphore_wait: it does    *)
(* not look at the value again.                                            *)
WaitReturns(t) ==
    /\ At(t, "blocked")
    /\ holds' = [holds EXCEPT ![t] = @ \cup ({sem[t]} \cap Mutexes)]
    /\ Goto(t, "run")
    /\ UNCHANGED <<k, sem, locals>>

(* semaphore_signal by a thread, unlocking a mutex, in the steps between   *)
(* which an interrupt can come: semaphore->value is loaded ...             *)
SignalLoad(t, s) ==
    /\ At(t, "run")
    /\ s \in holds[t]
    /\ sem' = [sem EXCEPT ![t] = s]
    /\ reg' = [reg EXCEPT ![t] = k.value[s]]
    /\ Goto(t, "store")
    /\ UNCHANGED <<k, waitee, old_state, holds>>

(* ... and stored incremented; ...                                         *)
SignalStore(t) ==
    /\ At(t, "store")
    /\ k' = signal_store(k, sem[t], reg[t])
    /\ Goto(t, "first")
    /\ UNCHANGED <<sem, locals, holds>>

(* ... the first waitee is looked up; there may be none; ...               *)
SignalFirst(t) ==
    /\ At(t, "first")
    /\ LET q == k.waiters[sem[t]]
       IN  \/ /\ q = <<>>
              /\ holds' = [holds EXCEPT ![t] = @ \ {sem[t]}]
              /\ Goto(t, "run")
              /\ UNCHANGED waitee
           \/ /\ q # <<>>
              /\ waitee' = [waitee EXCEPT ![t] = Head(q)]
              /\ Goto(t, "delete")
              /\ UNCHANGED holds
    /\ UNCHANGED <<k, sem, reg, old_state>>

(* ... the queue's first entry is deleted, and thread_wakeup called.       *)
SignalDelete(t) ==
    /\ At(t, "delete")
    /\ k' = signal_dequeue(k, sem[t])
    /\ holds' = [holds EXCEPT ![t] = @ \ {sem[t]}]
    /\ Goto(t, "old")
    /\ UNCHANGED <<sem, locals>>

(* console_spawn's thread_wakeup of the thread it has created.             *)
Spawn(t, u) ==
    /\ At(t, "run")
    /\ k.state[u] = "stopped"
    /\ waitee' = [waitee EXCEPT ![t] = u]
    /\ Goto(t, "old")
    /\ UNCHANGED <<k, sem, reg, old_state, holds>>

(* thread_wakeup by a thread: thread_set_state reads the other's state ... *)
WakeupRead(t) ==
    /\ At(t, "old")
    /\ old_state' = [old_state EXCEPT ![t] = k.state[waitee[t]]]
    /\ Goto(t, "wake")
    /\ UNCHANGED <<k, sem, reg, waitee, holds>>

(* ... and writes it; ...                                                  *)
WakeupWrite(t) ==
    /\ At(t, "wake")
    /\ k' = [k EXCEPT !.state[waitee[t]] = "running"]
    /\ Goto(t, "queue")
    /\ UNCHANGED <<sem, locals, holds>>

(* ... then the scheduler takes the lock and updates the run queue.        *)
WakeupQueue(t) ==
    /\ At(t, "queue")
    /\ k' = scheduler_thread_changed_state(k, waitee[t], old_state[t], "running")
    /\ Goto(t, "run")
    /\ UNCHANGED <<sem, locals, holds>>

(* The end of firmware_main: a thread_block nobody answers.  It takes the  *)
(* same three steps.                                                       *)
ParkRead(t) ==
    /\ At(t, "run")
    /\ holds[t] = {}
    /\ old_state' = [old_state EXCEPT ![t] = k.state[t]]
    /\ Goto(t, "park")
    /\ UNCHANGED <<k, sem, reg, waitee, holds>>

ParkWrite(t) ==
    /\ At(t, "park")
    /\ k' = [k EXCEPT !.state[t] = "blocked"]
    /\ Goto(t, "parking")
    /\ UNCHANGED <<sem, locals, holds>>

ParkQueue(t) ==
    /\ At(t, "parking")
    /\ k' = scheduler_thread_changed_state(k, t, old_state[t], "blocked")
    /\ Goto(t, "parked")
    /\ UNCHANGED <<sem, locals, holds>>

ThreadStep(t) ==
    \/ \E s \in Semaphores : Wait(t, s)
    \/ WaitReturns(t)
    \/ \E s \in Mutexes : SignalLoad(t, s)
    \/ SignalStore(t) \/ SignalFirst(t) \/ SignalDelete(t)
    \/ WakeupRead(t) \/ WakeupWrite(t) \/ WakeupQueue(t)
    \/ t = Main /\ (ParkRead(t) \/ \E u \in Threads : Spawn(t, u))
    \/ ParkWrite(t) \/ ParkQueue(t)

Next ==
    \/ PendSV
    \/ \E e \in Events : Interrupt(e)
    \/ IdleLoop
    \/ \E t \in Threads : ThreadStep(t)

Spec == Init /\ [][Next]_vars

(* The processor goes on executing, and serves a pending PendSV.           *)
FairSpec == Spec /\ WF_vars(PendSV) /\ \A t \in Threads : WF_vars(ThreadStep(t))

-----------------------------------------------------------------------------

Labels == {"run", "blocked", "store", "first", "delete", "old", "wake", "queue",
           "park", "parking", "parked"}

(* Every part of the state keeps its type; a semaphore's value stays       *)
(* within the bounds that rule out int8_t overflow in core/semaphore.c.    *)
TypeOK ==
    /\ k \in [state   : [Threads \cup {Idle} -> ThreadState],
              queue   : Seq(Threads),
              current : Threads \cup {Idle},
              pendsv  : BOOLEAN,
              value   : [Semaphores -> -Cardinality(Threads)..MaxEvents],
              waiters : [Semaphores -> Seq(Threads)]]
    /\ pc \in [Threads -> Labels]
    /\ sem \in [Threads -> Semaphores]
    /\ reg \in [Threads -> -Cardinality(Threads)..MaxEvents]
    /\ waitee \in [Threads -> Threads \cup {Idle}]
    /\ old_state \in [Threads -> ThreadState]
    /\ holds \in [Threads -> SUBSET Mutexes]

\* RUNNING, but for the moment between WakeupWrite and WakeupQueue
Entered(t) ==
    k.state[t] = "running" /\ \A u \in Threads : pc[u] = "queue" => waitee[u] # t

\* BLOCKED, but still queued: between ParkWrite and ParkQueue
Leaving(t) == t \in Threads /\ pc[t] = "parking"

(* Whenever schedule() is about to run, scheduler.running_queue holds      *)
(* exactly the threads whose state is RUNNING, each once.  As              *)
(* thread_set_state writes the state before scheduler_thread_changed_state *)
(* takes the lock and updates the queue, in between the thread that is     *)
(* woken is not yet queued, or the one that blocks is queued still; then   *)
(* nothing else is amiss, whatever interrupt handlers wake there.          *)
RunQueueExact ==
    /\ IsInjective(k.queue)
    /\ Range(k.queue) = {t \in Threads \cup {Idle} : Entered(t) \/ Leaving(t)}
    /\ k.pendsv => Range(k.queue) = {t \in Threads \cup {Idle} : k.state[t] = "running"}

(* Once PendSV has been served the processor executes a thread that is     *)
(* RUNNING or about to give it up in thread_block, and the idle thread     *)
(* only when the run queue is empty: the yields in                         *)
(* scheduler_thread_changed_state are enough.                              *)
RunsReadyThread ==
    ~k.pendsv => IF k.current = Idle THEN k.queue = <<>>
                 ELSE k.state[k.current] = "running" \/ Leaving(k.current)

(* A mutex has at most one owner: semaphore_signal hands it to the waitee  *)
(* it wakes, and semaphore_wait does not look at the value again.          *)
MutualExclusion ==
    \A t, u \in Threads : t # u => holds[t] \cap holds[u] = {}

\* 1 while a thread has incremented the value and not yet taken the waitee out
InSignal(s) ==
    IF \E t \in Threads : sem[t] = s /\ pc[t] \in {"first", "delete"}
    THEN 1 ELSE 0

(* A negative value counts the threads in the semaphore's queue, and with  *)
(* a value of zero or more nobody waits: no signal is lost and no thread   *)
(* sleeps on a token that is there (semaphore_wait, semaphore_signal).     *)
NoLostWakeup ==
    \A s \in Semaphores :
        LET v == k.value[s] - InSignal(s)
        IN  Len(k.waiters[s]) = IF v < 0 THEN -v ELSE 0

(* A BLOCKED thread is queued on the semaphore it waits for or about to be *)
(* woken by the thread that took it out, unless it parked itself for good; *)
(* and whoever is queued is BLOCKED, so that its wakeup is not a no-op.    *)
BlockedIsWaiting ==
    \A t \in Threads :
        LET queued == {s \in Semaphores : t \in Range(k.waiters[s])}
            woken  == \E u \in Threads :
                         waitee[u] = t /\ pc[u] \in {"old", "wake"}
        IN  /\ queued # {} => k.state[t] = "blocked" /\ queued = {sem[t]}
            /\ k.state[t] = "blocked" =>
                  pc[t] \in {"parking", "parked"} \/ (pc[t] = "blocked" /\ (queued # {} \/ woken))

(* semaphore.h: waiting threads are woken in the order they arrived.       *)
WokenInOrder ==
    [][\A s \in Semaphores :
          LET q == k.waiters[s]
          IN  \/ k'.waiters[s] = q
              \/ q # <<>> /\ k'.waiters[s] = Tail(q)
              \/ k'.waiters[s] = Append(q, k.current)]_vars

(* With the two threads of the firmware, main and the console, a RUNNING   *)
(* thread gets the processor as long as no thread keeps it for ever: there *)
(* is no preemption, schedule() only runs when a thread blocks or one is   *)
(* woken while the processor idles.  A third thread could be starved.      *)
ReadyThreadRuns ==
    /\ [](Cardinality({t \in Threads : k.state[t] # "stopped"}) <= 2)
    /\ \A u \in Threads : []<>(k.current # u)
    => \A t \in Threads : (k.state[t] = "running") ~> (k.current = t)
==============================================================================
