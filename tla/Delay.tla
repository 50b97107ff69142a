-------------------------------- MODULE Delay --------------------------------
(***************************************************************************)
(* delay() of core/scheduler.c on top of the kernel and the managed timer: *)
(* threads schedule a timeout for themselves and block until its handler   *)
(* wakes them, while one thread, running can_node_loop, waits for a        *)
(* semaphore that a repeating timeout signals.  Others schedule and cancel *)
(* timeouts of their own; time passes, and SysTick's interrupt calls the   *)
(* handlers.                                                               *)
(*                                                                         *)
(* scheduler_lock does not nest: the scheduler_unlock that ends            *)
(* timer_managed_schedule also ends the lock that delay() took, and        *)
(* thread_block is called with interrupts enabled.                         *)
(***************************************************************************)
EXTENDS Kernel, ManagedTimer

CONSTANTS Loop,         \* the thread that runs can_node_loop
          Sem,          \* can_node.sem
          Clients,      \* timeouts whose handlers leave the kernel alone
          Times, Interval,
          MaxPosts      \* bound: how far the repeating timeout runs ahead

ASSUME DelayAssumption ==
    /\ Loop \in Threads /\ Semaphores = {Sem} /\ Sem \notin Threads
    /\ Clients \cap (Threads \cup {Sem}) = {}
    /\ Times \subseteq Nat \ {0} /\ Interval \in Nat \ {0} /\ MaxPosts \in 1..127

Timeouts == Threads \cup {Sem} \cup Clients

VARIABLES k,            \* the kernel's state (Kernel.tla)
          tm,           \* the timer's state: a timeout is named after the
                        \* thread it wakes, the repeating one after Sem
          asked,        \* what was asked for with each timeout in the queue
          pc, old_state

vars == <<k, tm, asked, pc, old_state>>

Init ==
    /\ k = [state   |-> [t \in Threads \cup {Idle} |->
                            IF t = Idle THEN "stopped" ELSE "running"],
            queue   |-> SetToSeq(Threads), current |-> Head(SetToSeq(Threads)),
            pendsv  |-> FALSE,
            value   |-> [s \in Semaphores |-> 0], waiters |-> [s \in Semaphores |-> <<>>]]
    /\ tm = [queue |-> <<>>, remaining |-> [e \in Timeouts |-> 0],
             reset |-> [e \in Timeouts |-> 0],
             load |-> 0, val |-> 0, enabled |-> FALSE, pending |-> FALSE]
    /\ asked = [e \in Timeouts |-> 0]
    /\ pc = [t \in Threads |-> "run"]
    /\ old_state = [t \in Threads |-> "running"]

At(t, label) == k.current = t /\ ~k.pendsv /\ pc[t] = label

Goto(t, label) == pc' = [pc EXCEPT ![t] = label]

PendSV ==
    /\ k.pendsv
    /\ k' = schedule(k)
    /\ UNCHANGED <<tm, asked, pc, old_state>>

IdleLoop == k.current = Idle /\ ~k.pendsv /\ ~tm.pending /\ UNCHANGED vars

(* A millisecond passes.                                                   *)
Elapse ==
    /\ k.value[Sem] < MaxPosts
    /\ tm' = systick_count(tm)
    /\ UNCHANGED <<k, asked, pc, old_state>>

(* timer_managed_schedule and timer_managed_cancel.  SysTick may expire    *)
(* while they have the interrupts locked out: it is served after the step. *)
Schedule(e, time, repeat) ==
    /\ tm' = timer_managed_schedule(tm, e, time, repeat)
    /\ asked' = [asked EXCEPT ![e] = time]

Cancel(e) ==
    /\ tm' = timer_managed_cancel(tm, e)
    /\ asked' = [asked EXCEPT ![e] = 0]
    /\ UNCHANGED <<k, pc, old_state>>

(* What a timeout's handler does: delay_handler, can_node_post_sensor_req  *)
(* or nothing that is modelled.                                            *)
Handle(kk, e) ==
    CASE e = Sem       -> semaphore_signal(kk, Sem)
      [] e \in Threads -> thread_wakeup(kk, e)
      [] e \in Clients -> kk

(* SysTick's interrupt.  A pending PendSV is served first.                 *)
Tick ==
    /\ tm.pending /\ ~k.pendsv
    /\ LET h == timer_managedhandler(tm)
       IN  /\ tm' = h.tm /\ k' = FoldLeft(Handle, k, h.fired)
           /\ asked' = [e \in Timeouts |-> IF e \in Range(h.tm.queue) THEN asked[e] ELSE 0]
    /\ UNCHANGED <<pc, old_state>>

-----------------------------------------------------------------------------

(* delay() up to the unlock in timer_managed_schedule.                     *)
DelaySchedule(t, time) ==
    /\ At(t, "run") /\ t # Loop
    /\ Schedule(t, time, FALSE)
    /\ Goto(t, "delay")
    /\ UNCHANGED <<k, old_state>>

(* thread_block: thread_set_state reads the state and writes it ...        *)
BlockWrite(t) ==
    /\ At(t, "delay") /\ ~tm.pending
    /\ old_state' = [old_state EXCEPT ![t] = k.state[t]]
    /\ k' = [k EXCEPT !.state[t] = "blocked"]
    /\ Goto(t, "block")
    /\ UNCHANGED <<tm, asked>>

(* ... and tells the scheduler, which takes the thread out of its queue.   *)
BlockDequeue(t) ==
    /\ At(t, "block") /\ ~tm.pending
    /\ k' = scheduler_thread_changed_state(k, t, old_state[t], "blocked")
    /\ Goto(t, "asleep")
    /\ UNCHANGED <<tm, asked, old_state>>

DelayReturns(t) ==
    /\ At(t, "asleep") /\ ~tm.pending
    /\ Goto(t, "run")
    /\ UNCHANGED <<k, tm, asked, old_state>>

(* can_node_loop starts the repeating timeout ...                          *)
LoopStart ==
    /\ At(Loop, "run")
    /\ Schedule(Sem, Interval, TRUE)
    /\ Goto(Loop, "loop")
    /\ UNCHANGED <<k, old_state>>

(* ... and waits for its signal again and again.                           *)
LoopWait ==
    /\ At(Loop, "loop") /\ ~tm.pending
    /\ k' = semaphore_wait(k, Sem)
    /\ UNCHANGED <<tm, asked, pc, old_state>>

ThreadStep(t) ==
    \/ \E time \in Times : DelaySchedule(t, time)
    \/ BlockWrite(t) \/ BlockDequeue(t) \/ DelayReturns(t)
    \/ t = Loop /\ (LoopStart \/ LoopWait)

\* The thread that runs schedules or cancels a client's timeout.
ClientSchedule(e, time) ==
    /\ \E t \in Threads : At(t, "run")
    /\ e \notin Range(tm.queue)
    /\ Schedule(e, time, FALSE)
    /\ UNCHANGED <<k, pc, old_state>>

ClientCancel(e) == (\E t \in Threads : At(t, "run")) /\ Cancel(e)

Next ==
    \/ PendSV \/ IdleLoop \/ Elapse \/ Tick
    \/ \E t \in Threads : ThreadStep(t)
    \/ \E e \in Clients, time \in Times : ClientSchedule(e, time)
    \/ \E e \in Clients : ClientCancel(e)

Spec == Init /\ [][Next]_vars

(* Time passes, pending exceptions are served (SysTick's is pending until  *)
(* Tick), and the processor executes the thread that runs.                 *)
FairSpec ==
    /\ Spec /\ WF_vars(Elapse) /\ []<>(~tm.pending) /\ WF_vars(PendSV)
    /\ WF_vars(\E t \in Threads : ThreadStep(t))

-----------------------------------------------------------------------------

(* SysTick runs for as much of the first timeout's remaining time as it    *)
(* can count, and is off when there is none: insertions in front, removals *)
(* of the first timeout and the handler all set it again.                  *)
ArmedForHead ==
    IF tm.queue = <<>> THEN ~tm.enabled
    ELSE /\ tm.enabled
         /\ systick_get(tm) = Clamped(tm.remaining[Head(tm.queue)])
         /\ tm.val \in 1..tm.load

(* The assertion of timer_set, "Setting a timers time to a negative        *)
(* ammount makes no sense", holds for every time it is given; and the      *)
(* queue never has a timeout twice, or further away than its client asked  *)
(* for.  The one can_node_loop repeats is always in it.                    *)
TimeoutsSound ==
    /\ IsInjective(tm.queue)
    /\ pc[Loop] = "loop" => Sem \in Range(tm.queue)
    /\ tm.queue # <<>> => tm.remaining[Head(tm.queue)] > 0
    /\ \A i \in DOMAIN tm.queue :
          tm.remaining[tm.queue[i]] >= 0 /\ Sum(tm, i) <= asked[tm.queue[i]]

(* A timeout that is not cancelled is called in the end, however many      *)
(* others are scheduled in front of it and although SysTick starts again   *)
(* each time; unless timeouts are cancelled for ever, which restarts it    *)
(* too.                                                                    *)
TimeoutFires ==
    \/ []<><<\E e \in Clients : ClientCancel(e)>>_vars
    \/ \A e \in Threads \cup Clients : e \in Range(tm.queue) ~> e \notin Range(tm.queue)

(* delay() does not return before its timeout's handler was called, and a  *)
(* timeout never outlives the delay() that scheduled it: delay_handler     *)
(* wakes no thread out of anything else it waits for.  No thread that has  *)
(* gone to sleep is in the run queue, and none is twice, even when the     *)
(* handler runs in the middle of thread_block.                             *)
DelayWaits ==
    /\ \A t \in Threads \cap Range(tm.queue) :
          pc[t] \in {"delay", "block", "asleep"} /\ ~At(t, "asleep")
    /\ IsInjective(k.queue)
    /\ \A t \in Range(k.queue) : k.state[t] = "running" \/ pc[t] = "block"

(* thread.h, thread_wakeup: "Wakes up a given thread."  A thread that is   *)
(* RUNNING again after delay_handler woke it is in the run queue.          *)
WokenIsQueued ==
    \A t \in Threads :
        k.state[t] = "running" /\ pc[t] # "block" => t \in Range(k.queue)
==============================================================================
