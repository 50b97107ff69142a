----------------------------- MODULE ManagedTimer ----------------------------
(***************************************************************************)
(* core/timer.c and the SysTick driver below it, as functions of the       *)
(* timer's state, a record tm:                                             *)
(*   tm.queue      timer->managed_timeouts, as the identities of timeouts  *)
(*   tm.remaining  timeout->remaining: milliseconds after the timeout      *)
(*                 before it in the queue                                  *)
(*   tm.reset      timeout->reset_time, 0 unless it repeats                *)
(*   tm.load       SysTick's LOAD, in clock cycles                         *)
(*   tm.val        the cycles left until SysTick expires                   *)
(*   tm.enabled    SysTick counts, and interrupts when it expires          *)
(*   tm.pending    its interrupt is pending                                *)
(***************************************************************************)
EXTENDS Lists, SequencesExt, FiniteSetsExt

CONSTANTS Clock,            \* systick_clock(), in Hz
          kMaxLoadValue,    \* the largest value of LOAD
          Word              \* registers and unsigned arithmetic are modulo Word

(* Every clock of the lpc11xx and samd20 platforms is a multiple of 1 kHz, *)
(* and SysTick can count a millisecond of it.                              *)
ASSUME ClockAssumption ==
    /\ Clock \in Nat \ {0} /\ kMaxLoadValue \in Nat /\ Word \in Nat \ {0}
    /\ Clock % 1000 = 0
    /\ Clock <= (1000 * kMaxLoadValue) % Word

\* systick_set: 1000 * kMaxLoadValue wraps before it is divided
maxPossibleValue == ((1000 * kMaxLoadValue) % Word) \div Clock

Clamped(time) == IF time > maxPossibleValue THEN maxPossibleValue ELSE time

\* A faulty systick_set: SysTick is not switched on.
systick_set_only(tm, time) ==
    LET cycles == (Clock \div 1000) * Clamped(time)
    IN  [tm EXCEPT !.load = cycles, !.val = cycles]

(* Writing VAL makes SysTick start again from LOAD.  An interrupt that is  *)
(* already pending stays pending.                                          *)
systick_set(tm, time) ==
    LET cycles == (Clock \div 1000) * Clamped(time)
    IN  [tm EXCEPT !.load = cycles, !.val = cycles, !.enabled = TRUE]

systick_disable(tm) == [tm EXCEPT !.enabled = FALSE]

systick_get(tm) == ((tm.load * 1000) % Word) \div Clock

\* A millisecond of SysTick: expiring, it requests an interrupt and reloads.
systick_count(tm) ==
    IF ~tm.enabled THEN tm
    ELSE IF tm.val <= Clock \div 1000 THEN [tm EXCEPT !.val = tm.load, !.pending = TRUE]
    ELSE [tm EXCEPT !.val = @ - Clock \div 1000]

-----------------------------------------------------------------------------

\* A faulty recalculation: SysTick is left running when no timeout is left.
timer_managed_recalculate_runs_on(tm) ==
    IF tm.queue = <<>> THEN tm ELSE systick_set(tm, tm.remaining[Head(tm.queue)])

timer_managed_recalculate(tm) ==
    IF tm.queue = <<>> THEN systick_disable(tm)
    ELSE systick_set(tm, tm.remaining[Head(tm.queue)])

\* Milliseconds from now to the i-th timeout, as the queue has it.
Sum(tm, i) == FoldFunctionOnSet(+, 0, [j \in DOMAIN tm.queue |-> tm.remaining[tm.queue[j]]], 1..i)

(* timer_managed_insert: the loop over the queue stops at the first        *)
(* timeout that is not due before the new one, which goes in front of it.  *)
(* In front of the first one that is list_insert_before, list_rrotate and  *)
(* a new setting of the timer.  The time the first timeout has waited      *)
(* already is not looked at (timer_managed_update_first does nothing).     *)
timer_managed_insert(tm, e) ==
    LET q    == tm.queue
        time == tm.remaining[e]
        at   == {i \in DOMAIN q : time <= Sum(tm, i)}
    IN  IF q = <<>> THEN timer_managed_recalculate([tm EXCEPT !.queue = <<e>>])
        ELSE IF at = {}
        THEN [tm EXCEPT !.queue = list_append(q, e), !.remaining[e] = time - Sum(tm, Len(q))]
        ELSE LET i    == Min(at)
                 left == time - Sum(tm, i - 1)
                 in   == [tm EXCEPT !.queue = InsertAt(q, i, e),
                                    !.remaining[e] = left, !.remaining[q[i]] = @ - left]
             IN  IF i = 1 THEN timer_managed_recalculate(in) ELSE in

timer_managed_schedule(tm, e, timeout, repeat) ==
    timer_managed_insert([tm EXCEPT !.remaining[e] = timeout,
                                    !.reset[e] = IF repeat THEN timeout ELSE 0], e)

(* timer_managed_cancel: what the timeout had left is added to the next.   *)
timer_managed_cancel(tm, e) ==
    LET q  == tm.queue
        i  == IndexOf(q, e)
        rest == IF i = Len(q) THEN tm.remaining
                ELSE [tm.remaining EXCEPT ![q[i + 1]] = @ + tm.remaining[e]]
        out  == [tm EXCEPT !.queue = list_delete(q, e), !.remaining = rest]
    IN  IF e \notin Range(q) THEN tm
        ELSE IF i = 1 THEN timer_managed_recalculate(out) ELSE out

\* A faulty test: a timeout with nothing remaining is not due yet.
Due_off_by_one(tm) == tm.queue # <<>> /\ tm.remaining[Head(tm.queue)] < 0

(* The first timeout has nothing remaining.  With no timeout left the code *)
(* reads the word at address 8, which is positive: the NMI vector.         *)
Due(tm) == tm.queue # <<>> /\ tm.remaining[Head(tm.queue)] <= 0

(* One round of timer_managedhandler's loop, which calls the handlers of   *)
(* the timeouts with nothing remaining; s.fired collects them in order.    *)
Fire(s) ==
    LET e   == Head(s.tm.queue)
        out == [s.tm EXCEPT !.queue = Tail(@)]
    IN  IF ~Due(s.tm) THEN s
        ELSE [tm    |-> IF s.tm.reset[e] = 0 THEN out
                        ELSE timer_managed_insert([out EXCEPT !.remaining[e] = s.tm.reset[e]], e),
              fired |-> Append(s.fired, e)]

(* systick_handle_irq and timer_managedhandler.  No timeout is due twice   *)
(* in one call: a repeating one goes back with its whole time.             *)
timer_managedhandler(tm) ==
    LET e    == Head(tm.queue)
        on   == [tm EXCEPT !.pending = FALSE]
        loop[n \in 0..Len(tm.queue)] ==
            IF n = 0 THEN [tm |-> [on EXCEPT !.remaining[e] = @ - systick_get(tm)], fired |-> <<>>]
            ELSE Fire(loop[n - 1])
        end  == loop[Len(tm.queue)]
    IN  IF tm.queue = <<>> THEN [tm |-> on, fired |-> <<>>]
        ELSE [end EXCEPT !.tm = timer_managed_recalculate(end.tm)]
==============================================================================
