------------------------------ MODULE CanDriver ------------------------------
(***************************************************************************)
(* platform/lpc11xx/net/can/can_rom.c: can_send called by threads, and by  *)
(* the receive interrupt that answers a discovery request (can_node.c),    *)
(* against the transmit interrupt.  Message object 0 holds one frame.      *)
(*                                                                         *)
(* A thread's semaphore_signal(&can.send_lock) is split where an interrupt *)
(* may come in between, because interrupts wait for and signal send_lock   *)
(* as well.                                                                *)
(***************************************************************************)
EXTENDS Kernel

CONSTANTS SendLock, SendDone,   \* can.send_lock, can.send_done
          NoFrame, Response,    \* no frame; the answer sent by the interrupt
          MaxRequests           \* bound: discovery requests received

ASSUME CanAssumption ==
    /\ Semaphores = {SendLock, SendDone} /\ SendLock # SendDone
    /\ {NoFrame, Response} \cap (Threads \cup {Idle}) = {} /\ NoFrame # Response
    /\ IsFiniteSet(Threads) /\ Cardinality(Threads) \in 1..126
    /\ MaxRequests \in 0..40 \* send_lock's int8_t does not overflow

VARIABLES k,            \* the kernel's state (Kernel.tla)
          pc,           \* where each thread is in can_send
          reg, waitee,  \* semaphore_signal's locals
          send_async,
          object,       \* message object 0: the frame to be sent, by its sender
          txirq,        \* the transmit interrupt is pending
          requests,     \* discovery requests received so far
          undefined     \* "no", or why the code's behaviour is undefined from now on

vars == <<k, pc, reg, waitee, send_async, object, txirq, requests, undefined>>
hardware == <<object, txirq>>
signalling == <<reg, waitee>>

(* can_init, with the threads that will send ready to run.                 *)
Init ==
    /\ \E order \in Bijection(1..Cardinality(Threads), Threads) :
          k = [state   |-> [t \in Threads \cup {Idle} |->
                              IF t = Idle THEN "stopped" ELSE "running"],
               queue   |-> order, current |-> Head(order), pendsv |-> FALSE,
               value   |-> [s \in Semaphores |-> IF s = SendLock THEN 1 ELSE 0],
               waiters |-> [s \in Semaphores |-> <<>>]]
    /\ pc = [t \in Threads |-> "idle"]
    /\ reg = [t \in Threads |-> 0] /\ waitee = [t \in Threads |-> Idle]
    /\ send_async = FALSE
    /\ object = NoFrame /\ txirq = FALSE
    /\ requests = 0 /\ undefined = "no"

At(t, label) == k.current = t /\ ~k.pendsv /\ pc[t] = label /\ undefined = "no"

Goto(t, label) == pc' = [pc EXCEPT ![t] = label]

PendSV ==
    /\ k.pendsv /\ undefined = "no"
    /\ k' = schedule(k)
    /\ UNCHANGED <<pc, signalling, send_async, hardware, requests, undefined>>

IdleLoop == k.current = Idle /\ ~k.pendsv /\ UNCHANGED vars

-----------------------------------------------------------------------------

(* The ROM's can_transmit writes message object 0.  A frame that is still  *)
(* in it is lost, unless it is on the bus already: then it is completed.   *)
can_transmit(frame) ==
    /\ object' = frame
    /\ \/ UNCHANGED txirq
       \/ object # NoFrame /\ txirq' = TRUE

(* The frame in message object 0 is out.                                   *)
Bus ==
    /\ object # NoFrame /\ undefined = "no"
    /\ object' = NoFrame /\ txirq' = TRUE
    /\ UNCHANGED <<k, pc, signalling, send_async, requests, undefined>>

\* A faulty can_rom_callback_tx: an asynchronous send keeps the lock.
can_rom_callback_tx_keeps_lock ==
    /\ txirq /\ ~k.pendsv /\ undefined = "no"
    /\ txirq' = FALSE
    /\ k' = semaphore_signal(k, SendDone)
    /\ UNCHANGED <<pc, signalling, send_async, object, requests, undefined>>

\* A faulty can_rom_callback_tx: only an asynchronous send is told it is done.
can_rom_callback_tx_async_only ==
    /\ txirq /\ ~k.pendsv /\ undefined = "no"
    /\ txirq' = FALSE
    /\ k' = IF send_async THEN semaphore_signal(k, SendDone) ELSE k
    /\ UNCHANGED <<pc, signalling, send_async, object, requests, undefined>>

(* The interrupt for message object 0.                                     *)
can_rom_callback_tx ==
    /\ txirq /\ ~k.pendsv /\ undefined = "no"
    /\ txirq' = FALSE
    /\ LET done == semaphore_signal(k, SendDone)
       IN  k' = IF send_async THEN semaphore_signal(done, SendLock) ELSE done
    /\ UNCHANGED <<pc, signalling, send_async, object, requests, undefined>>

(* The receive interrupt with a discovery request: can_send in a handler,  *)
(* always without waiting for send_done.  If semaphore_wait blocks, it is  *)
(* the interrupted thread that is blocked; the handler itself goes on, and *)
(* the waitee it leaves in the queue lies in a stack frame that is gone.   *)
(* What happens after that is undefined: the model stops there.            *)
can_node_discovery_callback ==
    /\ requests < MaxRequests /\ ~k.pendsv /\ undefined = "no"
    /\ requests' = requests + 1
    /\ undefined' = IF must_wait(k, SendLock) THEN "waitee" ELSE "no"
    /\ k' = semaphore_wait(k, SendLock)
    /\ send_async' = TRUE
    /\ can_transmit(Response)
    /\ UNCHANGED <<pc, signalling>>

Undefined == undefined # "no" /\ UNCHANGED vars

-----------------------------------------------------------------------------

(* can_send of a thread: semaphore_wait(&can.send_lock) ...                *)
SendLockWait(t) ==
    /\ At(t, "idle")
    /\ k' = semaphore_wait(k, SendLock)
    /\ Goto(t, "locked")
    /\ UNCHANGED <<signalling, send_async, hardware, requests, undefined>>

SendSync(t) ==
    /\ At(t, "locked")
    /\ send_async' = FALSE
    /\ Goto(t, "transmit")
    /\ UNCHANGED <<k, signalling, hardware, requests, undefined>>

SendTransmit(t) ==
    /\ At(t, "transmit")
    /\ can_transmit(t)
    /\ Goto(t, "sending")
    /\ UNCHANGED <<k, signalling, send_async, requests, undefined>>

\* A faulty can_send: it does not wait for send_done.
SendDoneWait_skipped(t) ==
    /\ At(t, "sending")
    /\ Goto(t, "out")
    /\ UNCHANGED <<k, signalling, send_async, hardware, requests, undefined>>

SendDoneWait(t) ==
    /\ At(t, "sending")
    /\ k' = semaphore_wait(k, SendDone)
    /\ Goto(t, "out")
    /\ UNCHANGED <<signalling, send_async, hardware, requests, undefined>>

(* ... and semaphore_signal(&can.send_lock): value++ is a load and a store *)
UnlockLoad(t) ==
    /\ At(t, "out")
    /\ reg' = [reg EXCEPT ![t] = k.value[SendLock]]
    /\ Goto(t, "store")
    /\ UNCHANGED <<k, waitee, send_async, hardware, requests, undefined>>

UnlockStore(t) ==
    /\ At(t, "store")
    /\ k' = signal_store(k, SendLock, reg[t])
    /\ Goto(t, "first")
    /\ UNCHANGED <<signalling, send_async, hardware, requests, undefined>>

(* ... the first waitee is looked up, if there is one ...                  *)
UnlockFirst(t) ==
    /\ At(t, "first")
    /\ IF k.waiters[SendLock] = <<>>
       THEN Goto(t, "idle") /\ UNCHANGED waitee
       ELSE /\ waitee' = [waitee EXCEPT ![t] = Head(k.waiters[SendLock])]
            /\ Goto(t, "delete")
    /\ UNCHANGED <<k, reg, send_async, hardware, requests, undefined>>

(* ... whatever is the first one now is taken out of the queue: a handler  *)
(* may have signalled since.  Without one, list_delete follows NULL ...    *)
UnlockDelete(t) ==
    /\ At(t, "delete")
    /\ \/ /\ k.waiters[SendLock] # <<>>
          /\ k' = signal_dequeue(k, SendLock) /\ Goto(t, "wake") /\ UNCHANGED undefined
       \/ /\ k.waiters[SendLock] = <<>>
          /\ undefined' = "list" /\ UNCHANGED <<k, pc>>
    /\ UNCHANGED <<signalling, send_async, hardware, requests>>

(* ... and woken.                                                          *)
UnlockWake(t) ==
    /\ At(t, "wake")
    /\ k' = thread_wakeup(k, waitee[t])
    /\ Goto(t, "idle")
    /\ UNCHANGED <<signalling, send_async, hardware, requests, undefined>>

ThreadStep(t) ==
    \/ SendLockWait(t) \/ SendSync(t) \/ SendTransmit(t) \/ SendDoneWait(t)
    \/ UnlockLoad(t) \/ UnlockStore(t) \/ UnlockFirst(t)
    \/ UnlockDelete(t) \/ UnlockWake(t)

Next ==
    \/ PendSV \/ IdleLoop \/ Bus \/ can_rom_callback_tx
    \/ can_node_discovery_callback \/ Undefined
    \/ \E t \in Threads : ThreadStep(t)

Spec == Init /\ [][Next]_vars

(* The bus takes every frame in the end, interrupts and PendSV are served, *)
(* and the processor goes on executing.                                    *)
FairSpec ==
    /\ Spec
    /\ WF_vars(Bus) /\ WF_vars(can_rom_callback_tx) /\ WF_vars(PendSV)
    /\ \A t \in Threads : WF_vars(ThreadStep(t))

-----------------------------------------------------------------------------

(* What a thread's pc means to CanSpec.                                    *)
Client ==
    [t \in Threads |->
        CASE pc[t] \in {"locked", "transmit"} -> "waiting"
          [] pc[t] \in {"sending", "out"} -> "sending"
          [] OTHER -> "idle"]

Abstract ==
    INSTANCE CanSpec
        WITH Senders <- Threads, frame <- object, client <- Client, disturbed <- requests > 0

(* As long as only threads send, can_send keeps CanSpec's promise: message *)
(* object 0 is never overwritten while its frame is not out yet, and       *)
(* can_send does not return before the caller's own frame is.              *)
ImplementsCanSpec == Abstract!Spec

(* Every can_send of a thread returns, whatever the others do, as long as  *)
(* the bus takes the frames and only threads send.                         *)
SendReturns ==
    [](requests = 0) => \A t \in Threads : pc[t] = "locked" ~> pc[t] = "idle"

(* With answers sent by the interrupt in between, send_lock can be given   *)
(* back too early or once too often (a token of an asynchronous send stays *)
(* in send_done, and the next can_send does not wait), but it is never     *)
(* lost: when no send is under way it is free.                             *)
LockComesBack ==
    /\ undefined = "no" /\ object = NoFrame /\ ~txirq
    /\ \A t \in Threads : pc[t] = "idle"
    => k.value[SendLock] >= 1
==============================================================================
