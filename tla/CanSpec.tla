------------------------------- MODULE CanSpec -------------------------------
(***************************************************************************)
(* What can_send promises to threads: the frames of its callers go out one *)
(* after the other, and a caller gets its answer when its frame is out.    *)
(* Nothing is promised any more once an interrupt handler has sent.        *)
(***************************************************************************)
CONSTANTS Senders, NoFrame

VARIABLES frame,        \* the frame that is being sent, named after its sender
          client,       \* what each sender knows: "idle", "waiting", "sending"
          disturbed     \* a handler has sent

vars == <<frame, client, disturbed>>

Init == frame = NoFrame /\ client = [t \in Senders |-> "idle"] /\ disturbed = FALSE

Call(t) ==
    /\ client[t] = "idle"
    /\ client' = [client EXCEPT ![t] = "waiting"]
    /\ UNCHANGED frame

Transmit(t) ==
    /\ client[t] = "waiting" /\ frame = NoFrame
    /\ client' = [client EXCEPT ![t] = "sending"]
    /\ frame' = t

Out ==
    /\ frame # NoFrame
    /\ frame' = NoFrame
    /\ UNCHANGED client

Return(t) ==
    /\ client[t] = "sending" /\ frame # t
    /\ client' = [client EXCEPT ![t] = "idle"]
    /\ UNCHANGED frame

Promised ==
    /\ Out \/ \E t \in Senders : Call(t) \/ Transmit(t) \/ Return(t)
    /\ UNCHANGED disturbed

Next == Promised \/ disturbed' = TRUE

Spec == Init /\ [][Next]_vars
==============================================================================
