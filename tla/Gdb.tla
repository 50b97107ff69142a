--------------------------------- MODULE Gdb ---------------------------------
(***************************************************************************)
(* tools/simulator/core/gdb.c with the run loop of core/mcu.c: gdb's       *)
(* packets come in over a connection that cuts its stream anywhere, while  *)
(* the mcu runs and halts by itself.  The callbacks of the event loop are  *)
(* the steps.  The simulator was started with -g: the mcu waits for gdb.   *)
(***************************************************************************)
EXTENDS Sequences, SequencesExt, FiniteSetsExt, Integers

CONSTANTS MaxBreaks,    \* bound: the breaks gdb sends during one continue
          BufferLength  \* gdb->rev_buffer_length

(* The buffer of 4 KB has room for a packet of at most 119 characters and  *)
(* what may come before it.                                                *)
ASSUME GdbAssumption ==
    MaxBreaks \in Nat /\ BufferLength \in Nat /\ BufferLength > MaxBreaks + 8

(* A packet is a start, the request, the end and two characters of the     *)
(* checksum.  A query reads registers or memory, or is not supported; a    *)
(* reset is the register write P that sets the pc to 0; a write is any     *)
(* other P, or X.                                                          *)
Requests == {"query", "reset", "write", "step", "continue"}

\* The ones that end with a stop.
Moves == {"step", "continue"}

VARIABLES fd,           \* gdb->gdb_fd >= 0
          buffer,       \* gdb->rev_buffer, up to rev_buffer_filled
          running,      \* mcu->state = mcu_running
          reason,       \* mcu->halt_reason
          wire,         \* what gdb has sent and the simulator has not read
          back,         \* what the simulator has sent
          open,         \* gdb's end of the connection
          request,      \* the request gdb waits for the answer of ...
          acked,        \* ... and whether it was acknowledged
          breaks,       \* breaks sent since gdb's last continue
          stopped       \* gdb has queried the mcu since it stopped

mcu == <<running, reason>>
client == <<open, request, acked, breaks, stopped>>
gdbVars == <<fd, buffer, mcu, wire, back, client>>

None == "none"

GdbInit ==
    /\ fd = FALSE /\ buffer = <<>>
    /\ running = FALSE /\ reason = "stopped"
    /\ wire = <<>> /\ back = <<>>
    /\ open = FALSE /\ request = None /\ acked = FALSE
    /\ breaks = 0 /\ stopped = FALSE

-----------------------------------------------------------------------------
(* core/mcu.c.  Halting a halted mcu does nothing; gdb is told unless the  *)
(* mcu only sleeps.  s is [running, reason, sent].                         *)

\* A faulty mcu_halt: gdb is told of a halt that it knows already.
mcu_halt_again(s, why) ==
    [running |-> FALSE, reason |-> why,
     sent |-> IF why # "sleep" /\ fd THEN Append(s.sent, "stop") ELSE s.sent]

mcu_halt(s, why) ==
    IF ~s.running THEN s
    ELSE [running |-> FALSE, reason |-> why,
          sent |-> IF why # "sleep" /\ fd THEN Append(s.sent, "stop") ELSE s.sent]

mcu_resume(s) == [s EXCEPT !.running = TRUE]

Apply(s) == running' = s.running /\ reason' = s.reason /\ back' = s.sent

Now == [running |-> running, reason |-> reason, sent |-> back]

(* mcu_runloop: an instruction that halts the mcu (see Thumb).             *)
mcu_runloop(why) ==
    /\ running
    /\ Apply(mcu_halt(Now, why))
    /\ UNCHANGED <<fd, buffer, wire, client>>

-----------------------------------------------------------------------------
(* gdb_read_callback                                                       *)

\* The buffer from the start of its first packet, if it has one.
FromStart(b) == LET n == SelectInSeq(b, LAMBDA c : c = "$")
                IN  IF n = 0 THEN b ELSE SubSeq(b, n, Len(b))

\* A faulty search: a break without a packet behind it is not seen.
HasBreak_ahead(b) ==
    LET n == SelectInSeq(b, LAMBDA c : c = "$") IN "break" \in ToSet(SubSeq(b, 1, n - 1))

\* A break ahead of the first packet.
HasBreak(b) ==
    LET n == SelectInSeq(b, LAMBDA c : c = "$")
    IN  "break" \in ToSet(IF n = 0 THEN b ELSE SubSeq(b, 1, n - 1))

IsPacket(b) == b # <<>> /\ b[1] = "$"

End(b) == SelectInSeq(b, LAMBDA c : c = "#")

IsComplete(b) == End(b) # 0 /\ End(b) + 2 <= Len(b)

ChecksumMatches(b) == End(b) + 2 <= Len(b) /\ b[End(b) + 1] = "x" /\ b[End(b) + 2] = "x"

(* gdb_handle_packet, on a complete packet.  Simulator has what a step, a  *)
(* reset or a write does to the program.                                   *)
gdb_handle_packet(s, b) ==
    LET ack == [s EXCEPT !.sent = Append(@, "+")]
    IN  CASE ~ChecksumMatches(b)   -> [s EXCEPT !.sent = Append(@, "-")]
          [] b[2] = "continue"     -> mcu_resume(ack)
          [] b[2] = "step"         -> [ack EXCEPT !.sent = Append(@, "stop")]
          [] OTHER                 -> [ack EXCEPT !.sent = Append(@, "answer")]

\* A faulty removal: what was in front of the packet stays.
Remaining_junk(all, b) == SubSeq(all, 1, Len(all) - Len(b)) \o SubSeq(b, End(b) + 3, Len(b))

\* What is left when the packet at the start of b is removed.
Remaining(all, b) == SubSeq(b, End(b) + 3, Len(b))

(* The event loop calls it when there is something to read; n characters   *)
(* have arrived.  With an incomplete packet it returns before it halts.    *)
gdb_read_callback(n) ==
    /\ fd /\ n \in 1..Min({Len(wire), BufferLength - Len(buffer) - 1})
    /\ LET all  == buffer \o SubSeq(wire, 1, n)
           b    == FromStart(all)
           rest == Remaining(all, b)
           s    == gdb_handle_packet(Now, b)
       IN  \/ /\ ~IsPacket(b)
              /\ Apply(IF HasBreak(all) THEN mcu_halt(Now, "break") ELSE Now)
              /\ buffer' = b
           \/ /\ IsPacket(b) /\ ~IsComplete(b)
              /\ Apply(Now)
              /\ buffer' = b
           \/ /\ IsPacket(b) /\ IsComplete(b)
              /\ Apply(IF HasBreak(all) \/ HasBreak(rest) THEN mcu_halt(s, "break") ELSE s)
              /\ buffer' = rest
    /\ wire' = SubSeq(wire, n + 1, Len(wire))
    /\ UNCHANGED <<fd, client>>

(* A read of nothing is the end of the connection.                         *)
gdb_client_close ==
    /\ fd /\ ((~open /\ wire = <<>>) \/ Len(buffer) = BufferLength - 1)
    /\ fd' = FALSE /\ buffer' = <<>>
    /\ UNCHANGED <<mcu, wire, back, client>>

-----------------------------------------------------------------------------
(* gdb (external).  After a stop it reads the registers before it writes   *)
(* any or lets the mcu go on; it has one request out at a time, and sends  *)
(* a break only when the continue was acknowledged.                        *)

Packet(r, check) == <<"$", r, "#", "x", check>>

\* gdb_accept_callback; while there is a connection others are closed again.
gdb_accept_callback ==
    /\ ~open /\ ~fd
    /\ open' = TRUE /\ fd' = TRUE /\ wire' = <<>> /\ back' = <<>> /\ stopped' = FALSE
    /\ UNCHANGED <<buffer, mcu, request, acked, breaks>>

\* The checksum may come to harm on the way, once.
Ask(r, check) ==
    /\ open /\ fd /\ request = None /\ back = <<>>
    /\ r = "query" \/ stopped
    /\ wire' = wire \o Packet(r, check) /\ request' = r /\ acked' = FALSE
    /\ breaks' = IF r = "continue" THEN 0 ELSE breaks
    /\ stopped' = (r \notin Moves)
    /\ UNCHANGED <<fd, buffer, mcu, back, open>>

Interrupt ==
    /\ open /\ request = "continue" /\ acked /\ breaks < MaxBreaks
    /\ wire' = Append(wire, "break") /\ breaks' = breaks + 1
    /\ UNCHANGED <<fd, buffer, mcu, back, open, request, acked, stopped>>

Disconnect ==
    /\ open /\ request = None /\ back = <<>>
    /\ open' = FALSE
    /\ UNCHANGED <<fd, buffer, mcu, wire, back, request, acked, breaks, stopped>>

\* A packet that was refused is sent again, an answer is acknowledged.
Receive ==
    /\ open /\ back # <<>> /\ back' = Tail(back)
    /\ \/ Head(back) = "+" /\ acked' = TRUE /\ UNCHANGED <<wire, request>>
       \/ Head(back) = "-" /\ wire' = wire \o Packet(request, "x") /\ UNCHANGED <<request, acked>>
       \/ Head(back) \in {"answer", "stop"} /\ wire' = Append(wire, "+") /\ request' = None /\ UNCHANGED acked
    /\ UNCHANGED <<fd, buffer, mcu, open, breaks, stopped>>

-----------------------------------------------------------------------------

(* gdb never takes one answer for another: what comes back while it waits  *)
(* is the stop of a step or continue or the answer to any other request,   *)
(* and nothing comes unasked; however its stream is cut and the mcu halts  *)
(* meanwhile.                                                              *)
RepliesMatch ==
    LET replies == SelectSeq(back, LAMBDA m : m \in {"answer", "stop"})
    IN  /\ Len(replies) <= IF request = None THEN 0 ELSE 1
        /\ replies # <<>> => replies[1] = IF request \in Moves THEN "stop" ELSE "answer"

Stops(b) == Len(SelectSeq(b, LAMBDA m : m = "stop"))

(* A continue is stopped by what is read from gdb only when gdb sent a     *)
(* break since: one that is left over from the last stop is not taken for  *)
(* a new one, also when it is still in the buffer with the packet.         *)
NoStaleBreak ==
    [][request = "continue" /\ wire' # wire /\ Stops(back') > Stops(back) => breaks > 0]_gdbVars
==============================================================================
