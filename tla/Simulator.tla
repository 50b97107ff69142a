------------------------------ MODULE Simulator ------------------------------
(***************************************************************************)
(* The simulator under gdb, running the unit tests: the event loop steps   *)
(* the mcu while it runs (mcu_runloop), gdb may stop it, step it, reset it, *)
(* write its registers and memory and let it run on (Gdb), and the         *)
(* unittest device resets it and in the end exits the simulator (TestRun). *)
(***************************************************************************)
EXTENDS Gdb, TestRun

vars == <<gdbVars, testVars>>

Init == GdbInit /\ TestInit

Alive == exit = "no"

(* An instruction of the mcu that takes the tests a step further.  After   *)
(* a test that got stuck the mcu loops, sleeps or is caught in a fault.    *)
McuStep ==
    /\ Alive /\ running /\ TestNext
    /\ \/ UNCHANGED <<mcu, back>>
       \/ /\ pc' \in {Halted, Unknown} /\ exit' = "no"
          /\ \E why \in {"fault", "sleep"} : Apply(mcu_halt(Now, why))
    /\ UNCHANGED <<fd, buffer, wire, client>>

(* One that halts it: a breakpoint, or what has halted it before.          *)
McuHalts ==
    /\ Alive
    /\ \/ mcu_runloop("trap")
       \/ pc \in {Halted, Unknown} /\ \E why \in {"fault", "sleep"} : mcu_runloop(why)
    /\ UNCHANGED testVars

\* The request whose packet is complete with n more characters.
Requested(n) ==
    LET b == FromStart(buffer \o SubSeq(wire, 1, n))
    IN  IF IsPacket(b) /\ IsComplete(b) /\ ChecksumMatches(b) THEN b[2] ELSE None

(* What gdb's request does to the program: mcu_step executes one           *)
(* instruction of the halted mcu.                                          *)
Serve(r) ==
    \/ r = "step" /\ TestNext
    \/ r = "reset" /\ GdbReset
    \/ r = "write" /\ GdbWrite
    \/ r \notin {"reset", "write"} /\ UNCHANGED testVars

Read ==
    /\ Alive
    /\ \E n \in 1..Len(wire) : gdb_read_callback(n) /\ Serve(Requested(n))

Close == Alive /\ gdb_client_close /\ UNCHANGED testVars

Listen == Alive /\ Receive /\ UNCHANGED testVars

Client ==
    /\ Alive /\ UNCHANGED testVars
    /\ \/ gdb_accept_callback \/ Interrupt \/ Disconnect
       \/ \E r \in Requests, check \in {"x", "y"} : Ask(r, check)

Next == McuStep \/ McuHalts \/ Read \/ Close \/ Listen \/ Client

Spec == Init /\ [][Next]_vars

Readable == Alive /\ fd /\ wire # <<>> /\ Len(buffer) < BufferLength - 1

(* The event loop steps the mcu while it runs and reads what is readable   *)
(* (the last conjunct is WF_vars(Read), written out), and gdb takes what   *)
(* it receives.                                                            *)
FairSpec ==
    /\ Spec /\ WF_vars(McuStep) /\ WF_vars(Close) /\ WF_vars(Listen)
    /\ []<>~Readable \/ []<><<Len(wire') < Len(wire)>>_vars

-----------------------------------------------------------------------------

(* Every request but continue is answered, whatever has been cut off in    *)
(* the buffer, unless a step was the last one of the last test; and a      *)
(* break stops the mcu and gdb hears of it, unless the mcu sleeps or the   *)
(* run of the tests ends first.                                            *)
RequestsServed ==
    /\ request \in Requests \ {"continue"} ~> request = None \/ ~Alive
    /\ (request = "continue" /\ breaks > 0) ~> (request # "continue" \/ reason = "sleep" \/ ~Alive)

(* Once gdb lets the mcu run, or even if the mcu goes to sleep by itself,  *)
(* the run of the tests ends, unless a test gets stuck for good or gdb has *)
(* written registers or memory; wherever gdb has stopped, stepped or reset *)
(* it before.                                                              *)
RunEnds ==
    <>[](running \/ reason = "sleep") =>
        <>(~Alive \/ pc = Unknown) \/ <>[](\E t \in Tests : result[t] = "stuck")
==============================================================================
