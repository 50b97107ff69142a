------------------------------- MODULE CanNode -------------------------------
(***************************************************************************)
(* lib/can_node/can_node.c: frames received by the CAN interrupt change    *)
(* the sources and modes of the node's outputs and leave work requests;    *)
(* can_node_loop fetches the requests and does the work, interrupted at    *)
(* any point.  can_node_send returns when the frame is out (CanSpec):      *)
(* interrupts come before and after the step that sends.  Discovery is in  *)
(* CanDriver.                                                              *)
(***************************************************************************)
EXTENDS Kernel, CanId

CONSTANTS Loop,         \* the thread in can_node_loop
          Sem,          \* can_node.sem
          node_id,
          NumOutputs, NumSources, \* CAN_NODE_NUM_OUTPUT, CAN_NODE_NUM_OUTPUT_SOURCE
          Conf,         \* config.can_node.outputs[i].sources[j]
          Readings,     \* what other nodes publish: sender, sensor and value
          MaxPosts      \* bound: how far the interrupts run ahead of the loop

Outputs == 1..NumOutputs
Sources == 1..NumSources

ASSUME CanNodeAssumption ==
    /\ NumOutputs \in Nat \ {0} /\ NumSources \in Nat \ {0}
    /\ Threads = {Loop} /\ Semaphores = {Sem} /\ MaxPosts \in 1..127
    /\ can_node_valid_id(node_id) /\ node_id # CAN_NODE_BROADCAST_ID
    /\ Conf \in [Outputs -> [Sources -> [node : NodeId, sensor : Nat,
                                          off_value : Int, on_value : Int]]]

Mode == {"auto", "manual"}
WorkReq == {"sensors", "output", "response", "save"}

VARIABLES k,            \* the kernel's state (Kernel.tla)
          pc,
          reqs,         \* can_node.reqs
          src,          \* can_node.outputs[i].srcs[j].state
          manual_state, \* can_node.outputs[i].manual_state
          mode,         \* config.can_node.outputs[i].mode
          state,        \* can_node.outputs[i].state
          pin,          \* the level gpio_set put on the output's pin
          loc,          \* can_node_loop's locals
          report,       \* the last status sent for each output
          stored,       \* the configuration in the EEPROM, one mode per page ...
          crc,          \* ... and what its checksum was computed from
          asked,        \* the outputs somebody sent a command for
          due           \* the timer has fired since the sensors were published

outputs == <<src, manual_state, mode>>
effects == <<state, pin, report, stored, crc>>
vars == <<k, pc, reqs, outputs, effects, loc, asked, due>>

(* can_node_init and config_load have run, and the loop is at its start.   *)
Init ==
    /\ k = [state   |-> [t \in {Loop, Idle} |-> IF t = Loop THEN "running" ELSE "stopped"],
            queue   |-> <<Loop>>, current |-> Loop, pendsv |-> FALSE,
            value   |-> [s \in {Sem} |-> 0], waiters |-> [s \in {Sem} |-> <<>>]]
    /\ pc = "wait" /\ reqs = {} /\ asked = {} /\ due = FALSE
    /\ src = [i \in Outputs |-> [j \in Sources |-> FALSE]]
    /\ manual_state = [i \in Outputs |-> FALSE]
    /\ mode \in [Outputs -> Mode]
    /\ state = [i \in Outputs |-> FALSE] /\ pin = [i \in Outputs |-> FALSE]
    /\ report = [i \in Outputs |-> [on |-> FALSE, manual |-> FALSE]]
    /\ stored = mode /\ crc = mode
    /\ loc = [reqs |-> {}, i |-> 1, j |-> 1, state |-> FALSE]

-----------------------------------------------------------------------------

(* The receive objects that can_node_init sets up.                         *)
SensorObject ==
    [id   |-> can_id_build(CAN_NODE_BROADCAST_ID, CAN_NODE_BROADCAST_ID, 500),
     mask |-> can_id_build(CAN_NODE_BROADCAST_ID, 1023, 511)]
OutputObject ==
    [id   |-> can_id_build(CAN_NODE_BROADCAST_ID, node_id, 499),
     mask |-> can_id_build(CAN_NODE_BROADCAST_ID, 1023, 511)]

\* A handler's work request: the signal follows in the same handler
Post(new) == reqs' = reqs \cup new /\ k' = semaphore_signal(k, Sem)

MayInterrupt == ~k.pendsv /\ k.value[Sem] < MaxPosts

(* The first source that listens to a node is the only one to hear it.     *)
SourceOf(from) ==
    LET hears == {s \in Outputs \X Sources : Conf[s[1]][s[2]].node = from}
    IN  {s \in hears : \A r \in hears :
            s[1] < r[1] \/ (s[1] = r[1] /\ s[2] <= r[2])}

\* A faulty can_node_sensor_callback: switching off posts no request.
can_node_sensor_callback_silent(id, sensor, value) ==
    /\ Accepts(SensorObject, id)
    /\ \E s \in SourceOf(can_id_extract_from(id)) :
          LET conf == Conf[s[1]][s[2]]
              on   == src[s[1]][s[2]]
              turn == IF on THEN value < conf.off_value ELSE value > conf.on_value
          IN  /\ sensor = conf.sensor /\ turn
              /\ src' = [src EXCEPT ![s[1]][s[2]] = ~on]
              /\ IF on THEN UNCHANGED <<reqs, k>> ELSE Post({"output"})
    /\ UNCHANGED <<pc, manual_state, mode, effects, loc, asked, due>>

(* A reading with six bytes: switches the source off below off_value and   *)
(* on above on_value.                                                      *)
can_node_sensor_callback(id, sensor, value) ==
    /\ Accepts(SensorObject, id)
    /\ \E s \in SourceOf(can_id_extract_from(id)) :
          LET conf == Conf[s[1]][s[2]]
              on   == src[s[1]][s[2]]
              turn == IF on THEN value < conf.off_value ELSE value > conf.on_value
          IN  /\ sensor = conf.sensor /\ turn
              /\ src' = [src EXCEPT ![s[1]][s[2]] = ~on]
              /\ Post({"output"})
    /\ UNCHANGED <<pc, manual_state, mode, effects, loc, asked, due>>

\* A faulty can_node_output_callback: a command for the present mode is not answered.
can_node_output_callback_unanswered(id, i, manual, on) ==
    LET new_mode == IF manual THEN "manual" ELSE "auto"
    IN  /\ Accepts(OutputObject, id) /\ can_id_extract_to(id) = node_id
        /\ manual_state' = IF manual THEN [manual_state EXCEPT ![i] = on] ELSE manual_state
        /\ mode' = [mode EXCEPT ![i] = new_mode]
        /\ Post({"output"} \cup IF new_mode # mode[i] THEN {"save", "response"} ELSE {})
        /\ asked' = asked \cup {i}
        /\ UNCHANGED <<pc, src, effects, loc, due>>

(* A command of two bytes for an output there is.                          *)
can_node_output_callback(id, i, manual, on) ==
    LET new_mode == IF manual THEN "manual" ELSE "auto"
    IN  /\ Accepts(OutputObject, id) /\ can_id_extract_to(id) = node_id
        /\ manual_state' = IF manual THEN [manual_state EXCEPT ![i] = on] ELSE manual_state
        /\ mode' = [mode EXCEPT ![i] = new_mode]
        /\ Post({"output", "response"} \cup IF new_mode # mode[i] THEN {"save"} ELSE {})
        /\ asked' = asked \cup {i}
        /\ UNCHANGED <<pc, src, effects, loc, due>>

(* The timer's handler.                                                    *)
can_node_post_sensor_req ==
    /\ Post({"sensors"})
    /\ due' = TRUE
    /\ UNCHANGED <<pc, outputs, effects, loc, asked>>

Interrupt ==
    /\ MayInterrupt
    /\ \/ \E r \in Readings :
             can_node_sensor_callback(can_id_build(r.from, CAN_NODE_BROADCAST_ID, 500),
                                      r.sensor, r.value)
       \/ \E from \in {r.from : r \in Readings}, to \in {node_id, node_id + 1},
             i \in Outputs, manual \in BOOLEAN, on \in BOOLEAN :
             can_node_output_callback(can_id_build(from, to, 499), i, manual, on)
       \/ can_node_post_sensor_req

PendSV ==
    /\ k.pendsv
    /\ k' = schedule(k)
    /\ UNCHANGED <<pc, reqs, outputs, effects, loc, asked, due>>

IdleLoop == k.current = Idle /\ ~k.pendsv /\ UNCHANGED vars

-----------------------------------------------------------------------------

At(label) == k.current = Loop /\ ~k.pendsv /\ pc = label

\* A faulty loop: the requests are cleared when the work is done.
Wait_clears ==
    /\ At("wait")
    /\ k' = semaphore_wait(k, Sem)
    /\ pc' = "fetch" /\ reqs' = {}
    /\ UNCHANGED <<outputs, effects, loc, asked, due>>

Wait ==
    /\ At("wait")
    /\ k' = semaphore_wait(k, Sem)
    /\ pc' = "fetch"
    /\ UNCHANGED <<reqs, outputs, effects, loc, asked, due>>

can_node_fetch_clear_reqs ==
    /\ At("fetch")
    /\ loc' = [loc EXCEPT !.reqs = reqs, !.i = 1]
    /\ reqs' = {}
    /\ pc' = IF "sensors" \in reqs THEN "sensors"
             ELSE IF reqs \cap {"output", "response"} # {} THEN "output" ELSE "save"
    /\ UNCHANGED <<k, outputs, effects, asked, due>>

(* sensors_for_each(can_node_loop_publish_sensor): readings and sends.     *)
PublishSensors ==
    /\ At("sensors")
    /\ pc' = IF loc.reqs \cap {"output", "response"} # {} THEN "output" ELSE "save"
    /\ due' = FALSE
    /\ UNCHANGED <<k, reqs, outputs, effects, loc, asked>>

(* The state an output should have is found in several steps.              *)
ReadMode ==
    /\ At("output")
    /\ pc' = IF mode[loc.i] = "manual" THEN "manual" ELSE "source"
    /\ loc' = [loc EXCEPT !.j = 1]
    /\ UNCHANGED <<k, reqs, outputs, effects, asked, due>>

ReadManual ==
    /\ At("manual")
    /\ loc' = [loc EXCEPT !.state = manual_state[loc.i]]
    /\ pc' = "set"
    /\ UNCHANGED <<k, reqs, outputs, effects, asked, due>>

ReadSource ==
    /\ At("source")
    /\ LET on == src[loc.i][loc.j]
       IN  IF on \/ loc.j + 1 \notin Sources
           THEN loc' = [loc EXCEPT !.state = on] /\ pc' = "set"
           ELSE loc' = [loc EXCEPT !.j = @ + 1] /\ UNCHANGED pc
    /\ UNCHANGED <<k, reqs, outputs, effects, asked, due>>

\* The loop goes on with the next output, or with the configuration
NextOutput ==
    LET last == loc.i + 1 \notin Outputs
    IN  /\ loc' = [loc EXCEPT !.i = IF last THEN 1 ELSE @ + 1]
        /\ pc' = IF last THEN "save" ELSE "output"

SetOutput ==
    /\ At("set")
    /\ IF state[loc.i] # loc.state
       THEN /\ state' = [state EXCEPT ![loc.i] = loc.state]
            /\ pin' = [pin EXCEPT ![loc.i] = loc.state]
       ELSE UNCHANGED <<state, pin>>
    /\ IF "response" \in loc.reqs THEN pc' = "respond" /\ UNCHANGED loc ELSE NextOutput
    /\ UNCHANGED <<k, reqs, outputs, report, stored, crc, asked, due>>

Respond ==
    /\ At("respond")
    /\ report' = [report EXCEPT ![loc.i] =
                     [on |-> loc.state, manual |-> mode[loc.i] = "manual"]]
    /\ NextOutput
    /\ UNCHANGED <<k, reqs, outputs, state, pin, stored, crc, asked, due>>

(* config_save writes the pages of the configuration one after the other,  *)
(* and then a checksum of what the configuration is by then.               *)
SavePage ==
    /\ At("save") /\ "save" \in loc.reqs
    /\ stored' = [stored EXCEPT ![loc.i] = mode[loc.i]]
    /\ IF loc.i + 1 \in Outputs
       THEN loc' = [loc EXCEPT !.i = @ + 1] /\ UNCHANGED pc
       ELSE pc' = "crc" /\ UNCHANGED loc
    /\ UNCHANGED <<k, reqs, outputs, state, pin, report, crc, asked, due>>

SaveChecksum ==
    /\ At("crc")
    /\ crc' = mode
    /\ pc' = "wait"
    /\ UNCHANGED <<k, reqs, outputs, state, pin, report, stored, loc, asked, due>>

NothingToSave ==
    /\ At("save") /\ "save" \notin loc.reqs
    /\ pc' = "wait"
    /\ UNCHANGED <<k, reqs, outputs, effects, loc, asked, due>>

LoopStep ==
    \/ Wait \/ can_node_fetch_clear_reqs \/ PublishSensors
    \/ ReadMode \/ ReadManual \/ ReadSource \/ SetOutput \/ Respond
    \/ SavePage \/ SaveChecksum \/ NothingToSave

Next == PendSV \/ IdleLoop \/ Interrupt \/ LoopStep

Spec == Init /\ [][Next]_vars

-----------------------------------------------------------------------------

Asleep == Loop \in Range(k.waiters[Sem])

(* No work request is lost: whatever the interrupts post, and whenever,    *)
(* the loop does not go to sleep on it, and it does not before it has      *)
(* published the sensors if the timer has fired since the last time        *)
(* (can_node_fetch_clear_reqs), and before the EEPROM holds the present    *)
(* configuration under a checksum that fits, although commands change the  *)
(* configuration in the middle of config_save.                             *)
NoRequestLost ==
    Asleep => reqs = {} /\ ~due /\ stored = mode /\ crc = mode

(* When the loop has nothing left to do, every output and its pin are as   *)
(* its mode, the last manual command and the sources say, although the     *)
(* loop reads them one by one while interrupts change them.                *)
OutputsFollow ==
    Asleep => \A i \in Outputs :
        LET wanted == IF mode[i] = "manual" THEN manual_state[i]
                      ELSE \E j \in Sources : src[i][j]
        IN  state[i] = wanted /\ pin[i] = wanted

(* Whoever sends a command is answered, and when the loop has nothing left *)
(* to do the last answer sent is right about the mode, and about the state *)
(* of an output in manual mode (can_node_loop does not report the changes  *)
(* that sources make).                                                     *)
AnswersTrue ==
    Asleep => \A i \in asked :
        /\ report[i].manual = (mode[i] = "manual")
        /\ report[i].manual => report[i].on = state[i]
==============================================================================
