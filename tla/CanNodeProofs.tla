---------------------------- MODULE CanNodeProofs ----------------------------
(***************************************************************************)
(* The safety properties of CanNode, for any number of outputs and of      *)
(* sources, any configuration, any readings and any bound on how far the   *)
(* interrupts run ahead.  None of the properties says anything while the   *)
(* loop is awake; the inductive invariant says at every point of the loop  *)
(* what it still has to do for each output, and that whatever it has       *)
(* missed is requested again.                                              *)
(***************************************************************************)
EXTENDS CanNode, KernelProofs

Passing == {"output", "manual", "source", "set", "respond"}

TypeInv ==
    /\ pc \in {"wait", "fetch", "sensors", "save", "crc"} \cup Passing
    /\ reqs \in SUBSET WorkReq
    /\ src \in [Outputs -> [Sources -> BOOLEAN]]
    /\ manual_state \in [Outputs -> BOOLEAN] /\ mode \in [Outputs -> Mode]
    /\ state \in [Outputs -> BOOLEAN] /\ pin = state
    /\ loc \in [reqs : SUBSET WorkReq, i : Outputs, j : Sources, state : BOOLEAN]
    /\ report \in [Outputs -> [on : BOOLEAN, manual : BOOLEAN]]
    /\ stored \in [Outputs -> Mode] /\ crc \in [Outputs -> Mode]
    /\ asked \in SUBSET Outputs /\ due \in BOOLEAN

(* The loop is RUNNING, or queued at can_node.sem and BLOCKED; what it     *)
(* has not waited for yet is in the semaphore.                             *)
LoopInv ==
    /\ KernelType(k) /\ QueueExact(k)
    /\ \/ /\ k.waiters[Sem] = <<Loop>> /\ k.value[Sem] = -1
          /\ k.state[Loop] = "blocked" /\ pc = "fetch"
       \/ /\ k.waiters[Sem] = <<>> /\ k.value[Sem] \in 0..MaxPosts
          /\ k.state[Loop] = "running"
    /\ k.current = Loop /\ ~k.pendsv => k.state[Loop] = "running"

(* A request that is posted is about to be fetched, or the semaphore will  *)
(* let the loop through once more; the timer's is fetched or posted.       *)
RequestInv ==
    /\ reqs # {} => k.value[Sem] >= 1 \/ (pc = "fetch" /\ ~Asleep)
    /\ due => "sensors" \in reqs \/ pc = "sensors"

\* The save that the loop has fetched has yet to write page i.
PageAhead(i) ==
    "save" \in loc.reqs /\ (pc \in {"sensors"} \cup Passing \/ (pc = "save" /\ loc.i <= i))

(* Whatever differs from the configuration will be saved: by the save that *)
(* is under way, or by one that is requested.                              *)
SaveInv ==
    /\ \A i \in Outputs : stored[i] # mode[i] => "save" \in reqs \/ PageAhead(i)
    /\ crc # mode => "save" \in reqs \/ ("save" \in loc.reqs /\ pc \notin {"wait", "fetch"})
    /\ pc = "crc" => "save" \in loc.reqs
    /\ pc = "sensors" => loc.i = 1

Wanted(i) ==
    IF mode[i] = "manual" THEN manual_state[i] ELSE \E j \in Sources : src[i][j]

\* The loop has yet to set output i.
OutputAhead(i) ==
    \/ pc = "sensors" /\ loc.reqs \cap {"output", "response"} # {}
    \/ pc \in {"output", "manual", "source", "set"} /\ loc.i <= i
    \/ pc = "respond" /\ loc.i < i

(* What the loop has read of the output it is at is still true, or another *)
(* pass is requested; so is one for an output that is not as it should be. *)
OutputInv ==
    /\ pc = "manual" => mode[loc.i] = "manual" \/ "output" \in reqs
    /\ pc = "source" =>
          \/ "output" \in reqs
          \/ mode[loc.i] = "auto" /\ \A j \in Sources : j < loc.j => ~src[loc.i][j]
    /\ pc = "set" => loc.state = Wanted(loc.i) \/ "output" \in reqs
    /\ \A i \in Outputs : state[i] # Wanted(i) => "output" \in reqs \/ OutputAhead(i)

\* The loop will send an answer about output i.
AnswerAhead(i) ==
    \/ "response" \in reqs
    \/ "response" \in loc.reqs /\ (pc = "sensors" \/ (pc \in Passing /\ loc.i <= i))

Right(i) ==
    /\ report[i].manual = (mode[i] = "manual")
    /\ report[i].manual => report[i].on = state[i]

(* Whoever was answered wrongly will be answered again, and so will whoever *)
(* commands an output that is not yet as it was commanded.                  *)
AnswerInv ==
    /\ pc = "source" /\ mode[loc.i] = "manual" => "response" \in reqs
    /\ pc = "set" /\ mode[loc.i] = "manual" =>
          loc.state = manual_state[loc.i] \/ "response" \in reqs
    /\ pc = "respond" =>
          /\ state[loc.i] = loc.state
          /\ mode[loc.i] = "manual" =>
                loc.state = manual_state[loc.i] \/ "response" \in reqs
    /\ \A i \in asked : ~Right(i) => AnswerAhead(i)
    /\ \A i \in Outputs :
          mode[i] = "manual" /\ state[i] # manual_state[i] => AnswerAhead(i)

IInv == TypeInv /\ LoopInv /\ RequestInv /\ SaveInv /\ OutputInv /\ AnswerInv

-----------------------------------------------------------------------------

(* The constants, as the provers need them.                                *)
LEMMA Constants ==
    /\ Threads = {Loop} /\ Semaphores = {Sem} /\ Loop # Idle
    /\ MaxPosts \in 1..127 /\ NumOutputs \in Nat \ {0} /\ NumSources \in Nat \ {0}
BY CanNodeAssumption, IdleAssumption

(* The outputs and the sources are numbered from 1.                        *)
LEMMA Numbered ==
    /\ 1 \in Outputs /\ \A i \in Outputs : i \in Nat /\ 1 <= i /\ i <= NumOutputs
    /\ 1 \in Sources /\ \A j \in Sources : j \in Nat /\ 1 <= j /\ j <= NumSources
BY Constants DEF Outputs, Sources

LEMMA InitStep == Init => IInv
<1> SUFFICES ASSUME Init PROVE IInv
  OBVIOUS
<1> USE Constants
<1>1. TypeInv
  <2>1. loc \in [reqs : SUBSET WorkReq, i : Outputs, j : Sources, state : BOOLEAN]
    BY DEF Init, Outputs, Sources
  <2>2. /\ src \in [Outputs -> [Sources -> BOOLEAN]]
        /\ report \in [Outputs -> [on : BOOLEAN, manual : BOOLEAN]]
    BY DEF Init
  <2>3. /\ manual_state \in [Outputs -> BOOLEAN] /\ mode \in [Outputs -> Mode]
        /\ state \in [Outputs -> BOOLEAN] /\ pin = state
        /\ stored \in [Outputs -> Mode] /\ crc \in [Outputs -> Mode]
    BY DEF Init
  <2> QED BY <2>1, <2>2, <2>3 DEF Init, TypeInv
<1>2. LoopInv
  <2>1. <<Loop>> \in Seq(Threads) /\ <<>> \in Seq(Threads)
    OBVIOUS
  <2>2. KernelType(k)
    BY <2>1 DEF Init, KernelType, ThreadState
  <2>3. Range(<<Loop>>) = {Loop} /\ IsInjective(<<Loop>>)
    BY DEF Range, IsInjective
  <2>4. Running(k) = {Loop}
    BY DEF Init, Running
  <2>5. QueueExact(k)
    BY Zenon, <2>3, <2>4 DEF Init, QueueExact
  <2>6. k.waiters[Sem] = <<>> /\ k.value[Sem] = 0 /\ k.state[Loop] = "running"
    BY DEF Init
  <2> QED BY <2>2, <2>5, <2>6 DEF LoopInv
<1>3. RequestInv /\ SaveInv
  BY DEF Init, RequestInv, SaveInv
<1>4. OutputInv
  BY DEF Init, OutputInv, Wanted, Mode
<1>5. AnswerInv
  BY DEF Init, AnswerInv
<1> QED BY <1>1, <1>2, <1>3, <1>4, <1>5 DEF IInv

(* can_node.sem signalled by a handler: the loop is woken, or will not     *)
(* wait the next time.                                                     *)
LEMMA PostStep ==
    ASSUME LoopInv, MayInterrupt, k' = semaphore_signal(k, Sem), pc' = pc
    PROVE  LoopInv' /\ (k'.value[Sem] >= 1 \/ (pc' = "fetch" /\ ~Asleep'))
<1> USE Constants
<1>1. /\ KernelType(k) /\ QueueExact(k) /\ k.value[Sem] \in -128..126
      /\ k.value \in [Semaphores -> Int] /\ k.waiters \in [Semaphores -> Seq(Threads)]
      /\ k.state \in [Threads \cup {Idle} -> ThreadState]
  <2>1. KernelType(k) /\ QueueExact(k)
    BY Zenon DEF LoopInv
  <2>2. k.value[Sem] \in -128..126
    <3>1. k.value[Sem] = -1 \/ (k.value[Sem] \in 0..MaxPosts /\ k.value[Sem] < MaxPosts)
      BY DEF LoopInv, MayInterrupt
    <3> QED BY <3>1
  <2> QED BY <2>1, <2>2 DEF KernelType
<1>2. IsInjective(<<Loop>>) /\ IsInjective(<<>>) /\ Tail(<<Loop>>) = <<>> /\ Head(<<Loop>>) = Loop
      /\ <<Loop>> # <<>> /\ Range(<<>>) = {}
  BY DEF IsInjective, Range
<1>3. IsInjective(k.waiters[Sem]) /\ Sem \in Semaphores
  BY Zenon, <1>2 DEF LoopInv
<1>4. Signalled(k, Sem, k')
  BY <1>1, <1>3, SignalEffect
<1>5. CASE k.waiters[Sem] = <<>>
  <2>1. /\ k'.waiters[Sem] = <<>> /\ k'.value[Sem] = k.value[Sem] + 1
        /\ k'.state = k.state /\ KernelType(k') /\ QueueExact(k')
    BY <1>1, <1>3, <1>4, <1>5 DEF Signalled
  <2>2. k.value[Sem] \in 0..(MaxPosts - 1) /\ k.state[Loop] = "running"
    BY <1>2, <1>5 DEF LoopInv, MayInterrupt
  <2> QED BY <2>1, <2>2 DEF LoopInv
<1>6. CASE k.waiters[Sem] # <<>>
  <2>1. k.waiters[Sem] = <<Loop>> /\ k.value[Sem] = -1 /\ pc = "fetch"
    BY <1>6 DEF LoopInv
  <2>2. k'.waiters[Sem] = <<>> /\ k'.value[Sem] = 0 /\ k'.state[Loop] = "running"
    BY <1>1, <1>2, <1>4, <1>6, <2>1 DEF Signalled
  <2> QED BY <1>2, <1>4, <2>1, <2>2 DEF LoopInv, Asleep, Signalled
<1> QED BY <1>5, <1>6

(* A reading switches a source: the outputs are requested to be set.       *)
LEMMA SensorStep ==
    ASSUME IInv, MayInterrupt, NEW id, NEW sensor, NEW value,
           can_node_sensor_callback(id, sensor, value)
    PROVE  IInv'
<1>1. PICK s \in Outputs \X Sources :
         /\ src' = [src EXCEPT ![s[1]][s[2]] = ~src[s[1]][s[2]]]
         /\ Post({"output"})
  BY Zenon DEF can_node_sensor_callback, SourceOf
<1>2. UNCHANGED <<pc, manual_state, mode, effects, loc, asked, due>>
  BY DEF can_node_sensor_callback
<1>3. reqs' = reqs \cup {"output"} /\ k' = semaphore_signal(k, Sem)
  BY <1>1 DEF Post
<1>4. LoopInv' /\ (k'.value[Sem] >= 1 \/ (pc' = "fetch" /\ ~Asleep'))
  BY <1>2, <1>3, PostStep DEF IInv
<1>5. TypeInv'
  BY <1>1, <1>2, <1>3 DEF IInv, TypeInv, effects, WorkReq
<1>6. RequestInv'
  BY <1>2, <1>3, <1>4 DEF IInv, RequestInv
<1>7. SaveInv'
  BY <1>2, <1>3 DEF IInv, SaveInv, PageAhead, effects
<1>8. OutputInv'
  BY <1>3 DEF OutputInv
<1>9. AnswerInv'
  BY <1>2, <1>3 DEF IInv, AnswerInv, AnswerAhead, Right, effects
<1> QED BY <1>4, <1>5, <1>6, <1>7, <1>8, <1>9 DEF IInv

(* A command changes a mode: the outputs are requested to be set and       *)
(* reported, and the configuration to be saved.                            *)
LEMMA CommandStep ==
    ASSUME IInv, MayInterrupt, NEW id, NEW i \in Outputs, NEW manual \in BOOLEAN,
           NEW on \in BOOLEAN, can_node_output_callback(id, i, manual, on)
    PROVE  IInv'
<1>1. PICK new \in Mode :
         /\ manual_state' \in {manual_state, [manual_state EXCEPT ![i] = on]}
         /\ mode' = [mode EXCEPT ![i] = new]
         /\ Post({"output", "response"} \cup IF new # mode[i] THEN {"save"} ELSE {})
  BY Zenon DEF can_node_output_callback, Mode
<1>2. UNCHANGED <<pc, src, effects, loc, due>> /\ asked' = asked \cup {i}
  BY DEF can_node_output_callback
<1>3. /\ {"output", "response"} \subseteq reqs' /\ reqs \subseteq reqs' /\ reqs' \subseteq WorkReq
      /\ new # mode[i] => "save" \in reqs'
      /\ k' = semaphore_signal(k, Sem)
  BY <1>1 DEF Post, IInv, TypeInv, WorkReq
<1>4. LoopInv' /\ (k'.value[Sem] >= 1 \/ (pc' = "fetch" /\ ~Asleep'))
  BY <1>2, <1>3, PostStep DEF IInv
<1>5. TypeInv'
  BY <1>1, <1>2, <1>3 DEF IInv, TypeInv, effects
<1>6. RequestInv'
  BY <1>2, <1>3, <1>4 DEF IInv, RequestInv
<1>7. SaveInv'
  <2>1. CASE new = mode[i]
    <3>1. mode' = mode
      BY <1>1, <2>1 DEF IInv, TypeInv
    <3> QED BY <1>2, <1>3, <3>1 DEF IInv, SaveInv, PageAhead, effects
  <2>2. CASE new # mode[i]
    BY <1>2, <1>3, <2>2 DEF IInv, SaveInv
  <2> QED BY <2>1, <2>2
<1>8. OutputInv'
  BY <1>3 DEF OutputInv
<1>9. AnswerInv'
  BY <1>2, <1>3 DEF IInv, AnswerInv, AnswerAhead, effects
<1> QED BY <1>4, <1>5, <1>6, <1>7, <1>8, <1>9 DEF IInv

(* The timer's handler.                                                    *)
LEMMA TimerStep == ASSUME IInv, MayInterrupt, can_node_post_sensor_req PROVE IInv'
<1>1. reqs' = reqs \cup {"sensors"} /\ k' = semaphore_signal(k, Sem) /\ due' = TRUE
  BY DEF can_node_post_sensor_req, Post
<1>2. UNCHANGED <<pc, src, manual_state, mode, effects, loc, asked>>
  BY DEF can_node_post_sensor_req, outputs
<1>3. LoopInv' /\ (k'.value[Sem] >= 1 \/ (pc' = "fetch" /\ ~Asleep'))
  BY <1>1, <1>2, PostStep DEF IInv
<1>4. TypeInv'
  BY <1>1, <1>2 DEF IInv, TypeInv, effects, WorkReq
<1>5. RequestInv'
  BY <1>1, <1>2, <1>3 DEF IInv, RequestInv
<1>6. SaveInv'
  BY <1>1, <1>2 DEF IInv, SaveInv, PageAhead, effects
<1>7. OutputInv'
  BY Zenon, <1>1, <1>2 DEF IInv, OutputInv, OutputAhead, Wanted, effects
<1>8. AnswerInv'
  BY <1>1, <1>2 DEF IInv, AnswerInv, AnswerAhead, Right, effects
<1> QED BY <1>3, <1>4, <1>5, <1>6, <1>7, <1>8 DEF IInv

(* PendSV: the loop is scheduled when it is RUNNING.                       *)
LEMMA PendSVStep == ASSUME IInv, PendSV PROVE IInv'
<1>1. Scheduled(k, k')
  BY Zenon, ScheduleEffect DEF PendSV, IInv, LoopInv
<1>2. UNCHANGED <<pc, reqs, src, manual_state, mode, effects, loc, asked, due>>
  BY DEF PendSV, outputs
<1>3. k'.current = Loop => k'.state[Loop] = "running"
  BY <1>1, Constants DEF Scheduled
<1>4. LoopInv'
  BY <1>1, <1>2, <1>3 DEF Scheduled, IInv, LoopInv
<1>5. TypeInv'
  BY <1>2 DEF IInv, TypeInv, effects
<1>6. RequestInv'
  BY <1>1, <1>2 DEF IInv, RequestInv, Asleep, Scheduled
<1>7. SaveInv'
  BY Zenon, <1>2 DEF IInv, SaveInv, PageAhead, effects
<1>8. OutputInv'
  BY <1>2 DEF IInv, OutputInv, OutputAhead, Wanted, effects
<1>9. AnswerInv'
  BY Zenon, <1>2 DEF IInv, AnswerInv, AnswerAhead, Right, effects
<1> QED BY <1>4, <1>5, <1>6, <1>7, <1>8, <1>9 DEF IInv

(* The loop at a point of its own: it is RUNNING, and not queued.          *)
LEMMA AtLoop ==
    ASSUME IInv, NEW label, At(label)
    PROVE  /\ pc = label /\ k.waiters[Sem] = <<>> /\ k.value[Sem] \in 0..MaxPosts
           /\ k.state[Loop] = "running" /\ ~Asleep
<1>1. k.state[Loop] = "running" /\ pc = label
  BY DEF IInv, LoopInv, At
<1>2. k.waiters[Sem] = <<>> /\ k.value[Sem] \in 0..MaxPosts
  BY <1>1 DEF IInv, LoopInv
<1>3. ~Asleep
  BY <1>2 DEF Asleep, Range
<1> QED BY <1>1, <1>2, <1>3

(* semaphore_wait, at the start of the loop: it is let through, or it      *)
(* sleeps, and then nothing is requested.                                  *)
LEMMA WaitStep == ASSUME IInv, Wait PROVE IInv'
<1> USE Constants
<1>1. /\ pc = "wait" /\ k.waiters[Sem] = <<>> /\ k.value[Sem] \in 0..MaxPosts
      /\ k.state[Loop] = "running" /\ ~Asleep
  BY AtLoop DEF Wait
<1>2. UNCHANGED <<reqs, src, manual_state, mode, effects, loc, asked, due>> /\ pc' = "fetch"
  BY DEF Wait, outputs
<1>3. KernelType(k) /\ QueueExact(k) /\ k.current = Loop
  BY DEF IInv, LoopInv, Wait, At
<1>4. /\ k.value \in [Semaphores -> Int] /\ k.waiters \in [Semaphores -> Seq(Threads)]
      /\ k.state \in [Threads \cup {Idle} -> ThreadState]
  BY <1>3 DEF KernelType
<1>5. IsInjective(k.waiters[Sem]) /\ Loop \notin Range(k.waiters[Sem])
  <2>1. k.waiters[Sem] = <<>>
    BY Zenon, <1>1
  <2>. QED BY <2>1 DEF IsInjective, Range
<1>6. Passed(k, Sem, k') \/ Blocked(k, Sem, Loop, k')
  <2>1. \A n \in 0..MaxPosts : n \in -127..127
    OBVIOUS
  <2>2. k.value[Sem] \in -127..127 /\ Sem \in Semaphores /\ Loop \in Threads
    BY Zenon, <1>1, <2>1
  <2> QED BY <1>1, <1>3, <1>5, <2>2, WaitEffect DEF Wait
<1>7. LoopInv' /\ (reqs' # {} => ~Asleep')
  <2>1. CASE Passed(k, Sem, k')
    <3>1. /\ k'.waiters[Sem] = <<>> /\ k'.value[Sem] = k.value[Sem] - 1 /\ k.value[Sem] >= 1
          /\ k'.state = k.state /\ KernelType(k') /\ QueueExact(k')
      BY <1>1, <1>4, <2>1 DEF Passed
    <3>2. \A n \in 0..MaxPosts : n >= 1 => n - 1 \in 0..MaxPosts
      OBVIOUS
    <3>3. k'.value[Sem] \in 0..MaxPosts /\ k'.state[Loop] = "running"
      BY <1>1, <3>1, <3>2
    <3>4. ~Asleep'
      BY <3>1 DEF Asleep, Range
    <3> QED BY <3>1, <3>3, <3>4 DEF LoopInv
  <2>2. CASE Blocked(k, Sem, Loop, k')
    <3>1. /\ k'.waiters[Sem] = Append(k.waiters[Sem], Loop) /\ k.value[Sem] <= 0
          /\ k'.value[Sem] = k.value[Sem] - 1 /\ k'.state[Loop] = "blocked"
          /\ KernelType(k') /\ QueueExact(k') /\ k'.pendsv
      BY <1>1, <1>4, <2>2 DEF Blocked
    <3>2. k'.waiters[Sem] = <<Loop>> /\ k'.value[Sem] = -1
      BY <1>1, <3>1
    <3>3. reqs' = {}
      BY <1>1, <1>2, <3>1 DEF IInv, RequestInv
    <3> QED BY Zenon, <1>2, <3>1, <3>2, <3>3 DEF LoopInv
  <2> QED BY <1>6, <2>1, <2>2
<1>8. TypeInv'
  BY <1>2 DEF IInv, TypeInv, effects
<1>9. RequestInv'
  BY <1>1, <1>2, <1>7 DEF IInv, RequestInv
<1>10. SaveInv'
  BY <1>1, <1>2 DEF IInv, SaveInv, PageAhead, Passing, effects
<1>11. OutputInv'
  BY <1>1, <1>2 DEF IInv, OutputInv, OutputAhead, Wanted, effects
<1>12. AnswerInv'
  BY Zenon, <1>1, <1>2 DEF IInv, AnswerInv, AnswerAhead, Passing, Right, effects
<1> QED BY <1>7, <1>8, <1>9, <1>10, <1>11, <1>12 DEF IInv

(* What every step of the loop that leaves the kernel alone keeps.         *)
LEMMA QuietStep ==
    ASSUME IInv, NEW label, At(label), UNCHANGED k, label # "fetch"
    PROVE  LoopInv' /\ ~Asleep'
<1>1. /\ pc = label /\ k.waiters[Sem] = <<>> /\ k.value[Sem] \in 0..MaxPosts
      /\ k.state[Loop] = "running" /\ ~Asleep
  BY AtLoop
<1>2. ~Asleep'
  BY <1>1 DEF Asleep
<1>3. LoopInv'
  BY <1>1 DEF IInv, LoopInv
<1> QED BY <1>2, <1>3

(* can_node_fetch_clear_reqs: what was posted becomes what the loop does.  *)
LEMMA FetchStep == ASSUME IInv, can_node_fetch_clear_reqs PROVE IInv'
<1> USE Constants
<1>1. /\ pc = "fetch" /\ k.waiters[Sem] = <<>> /\ k.value[Sem] \in 0..MaxPosts
      /\ k.state[Loop] = "running" /\ ~Asleep
  BY AtLoop DEF can_node_fetch_clear_reqs
<1>2. /\ UNCHANGED <<k, src, manual_state, mode, effects, asked, due>>
      /\ reqs' = {} /\ loc' = [loc EXCEPT !.reqs = reqs, !.i = 1]
      /\ pc' = IF "sensors" \in reqs THEN "sensors"
               ELSE IF reqs \cap {"output", "response"} # {} THEN "output" ELSE "save"
  BY DEF can_node_fetch_clear_reqs, outputs
<1>3. /\ loc'.reqs = reqs /\ loc'.i = 1 /\ 1 \in Outputs /\ \A i \in Outputs : 1 <= i
      /\ loc' \in [reqs : SUBSET WorkReq, i : Outputs, j : Sources, state : BOOLEAN]
  BY Zenon, <1>2, Numbered DEF IInv, TypeInv
<1>4. LoopInv'
  BY <1>1, <1>2 DEF IInv, LoopInv
<1>5. TypeInv'
  BY <1>2, <1>3 DEF IInv, TypeInv, effects, Passing
<1>6. RequestInv'
  BY <1>1, <1>2 DEF IInv, RequestInv
<1>7. SaveInv'
  BY <1>1, <1>2, <1>3 DEF IInv, SaveInv, PageAhead, Passing, effects
<1>8. OutputInv'
  BY <1>1, <1>2, <1>3 DEF IInv, OutputInv, OutputAhead, Wanted, effects
<1>9. AnswerInv'
  BY <1>1, <1>2, <1>3 DEF IInv, TypeInv, AnswerInv, AnswerAhead, Right, Passing, effects
<1> QED BY <1>4, <1>5, <1>6, <1>7, <1>8, <1>9 DEF IInv

LEMMA PublishStep == ASSUME IInv, PublishSensors PROVE IInv'
<1>1. pc = "sensors" /\ LoopInv' /\ ~Asleep'
  BY AtLoop, QuietStep DEF PublishSensors
<1>2. /\ UNCHANGED <<k, reqs, src, manual_state, mode, effects, loc, asked>> /\ due' = FALSE
      /\ pc' = IF loc.reqs \cap {"output", "response"} # {} THEN "output" ELSE "save"
  BY DEF PublishSensors, outputs
<1>3. loc.i = 1 /\ \A i \in Outputs : 1 <= i
  BY <1>1, Numbered DEF IInv, SaveInv
<1>5. TypeInv'
  BY Zenon, <1>2 DEF IInv, TypeInv, effects, Passing
<1>6. RequestInv'
  BY <1>1, <1>2 DEF IInv, RequestInv
<1>7. SaveInv'
  BY <1>1, <1>2, <1>3 DEF IInv, SaveInv, PageAhead, Passing, effects
<1>8. OutputInv'
  BY <1>1, <1>2, <1>3 DEF IInv, OutputInv, OutputAhead, Wanted, effects
<1>9. AnswerInv'
  BY <1>1, <1>2, <1>3 DEF IInv, TypeInv, AnswerInv, AnswerAhead, Right, Passing, effects
<1> QED BY <1>1, <1>5, <1>6, <1>7, <1>8, <1>9 DEF IInv

(* The mode of the output the loop is at decides what it reads next.       *)
LEMMA ModeStep == ASSUME IInv, ReadMode PROVE IInv'
<1> USE Constants
<1>1. pc = "output" /\ LoopInv' /\ ~Asleep'
  BY AtLoop, QuietStep DEF ReadMode
<1>2. /\ UNCHANGED <<k, reqs, src, manual_state, mode, effects, asked, due>>
      /\ loc' = [loc EXCEPT !.j = 1]
      /\ pc' = IF mode[loc.i] = "manual" THEN "manual" ELSE "source"
  BY DEF ReadMode, outputs
<1>3. /\ loc'.reqs = loc.reqs /\ loc'.i = loc.i /\ loc'.j = 1
      /\ loc' \in [reqs : SUBSET WorkReq, i : Outputs, j : Sources, state : BOOLEAN]
      /\ loc.i \in Outputs /\ mode[loc.i] \in Mode
  BY Zenon, <1>2, Numbered DEF IInv, TypeInv
<1>4. \A j \in Sources : ~(j < 1)
  BY Numbered
<1>5. TypeInv'
  BY <1>2, <1>3 DEF IInv, TypeInv, effects, Passing
<1>6. RequestInv'
  BY <1>1, <1>2 DEF IInv, RequestInv
<1>7. SaveInv'
  BY <1>1, <1>2, <1>3 DEF IInv, SaveInv, PageAhead, Passing, effects
<1>8. OutputInv'
  BY Zenon, <1>1, <1>2, <1>3, <1>4 DEF IInv, OutputInv, OutputAhead, Wanted, Mode, effects
<1>9. AnswerInv'
  BY <1>1, <1>2, <1>3 DEF IInv, AnswerInv, AnswerAhead, Right, Passing, effects
<1> QED BY <1>1, <1>5, <1>6, <1>7, <1>8, <1>9 DEF IInv

LEMMA ManualStep == ASSUME IInv, ReadManual PROVE IInv'
<1>1. pc = "manual" /\ LoopInv' /\ ~Asleep'
  BY AtLoop, QuietStep DEF ReadManual
<1>2. /\ UNCHANGED <<k, reqs, src, manual_state, mode, effects, asked, due>> /\ pc' = "set"
      /\ loc' = [loc EXCEPT !.state = manual_state[loc.i]]
  BY DEF ReadManual, outputs
<1>3. /\ loc'.reqs = loc.reqs /\ loc'.i = loc.i /\ loc'.state = manual_state[loc.i]
      /\ loc' \in [reqs : SUBSET WorkReq, i : Outputs, j : Sources, state : BOOLEAN]
  BY Zenon, <1>2 DEF IInv, TypeInv
<1>5. TypeInv'
  BY Zenon, <1>2, <1>3 DEF IInv, TypeInv, effects, Passing
<1>6. RequestInv'
  BY <1>1, <1>2 DEF IInv, RequestInv
<1>7. SaveInv'
  BY <1>1, <1>2, <1>3 DEF IInv, SaveInv, PageAhead, Passing, effects
<1>8. OutputInv'
  BY <1>1, <1>2, <1>3 DEF IInv, OutputInv, OutputAhead, Wanted, effects
<1>9. AnswerInv'
  BY <1>1, <1>2, <1>3 DEF IInv, AnswerInv, AnswerAhead, Right, Passing, effects
<1> QED BY <1>1, <1>5, <1>6, <1>7, <1>8, <1>9 DEF IInv

(* One source is read: the sources before it were off, or another pass is  *)
(* requested.                                                              *)
LEMMA SourceStep == ASSUME IInv, ReadSource PROVE IInv'
<1> USE Constants
<1>1. pc = "source" /\ LoopInv' /\ ~Asleep'
  BY AtLoop, QuietStep DEF ReadSource
<1>2. UNCHANGED <<k, reqs, src, manual_state, mode, effects, asked, due>>
  BY DEF ReadSource, outputs
<1>3. /\ loc \in [reqs : SUBSET WorkReq, i : Outputs, j : Sources, state : BOOLEAN]
      /\ src[loc.i][loc.j] \in BOOLEAN /\ loc.i \in Outputs /\ loc.j \in Sources
      /\ mode[loc.i] \in Mode
  BY DEF IInv, TypeInv
<1>4. CASE src[loc.i][loc.j] \/ loc.j + 1 \notin Sources
  <2>1. loc' = [loc EXCEPT !.state = src[loc.i][loc.j]] /\ pc' = "set"
    BY <1>4 DEF ReadSource
  <2>2. /\ loc'.reqs = loc.reqs /\ loc'.i = loc.i /\ loc'.state = src[loc.i][loc.j]
        /\ loc' \in [reqs : SUBSET WorkReq, i : Outputs, j : Sources, state : BOOLEAN]
    BY <1>3, <2>1
  <2>3. TypeInv'
    BY Zenon, <1>2, <2>1, <2>2 DEF IInv, TypeInv, effects, Passing
  <2>4. RequestInv'
    BY <1>1, <1>2, <2>1 DEF IInv, RequestInv
  <2>5. SaveInv'
    BY <1>1, <1>2, <2>1, <2>2 DEF IInv, SaveInv, PageAhead, Passing, effects
  <2>6. loc'.state = Wanted(loc.i) \/ "output" \in reqs
    <3>1. CASE "output" \in reqs
      BY <3>1
    <3>2. CASE mode[loc.i] = "auto" /\ \A j \in Sources : j < loc.j => ~src[loc.i][j]
      <4>1. Wanted(loc.i) = \E j \in Sources : src[loc.i][j]
        BY <3>2 DEF Wanted
      <4>2. CASE src[loc.i][loc.j]
        BY <1>3, <2>2, <4>1, <4>2
      <4>3. CASE ~src[loc.i][loc.j]
        <5>1. \A j \in Sources : j < loc.j \/ j = loc.j
          BY <1>3, <1>4, <4>3 DEF Sources
        <5> QED BY Zenon, <1>3, <2>2, <3>2, <4>1, <4>3, <5>1
      <4> QED BY <4>2, <4>3
    <3> QED BY <1>1, <3>1, <3>2 DEF IInv, OutputInv
  <2>7. OutputInv'
    BY <1>1, <1>2, <2>1, <2>2, <2>6 DEF IInv, OutputInv, OutputAhead, Wanted, effects
  <2>8. AnswerInv'
    BY <1>1, <1>2, <2>1, <2>2 DEF IInv, AnswerInv, AnswerAhead, Right, Passing, effects
  <2> QED BY <1>1, <2>3, <2>4, <2>5, <2>7, <2>8 DEF IInv
<1>5. CASE ~(src[loc.i][loc.j] \/ loc.j + 1 \notin Sources)
  <2>1. loc' = [loc EXCEPT !.j = loc.j + 1] /\ pc' = pc /\ loc.j + 1 \in Sources
        /\ ~src[loc.i][loc.j]
    BY <1>5 DEF ReadSource
  <2>2. /\ loc'.reqs = loc.reqs /\ loc'.i = loc.i /\ loc'.j = loc.j + 1
        /\ loc' \in [reqs : SUBSET WorkReq, i : Outputs, j : Sources, state : BOOLEAN]
    BY <1>3, <2>1
  <2>3. TypeInv'
    BY Zenon, <1>2, <2>1, <2>2 DEF IInv, TypeInv, effects, Passing
  <2>4. RequestInv'
    BY <1>1, <1>2, <2>1 DEF IInv, RequestInv
  <2>5. SaveInv'
    BY <1>1, <1>2, <2>1, <2>2 DEF IInv, SaveInv, PageAhead, Passing, effects
  <2>6. \A j \in Sources : j < loc.j + 1 => j < loc.j \/ j = loc.j
    BY <1>3 DEF Sources
  <2>7. OutputInv'
    BY <1>1, <1>2, <2>1, <2>2, <2>6 DEF IInv, OutputInv, OutputAhead, Wanted, effects
  <2>8. AnswerInv'
    BY <1>1, <1>2, <2>1, <2>2 DEF IInv, AnswerInv, AnswerAhead, Right, Passing, effects
  <2> QED BY <1>1, <2>3, <2>4, <2>5, <2>7, <2>8 DEF IInv
<1> QED BY <1>4, <1>5

(* Going on to the next output, or from the last one to the configuration. *)
LEMMA NextOutputStep ==
    ASSUME IInv, NextOutput
    PROVE  /\ loc'.reqs = loc.reqs
           /\ loc' \in [reqs : SUBSET WorkReq, i : Outputs, j : Sources, state : BOOLEAN]
           /\ \/ pc' = "output" /\ \A i \in Outputs : loc.i < i => loc'.i <= i
              \/ pc' = "save" /\ loc'.i = 1 /\ \A i \in Outputs : i <= loc.i
<1>1. loc \in [reqs : SUBSET WorkReq, i : Outputs, j : Sources, state : BOOLEAN]
  BY DEF IInv, TypeInv
<1>2. CASE loc.i + 1 \in Outputs
  <2>1. loc' = [loc EXCEPT !.i = loc.i + 1] /\ pc' = "output"
    BY <1>2 DEF NextOutput
  <2>2. \A i \in Outputs : loc.i < i => loc.i + 1 <= i
    BY <1>1, Numbered
  <2> QED BY <1>1, <1>2, <2>1, <2>2
<1>3. CASE loc.i + 1 \notin Outputs
  <2>1. loc' = [loc EXCEPT !.i = 1] /\ pc' = "save"
    BY <1>3 DEF NextOutput
  <2>2. loc.i = NumOutputs
    BY <1>1, <1>3, Constants DEF Outputs
  <2>3. \A i \in Outputs : i <= loc.i
    BY <2>2, Numbered
  <2> QED BY <1>1, <2>1, <2>3, Numbered
<1> QED BY <1>2, <1>3

(* The output is set to what the loop found; what it found is right, or    *)
(* another pass is requested.                                              *)
LEMMA SetStep == ASSUME IInv, SetOutput PROVE IInv'
<1>1. pc = "set" /\ LoopInv' /\ ~Asleep'
  BY AtLoop, QuietStep DEF SetOutput
<1>2. UNCHANGED <<k, reqs, src, manual_state, mode, report, stored, crc, asked, due>>
  BY DEF SetOutput, outputs
<1>3. /\ loc \in [reqs : SUBSET WorkReq, i : Outputs, j : Sources, state : BOOLEAN]
      /\ loc.i \in Outputs /\ loc.state \in BOOLEAN /\ state \in [Outputs -> BOOLEAN]
      /\ pin = state /\ asked \subseteq Outputs /\ mode[loc.i] \in Mode
  BY DEF IInv, TypeInv
<1>4. state' = [state EXCEPT ![loc.i] = loc.state] /\ pin' = state'
  <2>1. CASE state[loc.i] # loc.state
    BY <1>3, <2>1 DEF SetOutput
  <2>2. CASE state[loc.i] = loc.state
    BY <1>3, <2>2 DEF SetOutput
  <2> QED BY <2>1, <2>2
<1>5. /\ state' \in [Outputs -> BOOLEAN] /\ state'[loc.i] = loc.state
      /\ \A i \in Outputs : i # loc.i => state'[i] = state[i]
  BY <1>3, <1>4
<1>6. loc.state = Wanted(loc.i) \/ "output" \in reqs
  BY <1>1 DEF IInv, OutputInv
<1>7. CASE "response" \in loc.reqs
  <2>1. pc' = "respond" /\ loc' = loc
    BY <1>7 DEF SetOutput
  <2>2. TypeInv'
    BY <1>2, <1>4, <1>5, <2>1 DEF IInv, TypeInv, Passing
  <2>3. RequestInv'
    BY <1>1, <1>2, <2>1 DEF IInv, RequestInv
  <2>4. SaveInv'
    BY <1>1, <1>2, <2>1 DEF IInv, SaveInv, PageAhead, Passing
  <2>5. OutputInv'
    <3>1. \A i \in Outputs : loc.i <= i => i = loc.i \/ loc.i < i
      BY <1>3, Numbered
    <3>2. ASSUME NEW i \in Outputs, state'[i] # Wanted(i)' PROVE "output" \in reqs' \/ OutputAhead(i)'
      BY <1>1, <1>2, <1>5, <1>6, <2>1, <3>1, <3>2 DEF IInv, OutputInv, OutputAhead, Wanted
    <3> QED BY <2>1, <3>2 DEF OutputInv
  <2>6. AnswerInv'
    <3>1. ASSUME NEW i \in Outputs, i # loc.i
          PROVE  (Right(i)' <=> Right(i)) /\ (AnswerAhead(i)' <=> AnswerAhead(i))
      BY <1>1, <1>2, <1>5, <2>1, <3>1 DEF Right, AnswerAhead, Passing
    <3>2. \A i \in Outputs : i = loc.i => AnswerAhead(i)'
      BY <1>3, <1>7, <2>1, Numbered DEF AnswerAhead, Passing
    <3>3. \A i \in asked' : ~Right(i)' => AnswerAhead(i)'
      BY <1>2, <1>3, <3>1, <3>2 DEF IInv, AnswerInv
    <3>4. \A i \in Outputs :
             mode'[i] = "manual" /\ state'[i] # manual_state'[i] => AnswerAhead(i)'
      BY Zenon, <1>2, <1>5, <3>1, <3>2 DEF IInv, AnswerInv
    <3>5. /\ state'[loc'.i] = loc'.state
          /\ mode'[loc'.i] = "manual" =>
                loc'.state = manual_state'[loc'.i] \/ "response" \in reqs'
      BY <1>1, <1>2, <1>5, <2>1 DEF IInv, AnswerInv
    <3> QED BY Zenon, <2>1, <3>3, <3>4, <3>5 DEF AnswerInv
  <2> QED BY <1>1, <2>2, <2>3, <2>4, <2>5, <2>6 DEF IInv
<1>8. CASE "response" \notin loc.reqs
  <2>1. /\ loc'.reqs = loc.reqs
        /\ loc' \in [reqs : SUBSET WorkReq, i : Outputs, j : Sources, state : BOOLEAN]
        /\ \/ pc' = "output" /\ \A i \in Outputs : loc.i < i => loc'.i <= i
           \/ pc' = "save" /\ loc'.i = 1 /\ \A i \in Outputs : i <= loc.i
    BY <1>8, NextOutputStep DEF SetOutput
  <2>2. TypeInv'
    BY Zenon, <1>2, <1>4, <1>5, <2>1 DEF IInv, TypeInv, Passing
  <2>3. RequestInv'
    BY <1>1, <1>2, <2>1 DEF IInv, RequestInv
  <2>4. SaveInv'
    BY <1>1, <1>2, <2>1, Numbered DEF IInv, SaveInv, PageAhead, Passing
  <2>5. OutputInv'
    <3>1. \A i \in Outputs : loc.i <= i => i = loc.i \/ loc.i < i
      BY <1>3, Numbered
    <3>2. \A i \in Outputs : i <= loc.i => ~(loc.i < i)
      BY <1>3, Numbered
    <3>3. ASSUME NEW i \in Outputs, state'[i] # Wanted(i)' PROVE "output" \in reqs' \/ OutputAhead(i)'
      BY Zenon, <1>1, <1>2, <1>5, <1>6, <2>1, <3>1, <3>2, <3>3
         DEF IInv, OutputInv, OutputAhead, Wanted
    <3> QED BY <2>1, <3>3 DEF OutputInv
  <2>6. AnswerInv'
    <3>1. \A i \in Outputs : AnswerAhead(i)' <=> "response" \in reqs
      BY <1>2, <1>8, <2>1 DEF AnswerAhead
    <3>2. \A i \in Outputs : AnswerAhead(i) <=> "response" \in reqs
      BY <1>8 DEF AnswerAhead
    <3>3. mode[loc.i] = "manual" => loc.state = manual_state[loc.i] \/ "response" \in reqs
      BY <1>1 DEF IInv, AnswerInv
    <3>4. mode[loc.i] = "manual" => state' = state \/ "response" \in reqs
      BY <1>3, <1>4, <3>2, <3>3 DEF IInv, AnswerInv
    <3>5. ASSUME NEW i \in asked', ~Right(i)' PROVE AnswerAhead(i)'
      <4>1. i \in Outputs /\ i \in asked
        BY <1>2, <1>3, <3>5
      <4>2. CASE "response" \in reqs
        BY <3>1, <4>1, <4>2
      <4>3. CASE "response" \notin reqs
        <5>1. Right(i)
          BY <3>2, <4>1, <4>3 DEF IInv, AnswerInv
        <5> QED BY <1>2, <1>5, <3>4, <3>5, <4>1, <4>3, <5>1 DEF Right
      <4> QED BY <4>2, <4>3
    <3>6. \A i \in Outputs :
             mode'[i] = "manual" /\ state'[i] # manual_state'[i] => AnswerAhead(i)'
      BY Zenon, <1>2, <1>5, <3>1, <3>2, <3>3 DEF IInv, AnswerInv
    <3> QED BY <2>1, <3>5, <3>6 DEF AnswerInv
  <2> QED BY <1>1, <2>2, <2>3, <2>4, <2>5, <2>6 DEF IInv
<1> QED BY <1>7, <1>8

(* The answer is sent: it is right, or another one is requested.           *)
LEMMA RespondStep == ASSUME IInv, Respond PROVE IInv'
<1>1. pc = "respond" /\ LoopInv' /\ ~Asleep'
  BY AtLoop, QuietStep DEF Respond
<1>2. /\ UNCHANGED <<k, reqs, src, manual_state, mode, state, pin, stored, crc, asked, due>>
      /\ report' = [report EXCEPT ![loc.i] =
                       [on |-> loc.state, manual |-> mode[loc.i] = "manual"]]
  BY DEF Respond, outputs
<1>3. /\ loc \in [reqs : SUBSET WorkReq, i : Outputs, j : Sources, state : BOOLEAN]
      /\ report \in [Outputs -> [on : BOOLEAN, manual : BOOLEAN]] /\ asked \subseteq Outputs
  BY DEF IInv, TypeInv
<1>4. /\ report' \in [Outputs -> [on : BOOLEAN, manual : BOOLEAN]]
      /\ report'[loc.i] = [on |-> loc.state, manual |-> mode[loc.i] = "manual"]
      /\ \A i \in Outputs : i # loc.i => report'[i] = report[i]
  BY <1>2, <1>3
<1>5. /\ loc'.reqs = loc.reqs
      /\ loc' \in [reqs : SUBSET WorkReq, i : Outputs, j : Sources, state : BOOLEAN]
      /\ \/ pc' = "output" /\ \A i \in Outputs : loc.i < i => loc'.i <= i
         \/ pc' = "save" /\ loc'.i = 1 /\ \A i \in Outputs : i <= loc.i
  BY Zenon, NextOutputStep DEF Respond
<1>6. TypeInv'
  BY <1>2, <1>4, <1>5 DEF IInv, TypeInv, Passing
<1>7. RequestInv'
  BY Zenon, <1>1, <1>2, <1>5 DEF IInv, RequestInv
<1>8. SaveInv'
  BY Zenon, <1>1, <1>2, <1>5, Numbered DEF IInv, SaveInv, PageAhead, Passing
<1>10. OutputInv'
  <2>1. ASSUME NEW i \in Outputs, state'[i] # Wanted(i)' PROVE "output" \in reqs' \/ OutputAhead(i)'
    <3>1. "output" \in reqs \/ OutputAhead(i)
      BY Zenon, <1>2, <2>1 DEF IInv, OutputInv, Wanted
    <3>2. OutputAhead(i) => loc.i < i
      BY <1>1 DEF OutputAhead
    <3>3. loc.i < i => OutputAhead(i)'
      <4>1. ~(loc.i < i /\ i <= loc.i)
        BY <1>3, Numbered
      <4> QED BY <1>5, <4>1 DEF OutputAhead
    <3> QED BY <1>2, <3>1, <3>2, <3>3
  <2> QED BY <1>5, <2>1 DEF OutputInv
<1>11. AnswerInv'
  <2>1. ASSUME NEW i \in Outputs, i # loc.i, AnswerAhead(i) PROVE AnswerAhead(i)'
    <3>1. CASE "response" \in reqs
      BY <1>2, <3>1 DEF AnswerAhead
    <3>2. CASE "response" \in loc.reqs /\ loc.i <= i
      <4>1. loc.i < i
        BY <1>3, <2>1, <3>2, Numbered
      <4>2. ~(i <= loc.i)
        BY <1>3, <4>1, Numbered
      <4>3. pc' = "output" /\ loc'.i <= i
        BY Zenon, <1>5, <4>1, <4>2
      <4> QED BY <1>5, <3>2, <4>3 DEF AnswerAhead, Passing
    <3> QED BY <1>1, <2>1, <3>1, <3>2 DEF AnswerAhead
  <2>2. \A i \in Outputs : i = loc.i => Right(i)'
    <3>1. state[loc.i] = loc.state
      BY Zenon, <1>1 DEF IInv, AnswerInv
    <3> QED BY <1>2, <1>4, <3>1 DEF Right
  <2>3. \A i \in asked' : ~Right(i)' => AnswerAhead(i)'
    <3> SUFFICES ASSUME NEW i \in asked', ~Right(i)' PROVE AnswerAhead(i)'
      OBVIOUS
    <3>1. i \in Outputs /\ i \in asked /\ i # loc.i
      BY <1>2, <1>3, <2>2
    <3>2. ~Right(i)
      BY <1>2, <1>4, <3>1 DEF Right
    <3> QED BY <2>1, <3>1, <3>2 DEF IInv, AnswerInv
  <2>4. \A i \in Outputs :
           mode'[i] = "manual" /\ state'[i] # manual_state'[i] => AnswerAhead(i)'
    <3> SUFFICES ASSUME NEW i \in Outputs, mode'[i] = "manual", state'[i] # manual_state'[i]
                 PROVE  AnswerAhead(i)'
      OBVIOUS
    <3>1. CASE i = loc.i
      <4>1. "response" \in reqs
        BY Zenon, <1>1, <1>2, <3>1 DEF IInv, AnswerInv
      <4> QED BY Zenon, <1>2, <4>1 DEF AnswerAhead
    <3>2. CASE i # loc.i
      BY <1>2, <2>1, <3>2 DEF IInv, AnswerInv
    <3> QED BY <3>1, <3>2
  <2> QED BY <1>5, <2>3, <2>4 DEF AnswerInv
<1> QED BY <1>1, <1>6, <1>7, <1>8, <1>10, <1>11 DEF IInv

(* config_save: a page is written, and the checksum at the end.            *)
LEMMA PageStep == ASSUME IInv, SavePage PROVE IInv'
<1>1. pc = "save" /\ LoopInv' /\ ~Asleep' /\ "save" \in loc.reqs
  BY AtLoop, QuietStep DEF SavePage
<1>2. /\ UNCHANGED <<k, reqs, src, manual_state, mode, state, pin, report, crc, asked, due>>
      /\ stored' = [stored EXCEPT ![loc.i] = mode[loc.i]]
  BY DEF SavePage, outputs
<1>3. /\ loc \in [reqs : SUBSET WorkReq, i : Outputs, j : Sources, state : BOOLEAN]
      /\ stored \in [Outputs -> Mode] /\ mode \in [Outputs -> Mode]
  BY DEF IInv, TypeInv
<1>4. /\ stored' \in [Outputs -> Mode] /\ stored'[loc.i] = mode[loc.i]
      /\ \A i \in Outputs : i # loc.i => stored'[i] = stored[i]
  BY <1>2, <1>3
<1>5. /\ loc' \in [reqs : SUBSET WorkReq, i : Outputs, j : Sources, state : BOOLEAN]
      /\ loc'.reqs = loc.reqs
      /\ \/ pc' = "save" /\ loc'.i = loc.i + 1
         \/ pc' = "crc" /\ loc.i + 1 \notin Outputs
  <2>1. CASE loc.i + 1 \in Outputs
    BY <1>1, <1>3, <2>1 DEF SavePage
  <2>2. CASE loc.i + 1 \notin Outputs
    BY <1>1, <1>3, <2>2 DEF SavePage
  <2> QED BY <2>1, <2>2
<1>6. TypeInv'
  BY Zenon, <1>2, <1>4, <1>5 DEF IInv, TypeInv
<1>7. RequestInv'
  BY Zenon, <1>1, <1>2, <1>5 DEF IInv, RequestInv
<1>8. SaveInv'
  <2>1. ASSUME NEW i \in Outputs, stored'[i] # mode'[i] PROVE "save" \in reqs' \/ PageAhead(i)'
    <3>1. i # loc.i /\ stored[i] # mode[i]
      BY <1>2, <1>4, <2>1
    <3>2. "save" \in reqs \/ loc.i <= i
      BY <1>1, <3>1 DEF IInv, SaveInv, PageAhead, Passing
    <3>3. loc.i <= i => loc.i + 1 <= i /\ loc.i + 1 \in Outputs
      BY <1>3, <3>1, Constants DEF Outputs
    <3> QED BY <1>1, <1>2, <1>5, <3>2, <3>3 DEF PageAhead
  <2> QED BY Zenon, <1>1, <1>2, <1>5, <2>1 DEF IInv, SaveInv
<1>9. OutputInv'
  BY <1>1, <1>2, <1>5 DEF IInv, OutputInv, OutputAhead, Wanted
<1>10. AnswerInv'
  BY Zenon, <1>1, <1>2, <1>5 DEF IInv, AnswerInv, AnswerAhead, Right, Passing
<1> QED BY <1>1, <1>6, <1>7, <1>8, <1>9, <1>10 DEF IInv

LEMMA ChecksumStep == ASSUME IInv, SaveChecksum PROVE IInv'
<1>1. pc = "crc" /\ LoopInv' /\ ~Asleep'
  BY AtLoop, QuietStep DEF SaveChecksum
<1>2. /\ UNCHANGED <<k, reqs, src, manual_state, mode, state, pin, report, stored, loc, asked, due>>
      /\ crc' = mode /\ pc' = "wait"
  BY DEF SaveChecksum, outputs
<1>3. TypeInv'
  BY <1>2 DEF IInv, TypeInv
<1>4. RequestInv'
  BY Zenon, <1>1, <1>2 DEF IInv, RequestInv
<1>5. SaveInv'
  BY Zenon, <1>1, <1>2 DEF IInv, SaveInv, PageAhead, Passing
<1>6. OutputInv'
  BY <1>1, <1>2 DEF IInv, OutputInv, OutputAhead, Wanted
<1>7. AnswerInv'
  BY Zenon, <1>1, <1>2 DEF IInv, AnswerInv, AnswerAhead, Right, Passing
<1> QED BY <1>1, <1>3, <1>4, <1>5, <1>6, <1>7 DEF IInv

LEMMA NothingToSaveStep == ASSUME IInv, NothingToSave PROVE IInv'
<1>1. pc = "save" /\ LoopInv' /\ ~Asleep' /\ "save" \notin loc.reqs
  BY AtLoop, QuietStep DEF NothingToSave
<1>2. /\ UNCHANGED <<k, reqs, src, manual_state, mode, effects, loc, asked, due>>
      /\ pc' = "wait"
  BY DEF NothingToSave, outputs
<1>3. TypeInv'
  BY <1>2 DEF IInv, TypeInv, effects
<1>4. RequestInv'
  BY Zenon, <1>1, <1>2 DEF IInv, RequestInv
<1>5. SaveInv'
  BY Zenon, <1>1, <1>2 DEF IInv, SaveInv, PageAhead, Passing, effects
<1>6. OutputInv'
  BY <1>1, <1>2 DEF IInv, OutputInv, OutputAhead, Wanted, effects
<1>7. AnswerInv'
  BY Zenon, <1>1, <1>2 DEF IInv, AnswerInv, AnswerAhead, Right, Passing, effects
<1> QED BY <1>1, <1>3, <1>4, <1>5, <1>6, <1>7 DEF IInv

LEMMA Stuttering == ASSUME IInv, UNCHANGED vars PROVE IInv'
<1>1. UNCHANGED <<k, pc, reqs, src, manual_state, mode, effects, loc, asked, due>>
  BY DEF vars, outputs
<1>2. TypeInv'
  BY Zenon, <1>1 DEF IInv, TypeInv, effects
<1>3. LoopInv' /\ RequestInv'
  BY <1>1 DEF IInv, LoopInv, RequestInv, Asleep
<1>4. SaveInv'
  BY Zenon, <1>1 DEF IInv, SaveInv, PageAhead, effects
<1>5. OutputInv'
  BY <1>1 DEF IInv, OutputInv, OutputAhead, Wanted, effects
<1>6. AnswerInv'
  BY Zenon, <1>1 DEF IInv, AnswerInv, AnswerAhead, Right, effects
<1> QED BY <1>2, <1>3, <1>4, <1>5, <1>6 DEF IInv

LEMMA NextStep == IInv /\ [Next]_vars => IInv'
<1> SUFFICES ASSUME IInv, [Next]_vars PROVE IInv'
  OBVIOUS
<1>1. CASE PendSV
  BY <1>1, PendSVStep
<1>2. CASE IdleLoop \/ UNCHANGED vars
  BY Zenon, <1>2, Stuttering DEF IdleLoop
<1>3. CASE Interrupt
  <2>1. MayInterrupt
    BY <1>3 DEF Interrupt
  <2>2. CASE \E r \in Readings :
               can_node_sensor_callback(can_id_build(r.from, CAN_NODE_BROADCAST_ID, 500),
                                        r.sensor, r.value)
    <3>1. PICK r \in Readings :
             can_node_sensor_callback(can_id_build(r.from, CAN_NODE_BROADCAST_ID, 500),
                                      r.sensor, r.value)
      BY Zenon, <2>2
    <3> QED BY <2>1, <3>1, SensorStep
  <2>3. CASE \E from \in {r.from : r \in Readings}, to \in {node_id, node_id + 1},
               i \in Outputs, manual \in BOOLEAN, on \in BOOLEAN :
               can_node_output_callback(can_id_build(from, to, 499), i, manual, on)
    <3>1. PICK from \in {r.from : r \in Readings}, to \in {node_id, node_id + 1},
               i \in Outputs, manual \in BOOLEAN, on \in BOOLEAN :
             can_node_output_callback(can_id_build(from, to, 499), i, manual, on)
      BY Zenon, <2>3
    <3>2. PICK id : can_node_output_callback(id, i, manual, on)
      BY <3>1
    <3> QED BY Zenon, <2>1, <3>2, CommandStep
  <2>4. CASE can_node_post_sensor_req
    BY <2>1, <2>4, TimerStep
  <2> QED BY Zenon, <1>3, <2>2, <2>3, <2>4 DEF Interrupt
<1>4. CASE Wait \/ can_node_fetch_clear_reqs \/ PublishSensors
  BY <1>4, WaitStep, FetchStep, PublishStep
<1>5. CASE ReadMode \/ ReadManual \/ ReadSource \/ SetOutput \/ Respond
  BY <1>5, ModeStep, ManualStep, SourceStep, SetStep, RespondStep
<1>6. CASE SavePage \/ SaveChecksum \/ NothingToSave
  BY <1>6, PageStep, ChecksumStep, NothingToSaveStep
<1> QED BY <1>1, <1>2, <1>3, <1>4, <1>5, <1>6 DEF Next, LoopStep

LEMMA Invariance == Spec => []IInv
BY InitStep, NextStep, PTL DEF Spec

(* A loop that sleeps is at the fetch, and nothing is requested.           *)
LEMMA AtRest == IInv /\ Asleep => pc = "fetch" /\ reqs = {}
<1> SUFFICES ASSUME IInv, Asleep PROVE pc = "fetch" /\ reqs = {}
  OBVIOUS
<1>1. Range(<<>>) = {}
  BY DEF Range
<1>2. pc = "fetch" /\ k.value[Sem] = -1
  BY <1>1 DEF IInv, LoopInv, Asleep
<1> QED BY <1>2 DEF IInv, RequestInv

(* Work requests are never lost: the loop of can_node.c sleeps only with   *)
(* nothing posted, the sensors published and the configuration saved under *)
(* its checksum, for any number of outputs and any interleaving of         *)
(* handlers.                                                               *)
THEOREM RequestsKept == Spec => []NoRequestLost
<1>1. IInv => NoRequestLost
  <2> SUFFICES ASSUME IInv, Asleep PROVE reqs = {} /\ ~due /\ stored = mode /\ crc = mode
    BY DEF NoRequestLost
  <2>1. pc = "fetch" /\ reqs = {}
    BY AtRest
  <2>2. ~due /\ crc = mode
    BY <2>1 DEF IInv, RequestInv, SaveInv
  <2>3. \A i \in Outputs : stored[i] = mode[i]
    BY <2>1 DEF IInv, SaveInv, PageAhead, Passing
  <2>4. stored = mode
    BY <2>3 DEF IInv, TypeInv
  <2> QED BY <2>1, <2>2, <2>4
<1> QED BY Invariance, <1>1, PTL

(* Whenever can_node_loop sleeps, every output and its pin are what the    *)
(* output's mode, manual state and sources say.                            *)
THEOREM OutputsCorrect == Spec => []OutputsFollow
<1>1. IInv => OutputsFollow
  <2> SUFFICES ASSUME IInv, Asleep, NEW i \in Outputs
               PROVE  state[i] = Wanted(i) /\ pin[i] = Wanted(i)
    BY Zenon DEF OutputsFollow, Wanted
  <2>1. pc = "fetch" /\ reqs = {}
    BY AtRest
  <2>2. state[i] = Wanted(i)
    BY Zenon, <2>1 DEF IInv, OutputInv, OutputAhead
  <2> QED BY <2>2 DEF IInv, TypeInv
<1> QED BY Invariance, <1>1, PTL

(* Whenever can_node_loop sleeps, whoever has sent a command has been sent *)
(* an answer that is right.                                                *)
THEOREM AnswersCorrect == Spec => []AnswersTrue
<1>1. IInv => AnswersTrue
  <2> SUFFICES ASSUME IInv, Asleep, NEW i \in asked PROVE Right(i)
    BY DEF AnswersTrue, Right
  <2>1. pc = "fetch" /\ reqs = {}
    BY AtRest
  <2> QED BY <2>1 DEF IInv, AnswerInv, AnswerAhead, Passing
<1> QED BY Invariance, <1>1, PTL

-----------------------------------------------------------------------------

-----------------------------------------------------------------------------
(* An identifier that can_id_build puts together comes apart into the same *)
(* sender, receiver and topic, and has 29 bits: the node that answers a    *)
(* frame answers its sender.                                               *)
THEOREM IdentifiersRoundTrip ==
    ASSUME NEW from \in NodeId, NEW to \in NodeId, NEW topic \in Topic
    PROVE  LET id == can_id_build(from, to, topic)
           IN  /\ can_id_extract_from(id) = from
               /\ can_id_extract_to(id) = to
               /\ can_id_extract_topic(id) = topic
               /\ 0 <= id /\ id < TopicBits * NodeBits * NodeBits
<1> DEFINE id == can_id_build(from, to, topic)
<1>1. /\ from \in Int /\ 0 <= from /\ from < 1024
      /\ to \in Int /\ 0 <= to /\ to < 1024
      /\ topic \in Int /\ 0 <= topic /\ topic < 512
  BY SMT DEF NodeId, NodeBits, Topic, TopicBits
<1>2. from % 1024 = from /\ to % 1024 = to /\ topic % 512 = topic
  BY <1>1, SMT
<1>3. id = topic * 1024 * 1024 + from * 1024 + to
  BY <1>1, <1>2, SMT DEF can_id_build, NodeBits, TopicBits
<1>4. id \in Int /\ id % 1024 = to /\ id \div 1024 = topic * 1024 + from
  BY <1>1, <1>3, SMT
<1>5. (topic * 1024 + from) % 1024 = from
  BY <1>1, SMT
<1>6. id \div (1024 * 1024) = topic
  BY <1>1, <1>3, SMT
<1> QED
  BY <1>1, <1>2, <1>3, <1>4, <1>5, <1>6, SMT
     DEF can_id_extract_from, can_id_extract_to, can_id_extract_topic, NodeBits, TopicBits
==============================================================================
