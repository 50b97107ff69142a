----------------------------- MODULE ConfigProofs ----------------------------
(***************************************************************************)
(* The safety properties of I2c and Config, for transfers and a            *)
(* configuration of any length, and any number of lost bytes, restarts and *)
(* changes (that an int8_t can count).                                     *)
(***************************************************************************)
EXTENDS Config, KernelProofs

ThreadType ==
    /\ pc \in [Threads -> {"idle", "start", "wait", "status"}]
    /\ asked \in [Threads -> [write : Nat, read : Nat]]
    /\ \A t \in Threads : pc[t] # "idle" => asked[t].write > 0

DevType ==
    dev \in [owner : Threads \cup {Idle}, status : {"ok", "err"}, writeLength : Nat,
             readLength : Nat, writeIndex : Nat, readIndex : Nat]

HwType ==
    /\ hw \in [stat : Nat, si : BOOLEAN, sta : BOOLEAN, sto : BOOLEAN, aa : BOOLEAN]
    /\ wire \in [taken : Nat, given : Nat, failed : BOOLEAN]
    /\ faults \in Nat

SemInv ==
    /\ changes \in 0..MaxChanges
    /\ \/ k.waiters[Sem] = <<>> /\ k.value[Sem] \in 0..changes
       \/ k.waiters[Sem] = <<Loop>> /\ k.value[Sem] = -1 /\ step = "fetch"

-----------------------------------------------------------------------------
(* The controller between transfers, and at each point of one.             *)

Quiet == ~hw.si /\ ~hw.sta /\ (hw.sto \/ hw.stat = \hF8)

Starting == ~hw.si /\ hw.sta /\ (hw.sto \/ hw.stat = \hF8)

Refusing == hw.si /\ ~hw.sta /\ ~hw.sto /\ hw.stat \in {\h20, \h48, \h30, \h00} /\ wire.failed

\* The address has been sent, or bytes have been taken: the next is being sent.
Writing ==
    /\ wire.given = 0
    /\ \/ hw.stat = \h08 /\ hw.si /\ hw.sta /\ wire.taken = 0
       \/ hw.stat = \h08 /\ ~hw.si /\ ~hw.sta /\ wire.taken = 0 /\ dev.writeIndex = 0
       \/ hw.stat = \h18 /\ hw.si /\ ~hw.sta /\ wire.taken = 0 /\ dev.writeIndex = 0
       \/ /\ hw.stat \in {\h18, \h28} /\ ~hw.si /\ ~hw.sta
          /\ dev.writeIndex = wire.taken + 1 /\ dev.writeIndex <= dev.writeLength
       \/ /\ hw.stat = \h28 /\ hw.si /\ ~hw.sta
          /\ dev.writeIndex = wire.taken /\ dev.writeIndex <= dev.writeLength

\* All is written, and the bytes are read one by one: the last is not acknowledged.
Reading ==
    /\ wire.taken = dev.writeLength /\ dev.readLength > 0
    /\ \/ hw.stat = \h28 /\ ~hw.si /\ hw.sta /\ wire.given = 0
       \/ hw.stat = \h10 /\ hw.si /\ hw.sta /\ wire.given = 0
       \/ hw.stat = \h10 /\ ~hw.si /\ ~hw.sta /\ wire.given = 0 /\ dev.readIndex = 0
       \/ hw.stat = \h40 /\ hw.si /\ ~hw.sta /\ wire.given = 0 /\ dev.readIndex = 0
       \/ /\ hw.stat \in {\h40, \h50} /\ ~hw.si /\ ~hw.sta
          /\ wire.given = dev.readIndex /\ dev.readIndex < dev.readLength
          /\ hw.aa <=> dev.readIndex + 1 < dev.readLength
       \/ /\ hw.stat = \h50 /\ hw.si /\ ~hw.sta
          /\ wire.given = dev.readIndex + 1 /\ wire.given < dev.readLength
       \/ /\ hw.stat = \h58 /\ hw.si /\ ~hw.sta
          /\ wire.given = dev.readIndex + 1 /\ wire.given = dev.readLength

Going == Starting \/ Refusing \/ (~hw.sto /\ ~wire.failed /\ (Writing \/ Reading))

Ended ==
    /\ Quiet
    /\ (dev.status = "ok") <=>
          ~wire.failed /\ wire.taken = dev.writeLength /\ wire.given = dev.readLength

(* The transfer of the thread t, which has the lock: the controller is     *)
(* quiet before it starts it; then it goes on, and nobody has signalled    *)
(* done, until it has ended and done is signalled.                         *)
NotSignalled(t) ==
    \/ pc[t] = "wait" /\ k.value[Done] = 0 /\ k.waiters[Done] = <<>>
    \/ pc[t] = "status" /\ k.value[Done] = -1 /\ k.waiters[Done] = <<t>>

HasSignalled(t) ==
    /\ k.waiters[Done] = <<>>
    /\ (pc[t] = "wait" /\ k.value[Done] = 1) \/ (pc[t] = "status" /\ k.value[Done] = 0)

Transfer(t) ==
    \/ pc[t] = "start" /\ k.value[Done] = 0 /\ k.waiters[Done] = <<>> /\ Quiet
    \/ /\ dev.owner = t
       /\ dev.writeLength = asked[t].write /\ dev.readLength = asked[t].read
       /\ (Going /\ NotSignalled(t)) \/ (Ended /\ HasSignalled(t))

Free ==
    /\ \A t \in Threads : pc[t] = "idle"
    /\ k.value[Lock] = 1 /\ k.waiters[Lock] = <<>>
    /\ k.value[Done] = 0 /\ k.waiters[Done] = <<>> /\ Quiet

\* t has the lock, the other thread u does without it or waits for it.
Holds(t, u) ==
    /\ pc[t] # "idle" /\ Transfer(t)
    /\ \/ pc[u] = "idle" /\ k.waiters[Lock] = <<>> /\ k.value[Lock] = 0
       \/ pc[u] = "start" /\ k.waiters[Lock] = <<u>> /\ k.value[Lock] = -1

BusInv == Free \/ \E t, u \in Threads : t # u /\ Holds(t, u)

-----------------------------------------------------------------------------

\* What is to be saved at place p.
Value(p) == IF p <= NumPages THEN config[p] ELSE crc8_maxim(config)

\* The EEPROM has v at place p, or is about to program it.
Keeps(p, v) == IF latch # <<>> /\ latch[1] = p THEN latch[2] = v ELSE rom[p] = v

Places == 1..NumPages + 1

StepInv ==
    /\ page \in Places
    /\ config = [p \in Pages |-> config[p]] /\ rom = [p \in Places |-> rom[p]]
    /\ latch # <<>> => latch[1] \in Places
    /\ step \in {"load", "check", "wait", "fetch", "copy", "write", "retry"}
    /\ step \in {"load", "check"} => page <= NumPages <=> step = "load"
    /\ step \in {"wait", "fetch"} => page = 1
    /\ step \in {"wait", "fetch", "copy", "retry"} => pc[Loop] = "idle"
    /\ step \in {"load", "check"} /\ pc[Loop] # "idle" => asked[Loop] = [write |-> 2, read |-> 1]
    /\ step = "write" => pc[Loop] # "idle" /\ asked[Loop] = [write |-> 3, read |-> 0]
    /\ pc[Console] # "idle" => asked[Console] = [write |-> 1, read |-> 2]

(* A page that the EEPROM has received will be programmed before the bus   *)
(* can be used again: the transfer is about to be stopped.                 *)
LatchInv ==
    /\ latch # <<>> =>
          /\ step \notin {"load", "check"}
          /\ \/ hw.sto
             \/ /\ hw.si /\ hw.stat = \h28 /\ step = "write"
                /\ dev.owner = Loop /\ dev.readLength = 0
                /\ wire.taken = dev.writeLength
    /\ step = "write" /\ pc[Loop] \in {"wait", "status"} /\ ~(hw.sta /\ ~hw.si) /\ wire.taken = 3
          => Keeps(page, buf)

(* Without a new request, what is loaded, saved so far or at rest is what  *)
(* the EEPROM has.                                                         *)
SaveInv ==
    /\ step \in {"load", "check"} => ~request /\ \A p \in Pages : p < page => config[p] = rom[p]
    /\ step \in {"copy", "write", "retry"} /\ ~request =>
          \A p \in Places : p < page => Keeps(p, Value(p))
    /\ step \in {"write", "retry"} /\ ~request => buf = Value(page)
    /\ step \in {"wait", "fetch"} /\ ~request /\ ~unsaved =>
          \A p \in Places : Keeps(p, Value(p))

IInv == Sound(k) /\ ThreadType /\ DevType /\ HwType /\ SemInv /\ BusInv /\ StepInv /\ LatchInv /\ SaveInv

-----------------------------------------------------------------------------

LEMMA Constants ==
    /\ Threads = {Loop, Console} /\ Loop # Console /\ Loop # Idle /\ Console # Idle
    /\ Semaphores = {Lock, Done, Sem} /\ Lock # Done /\ Sem # Lock /\ Sem # Done
    /\ NumPages \in Nat /\ NumPages >= 1 /\ MaxChanges \in Nat /\ MaxChanges <= 127
BY ConfigAssumption, I2cAssumption, IdleAssumption

(* The places the page counter goes through, one after the other.          *)
LEMMA PlaceOrder ==
    /\ 1 \in Places
    /\ \A n \in Places : n <= NumPages =>
          n + 1 \in Places /\ \A p \in Places : p < n + 1 => p < n \/ p = n
    /\ \A n \in Places : n > NumPages => \A p \in Places : p < n \/ p = n
BY Constants DEF Places

(* What the interrupt that changes the configuration counts.               *)
LEMMA OneMoreChange ==
    ASSUME NEW c \in 0..MaxChanges, c < MaxChanges, NEW v, v \in 0..c \/ v = -1
    PROVE  v \in -128..126 /\ c + 1 \in 0..MaxChanges
BY Constants

(* What a thread has when it runs, and what queues with one thread hold.   *)
LEMMA OneInRange == \A t : Range(<<t>>) = {t} /\ Tail(<<t>>) = <<>> /\ <<t>> # <<>>
BY DEF Range

LEMMA AtThread ==
    ASSUME Sound(k), NEW t \in Threads, NEW label, At(t, label)
    PROVE  /\ pc[t] = label /\ k.current = t /\ ~k.pendsv
           /\ \A s \in Semaphores : k.waiters[s] # <<t>>
<1>1. k.state[t] = "running"
  BY DEF At, Sound
<1>2. ~InQueue(k, t)
  BY <1>1 DEF Sound
<1> QED BY <1>2, OneInRange DEF InQueue, At

-----------------------------------------------------------------------------
(* The controller.                                                         *)

LEMMA Codes ==
    /\ \hF8 \in Nat /\ \h00 \in Nat /\ \h08 \in Nat /\ \h10 \in Nat /\ \h18 \in Nat
    /\ \h20 \in Nat /\ \h28 \in Nat /\ \h30 \in Nat /\ \h40 \in Nat /\ \h48 \in Nat
    /\ \h50 \in Nat /\ \h58 \in Nat
OBVIOUS

(* The kernel the program starts with is sound.                            *)
LEMMA KernelStart == Sound(Kernel0)
<1> USE Constants
<1>1. /\ Kernel0.state = [t \in Threads \cup {Idle} |-> IF t = Idle THEN "stopped" ELSE "running"]
      /\ Kernel0.queue = <<Loop, Console>> /\ Kernel0.current = Loop /\ ~Kernel0.pendsv
      /\ \A s \in Semaphores : Kernel0.waiters[s] = <<>>
  BY DEF Kernel0
<1>2. KernelType(Kernel0)
  <2>1. [t \in Threads \cup {Idle} |-> IF t = Idle THEN "stopped" ELSE "running"]
           \in [Threads \cup {Idle} -> ThreadState]
    BY DEF ThreadState
  <2>2. <<Loop, Console>> \in Seq(Threads) /\ Loop \in Threads \cup {Idle}
    OBVIOUS
  <2>3. /\ [s \in Semaphores |-> IF s = Lock THEN 1 ELSE 0] \in [Semaphores -> Int]
        /\ [s \in Semaphores |-> <<>>] \in [Semaphores -> Seq(Threads)]
    OBVIOUS
  <2> QED BY <2>1, <2>2, <2>3 DEF KernelType, Kernel0
<1>3. IsInjective(<<Loop, Console>>) /\ Range(<<Loop, Console>>) = {Loop, Console}
  BY DEF IsInjective, Range
<1>4. Running(Kernel0) = {Loop, Console}
  BY <1>1 DEF Running
<1>5. QueueExact(Kernel0)
  BY <1>1, <1>3, <1>4 DEF QueueExact
<1>6. \A s \in Semaphores : IsInjective(Kernel0.waiters[s]) /\ Range(Kernel0.waiters[s]) = {}
  BY <1>1 DEF IsInjective, Range
<1>7. \A t \in Threads : Kernel0.state[t] = "running"
  BY <1>1
<1> QED BY <1>2, <1>5, <1>6, <1>7 DEF Sound, InQueue

(* A byte that has come is the one after those stored, and one was asked   *)
(* for.                                                                    *)
LEMMA ByteCame ==
    ASSUME Going, hw.si, hw.stat \in {\h50, \h58}
    PROVE  wire.given = dev.readIndex + 1 /\ (wire.given < dev.readLength \/ wire.given = dev.readLength)
<1>1. ~Starting /\ ~Refusing /\ ~Writing
  BY DEF Starting, Refusing, Writing
<1>2. Reading
  BY <1>1 DEF Going
<1> QED BY <1>2 DEF Reading

LEMMA StopSteps ==
    ASSUME DevType, HwType, StopCondition
    PROVE  HwType' /\ (Quiet => Quiet') /\ (Ended => Ended') /\ (Going => Going')
<1>1. /\ ~hw.si /\ hw.sto /\ UNCHANGED <<k, pc, asked, dev, wire, faults>>
      /\ hw' = [hw EXCEPT !.sto = FALSE, !.stat = \hF8]
  BY DEF StopCondition
<1>2. HwType' /\ hw'.si = hw.si /\ hw'.sta = hw.sta /\ hw'.stat = \hF8
  BY Zenon, <1>1, Codes DEF HwType
<1>3. Quiet => Quiet'
  BY <1>2 DEF Quiet
<1>4. Ended => Ended'
  BY <1>1, <1>3 DEF Ended
<1>5. Going => Going'
  BY <1>1 DEF Going, Starting, Refusing
<1> QED BY <1>2, <1>3, <1>4, <1>5

LEMMA ReportEffect ==
    ASSUME HwType, NEW stat \in Nat, Report(stat)
    PROVE  /\ hw' \in [stat : Nat, si : BOOLEAN, sta : BOOLEAN, sto : BOOLEAN, aa : BOOLEAN]
           /\ hw'.stat = stat /\ hw'.si /\ (hw'.sta <=> hw.sta) /\ (hw'.sto <=> hw.sto)
BY Zenon DEF HwType, Report

LEMMA StartSteps ==
    ASSUME DevType, HwType, StartCondition
    PROVE  HwType' /\ ~Quiet /\ (Going => Going')
<1>1. /\ ~hw.si /\ ~hw.sto /\ hw.sta /\ UNCHANGED <<k, pc, asked, dev, faults>>
      /\ \/ hw.stat = \hF8 /\ Report(\h08) /\ wire' = Untouched
         \/ hw.stat # \hF8 /\ Report(\h10) /\ wire' = wire
  BY DEF StartCondition
<1>2. Untouched \in [taken : Nat, given : Nat, failed : BOOLEAN]
  BY DEF Untouched
<1>3. HwType'
  BY <1>1, <1>2, ReportEffect DEF HwType
<1>4. Going => Going'
  <2>1. CASE hw.stat = \hF8
    <3>1. /\ hw'.stat = \h08 /\ hw'.si /\ hw'.sta /\ ~hw'.sto
          /\ wire'.taken = 0 /\ wire'.given = 0 /\ ~wire'.failed
      BY <1>1, <2>1, ReportEffect DEF Untouched
    <3> QED BY <3>1 DEF Going, Writing
  <2>2. CASE hw.stat # \hF8
    <3>1. hw'.stat = \h10 /\ hw'.si /\ hw'.sta /\ ~hw'.sto /\ wire' = wire /\ dev' = dev
      BY <1>1, <2>2, ReportEffect
    <3>2. Going => ~wire.failed /\ wire.taken = dev.writeLength /\ dev.readLength > 0
                   /\ wire.given = 0
      BY <1>1, <2>2 DEF Going, Starting, Refusing, Writing, Reading
    <3> QED BY <3>1, <3>2 DEF Going, Reading
  <2> QED BY <2>1, <2>2
<1> QED BY <1>1, <1>3, <1>4 DEF Quiet

LEMMA ByteSteps ==
    ASSUME DevType, HwType, ByteMoves
    PROVE  HwType' /\ ~Quiet /\ (Going => Going')
<1>1. /\ ~hw.si /\ ~hw.sto /\ ~hw.sta /\ hw.stat # \hF8
      /\ UNCHANGED <<k, pc, asked, dev, faults>>
  BY DEF ByteMoves, OnTheBus
<1>2. \/ hw.stat = \h08 /\ Report(\h18) /\ UNCHANGED wire
      \/ hw.stat = \h10 /\ Report(\h40) /\ UNCHANGED wire
      \/ hw.stat \in {\h18, \h28} /\ Report(\h28) /\ wire' = [wire EXCEPT !.taken = @ + 1]
      \/ /\ hw.stat \in {\h40, \h50} /\ Report(IF hw.aa THEN \h50 ELSE \h58)
         /\ wire' = [wire EXCEPT !.given = @ + 1]
  BY DEF ByteMoves
<1>3. HwType'
  <2>1. PICK stat \in Nat : Report(stat)
    BY <1>2
  <2>2. wire' \in [taken : Nat, given : Nat, failed : BOOLEAN]
    BY <1>2 DEF HwType
  <2> QED BY <1>1, <2>1, <2>2, ReportEffect DEF HwType
<1>4. Going => Going'
  <2>1. CASE hw.stat = \h08 /\ Report(\h18) /\ UNCHANGED wire
    BY <1>1, <2>1 DEF Report, Going, Starting, Refusing, Writing, Reading
  <2>2. CASE hw.stat = \h10 /\ Report(\h40) /\ UNCHANGED wire
    BY <1>1, <2>2 DEF Report, Going, Starting, Refusing, Writing, Reading
  <2>3. CASE hw.stat \in {\h18, \h28} /\ Report(\h28) /\ wire' = [wire EXCEPT !.taken = @ + 1]
    BY <1>1, <2>3 DEF DevType, HwType, Report, Going, Starting, Refusing, Writing, Reading
  <2>4. CASE /\ hw.stat \in {\h40, \h50} /\ Report(IF hw.aa THEN \h50 ELSE \h58)
             /\ wire' = [wire EXCEPT !.given = @ + 1]
    BY <1>1, <2>4 DEF DevType, HwType, Report, Going, Starting, Refusing, Writing, Reading
  <2> QED BY <1>2, <2>1, <2>2, <2>3, <2>4
<1> QED BY <1>1, <1>3, <1>4 DEF Quiet

LEMMA RefusalSteps ==
    ASSUME DevType, HwType, NotAcknowledged \/ BusError, faults' \in Nat
    PROVE  HwType' /\ ~Quiet /\ (Going => Going')
<1>1. /\ ~hw.si /\ ~hw.sto /\ ~hw.sta /\ hw.stat # \hF8
      /\ UNCHANGED <<k, pc, asked, dev>> /\ wire' = [wire EXCEPT !.failed = TRUE]
      /\ Report(\h20) \/ Report(\h48) \/ Report(\h30) \/ Report(\h00)
  BY DEF NotAcknowledged, BusError, OnTheBus
<1>2. HwType'
  <2>1. PICK stat \in Nat : Report(stat)
    BY <1>1
  <2>2. wire' \in [taken : Nat, given : Nat, failed : BOOLEAN]
    BY <1>1 DEF HwType
  <2> QED BY <2>1, <2>2, ReportEffect DEF HwType
<1>3. Going'
  <2>1. hw'.stat \in {\h20, \h48, \h30, \h00} /\ hw'.si /\ ~hw'.sta /\ ~hw'.sto
    BY <1>1, ReportEffect
  <2>2. wire'.failed
    BY <1>1
  <2> QED BY <2>1, <2>2 DEF Going, Refusing
<1> QED BY <1>1, <1>2, <1>3 DEF Quiet

\* Nothing happens at the semaphore s.
Same(s) == k'.value[s] = k.value[s] /\ k'.waiters[s] = k.waiters[s]

(* Whoever has the bus keeps it while the controller works.                *)
LEMMA BusStep ==
    ASSUME BusInv, UNCHANGED <<pc, asked, dev>>, Same(Lock), Same(Done),
           Quiet => Quiet', Ended => Ended', Going => Going'
    PROVE  BusInv'
<1>1. Free => Free'
  BY DEF Free, Same
<1>2. \A t, u \in Threads : Holds(t, u) => Holds(t, u)'
  <2> TAKE t, u \in Threads
  <2>1. Transfer(t) => Transfer(t)'
    BY Zenon DEF Transfer, NotSignalled, HasSignalled, Same
  <2> QED BY <2>1 DEF Holds, Same
<1> QED BY <1>1, <1>2 DEF BusInv

-----------------------------------------------------------------------------
(* The interrupt.                                                          *)

IsrCase ==
    \/ Started \/ StartedAgain \/ AddressTaken \/ ByteTaken
    \/ ReadAddressTaken \/ ByteGiven \/ LastByteGiven \/ Refused

(* It goes on with the transfer, or ends it with the right status and      *)
(* signals done.                                                           *)
LEMMA IsrSteps ==
    ASSUME DevType, HwType, hw.si, Going, dev.writeLength > 0, IsrCase, UNCHANGED <<wire, faults>>
    PROVE  /\ DevType' /\ HwType' /\ dev'.owner = dev.owner
           /\ dev'.writeLength = dev.writeLength /\ dev'.readLength = dev.readLength
           /\ \/ k' = k /\ Going'
              \/ k' = semaphore_signal(k, Done) /\ Ended'
<1>0. /\ dev.writeLength \in Nat /\ dev.readLength \in Nat
      /\ dev.writeIndex \in Nat /\ dev.readIndex \in Nat
      /\ wire.taken \in Nat /\ wire.given \in Nat
  BY DEF DevType, HwType
<1>1. CASE Started
  <2>1. /\ hw.stat = \h08 /\ dev' = [dev EXCEPT !.writeIndex = 0] /\ k' = k
        /\ hw' = [hw EXCEPT !.si = FALSE, !.sta = FALSE]
    BY <1>1 DEF Started
  <2>2. DevType' /\ dev'.owner = dev.owner
        /\ dev'.writeLength = dev.writeLength /\ dev'.readLength = dev.readLength
        /\ dev'.writeIndex = 0
    BY <2>1 DEF DevType
  <2>3. HwType' /\ hw'.stat = \h08 /\ ~hw'.si /\ ~hw'.sta /\ (hw'.sto <=> hw.sto)
    BY Zenon, <2>1 DEF HwType
  <2>4. Going'
    BY <2>1 DEF Going, Starting, Refusing, Writing, Reading
  <2> QED BY <2>1, <2>2, <2>3, <2>4
<1>2. CASE StartedAgain
  <2>1. /\ hw.stat = \h10 /\ dev' = [dev EXCEPT !.readIndex = 0] /\ k' = k
        /\ hw' = [hw EXCEPT !.si = FALSE, !.sta = FALSE]
    BY <1>2 DEF StartedAgain
  <2>2. DevType' /\ dev'.owner = dev.owner
        /\ dev'.writeLength = dev.writeLength /\ dev'.readLength = dev.readLength
        /\ dev'.readIndex = 0
    BY <2>1 DEF DevType
  <2>3. HwType' /\ hw'.stat = \h10 /\ ~hw'.si /\ ~hw'.sta /\ (hw'.sto <=> hw.sto)
    BY <2>1 DEF HwType
  <2>4. Going'
    BY <2>1 DEF Going, Starting, Refusing, Writing, Reading
  <2> QED BY <2>1, <2>2, <2>3, <2>4
<1>3. CASE AddressTaken
  <2>1. /\ hw.stat = \h18 /\ ~hw.sta /\ ~hw.sto /\ ~wire.failed
        /\ wire.taken = 0 /\ wire.given = 0 /\ dev.writeIndex = 0
    BY <1>3 DEF AddressTaken, Going, Starting, Refusing, Writing, Reading
  <2>2. /\ dev' = [dev EXCEPT !.writeIndex = @ + 1] /\ k' = k
        /\ hw' = [hw EXCEPT !.si = FALSE]
    BY <1>3, <2>1 DEF AddressTaken, SendNextByte
  <2>3. DevType' /\ dev'.owner = dev.owner
        /\ dev'.writeLength = dev.writeLength /\ dev'.readLength = dev.readLength
        /\ dev'.writeIndex = dev.writeIndex + 1
    BY <2>2 DEF DevType
  <2>4. HwType' /\ hw'.stat = \h18 /\ ~hw'.si /\ ~hw'.sta /\ ~hw'.sto
    BY <2>1, <2>2 DEF HwType
  <2>5. Going'
    BY <1>0, <2>1, <2>3, <2>4 DEF Going, Writing
  <2> QED BY <2>2, <2>3, <2>4, <2>5
<1>4. CASE ByteTaken
  <2>1. /\ hw.stat = \h28 /\ ~hw.sta /\ ~hw.sto /\ ~wire.failed /\ wire.given = 0
        /\ dev.writeIndex = wire.taken /\ dev.writeIndex <= dev.writeLength
    BY <1>4 DEF ByteTaken, Going, Starting, Refusing, Writing, Reading
  <2>2. CASE SendNextByte /\ hw' = [hw EXCEPT !.si = FALSE] /\ UNCHANGED k
    <3>1. dev.writeIndex < dev.writeLength /\ dev' = [dev EXCEPT !.writeIndex = @ + 1]
      BY <2>2 DEF SendNextByte
    <3>2. DevType' /\ dev'.owner = dev.owner
          /\ dev'.writeLength = dev.writeLength /\ dev'.readLength = dev.readLength
          /\ dev'.writeIndex = dev.writeIndex + 1
      BY <3>1 DEF DevType
    <3>3. HwType' /\ hw'.stat = \h28 /\ ~hw'.si /\ ~hw'.sta /\ ~hw'.sto
      BY Zenon, <2>1, <2>2 DEF HwType
    <3>4. Going'
      BY <1>0, <2>1, <3>1, <3>3 DEF Going, Writing
    <3> QED BY <2>2, <3>2, <3>3, <3>4
  <2>3. CASE /\ dev.writeIndex >= dev.writeLength /\ dev.readLength > 0
             /\ hw' = [hw EXCEPT !.si = FALSE, !.sta = TRUE] /\ UNCHANGED <<k, dev>>
    <3>1. HwType' /\ hw'.stat = \h28 /\ ~hw'.si /\ hw'.sta /\ ~hw'.sto
      BY <2>1, <2>3 DEF HwType
    <3>2. wire.taken = dev.writeLength
      BY <1>0, <2>1, <2>3
    <3>3. Going'
      BY <2>1, <2>3, <3>2 DEF Going, Reading
    <3> QED BY <2>3, <3>1, <3>3 DEF DevType
  <2>4. CASE /\ dev.writeIndex >= dev.writeLength /\ dev.readLength = 0
             /\ hw' = [hw EXCEPT !.si = FALSE, !.sto = TRUE] /\ Finish("ok")
    <3>1. HwType' /\ ~hw'.si /\ ~hw'.sta /\ hw'.sto
      BY <2>1, <2>4 DEF HwType
    <3>2. DevType' /\ dev'.owner = dev.owner /\ dev'.status = "ok"
          /\ dev'.writeLength = dev.writeLength /\ dev'.readLength = dev.readLength
      BY <2>4 DEF DevType, Finish
    <3>3. wire.taken = dev.writeLength
      BY <1>0, <2>1, <2>4
    <3>4. Ended'
      BY <2>1, <2>4, <3>2, <3>3 DEF Ended, Quiet
    <3> QED BY <2>4, <3>1, <3>2, <3>4 DEF Finish
  <2> QED BY <1>4, <2>2, <2>3, <2>4 DEF ByteTaken
<1>5. CASE ReadAddressTaken
  <2>1. /\ hw.stat = \h40 /\ ~hw.sta /\ ~hw.sto /\ ~wire.failed /\ wire.given = 0
        /\ wire.taken = dev.writeLength /\ dev.readLength > 0 /\ dev.readIndex = 0
    BY <1>5 DEF ReadAddressTaken, Going, Starting, Refusing, Writing, Reading
  <2>2. PICK b : b = Acknowledge(dev.readIndex)
    OBVIOUS
  <2>3. hw' = [hw EXCEPT !.si = FALSE, !.aa = b] /\ UNCHANGED <<k, dev>>
    BY <1>5, <2>2 DEF ReadAddressTaken
  <2>6. b \in BOOLEAN /\ (b <=> dev.readIndex + 1 < dev.readLength)
    <3>1. Acknowledge(dev.readIndex) \in BOOLEAN
      BY DEF Acknowledge
    <3>2. b <=> dev.readIndex + 1 < dev.readLength
      BY Zenon, <2>2 DEF Acknowledge
    <3> QED BY <2>2, <3>1, <3>2
  <2>4. HwType' /\ hw'.stat = \h40 /\ ~hw'.si /\ ~hw'.sta /\ ~hw'.sto /\ (hw'.aa <=> b)
    BY <2>1, <2>3, <2>6 DEF HwType
  <2>5. Going'
    BY <2>1, <2>3, <2>6 DEF Going, Reading
  <2> QED BY <2>3, <2>4, <2>5 DEF DevType
<1>6. CASE ByteGiven
  <2>1. /\ hw.stat = \h50 /\ ~hw.sta /\ ~hw.sto /\ ~wire.failed
        /\ wire.taken = dev.writeLength /\ dev.readLength > 0
        /\ wire.given = dev.readIndex + 1 /\ wire.given < dev.readLength
    BY <1>6 DEF ByteGiven, Going, Starting, Refusing, Writing, Reading
  <2>2. PICK b : b = Acknowledge(dev.readIndex + 1)
    OBVIOUS
  <2>3. /\ hw' = [hw EXCEPT !.si = FALSE, !.aa = b] /\ k' = k
        /\ dev' = [dev EXCEPT !.readIndex = @ + 1]
    BY <1>6, <2>2 DEF ByteGiven
  <2>7. b \in BOOLEAN /\ (b <=> dev.readIndex + 1 + 1 < dev.readLength)
    <3>1. Acknowledge(dev.readIndex + 1) \in BOOLEAN
      BY DEF Acknowledge
    <3>2. b <=> dev.readIndex + 1 + 1 < dev.readLength
      BY Zenon, <2>2 DEF Acknowledge
    <3> QED BY <2>2, <3>1, <3>2
  <2>4. HwType' /\ hw'.stat = \h50 /\ ~hw'.si /\ ~hw'.sta /\ ~hw'.sto /\ (hw'.aa <=> b)
    BY <2>1, <2>3, <2>7 DEF HwType
  <2>5. DevType' /\ dev'.owner = dev.owner
        /\ dev'.writeLength = dev.writeLength /\ dev'.readLength = dev.readLength
        /\ dev'.readIndex = dev.readIndex + 1
    BY <2>3 DEF DevType
  <2>6. Going'
    BY <2>1, <2>4, <2>5, <2>7 DEF Going, Reading
  <2> QED BY <2>3, <2>4, <2>5, <2>6
<1>7. CASE LastByteGiven
  <2>1. /\ hw.stat = \h58 /\ ~hw.sta /\ ~hw.sto /\ ~wire.failed
        /\ wire.taken = dev.writeLength /\ wire.given = dev.readLength
    BY <1>7 DEF LastByteGiven, Going, Starting, Refusing, Writing, Reading
  <2>2. /\ dev' = [dev EXCEPT !.readIndex = @ + 1, !.status = "ok"]
        /\ k' = semaphore_signal(k, Done)
        /\ hw' = [hw EXCEPT !.si = FALSE, !.sto = TRUE]
    BY <1>7 DEF LastByteGiven
  <2>3. HwType' /\ ~hw'.si /\ ~hw'.sta /\ hw'.sto
    BY Zenon, <2>1, <2>2 DEF HwType
  <2>4. DevType' /\ dev'.owner = dev.owner /\ dev'.status = "ok"
        /\ dev'.writeLength = dev.writeLength /\ dev'.readLength = dev.readLength
    <3>1. PICK n \in Nat : n = dev.readIndex + 1
      BY <1>0
    <3>2. dev' = [dev EXCEPT !.readIndex = n, !.status = "ok"]
      BY <2>2, <3>1
    <3> QED BY <3>2 DEF DevType
  <2>5. Ended'
    BY <2>1, <2>3, <2>4 DEF Ended, Quiet
  <2> QED BY <2>2, <2>3, <2>4, <2>5
<1>8. CASE Refused
  <2>1. ~hw.sta /\ wire.failed
    BY <1>8 DEF Refused, Going, Starting, Refusing, Writing, Reading
  <2>2. /\ dev' = [dev EXCEPT !.status = "err"] /\ k' = semaphore_signal(k, Done)
        /\ hw' = [hw EXCEPT !.si = FALSE, !.sto = TRUE]
    BY <1>8 DEF Refused, Finish
  <2>3. HwType' /\ ~hw'.si /\ ~hw'.sta /\ hw'.sto
    BY Zenon, <2>1, <2>2 DEF HwType
  <2>4. DevType' /\ dev'.owner = dev.owner /\ dev'.status = "err"
        /\ dev'.writeLength = dev.writeLength /\ dev'.readLength = dev.readLength
    BY <2>2 DEF DevType
  <2>5. Ended'
    BY Zenon, <2>1, <2>3, <2>4 DEF Ended, Quiet
  <2> QED BY <2>2, <2>3, <2>4, <2>5
<1> QED BY <1>1, <1>2, <1>3, <1>4, <1>5, <1>6, <1>7, <1>8 DEF IsrCase

\* What semaphore_signal and semaphore_wait do to a semaphore, and to no other
LEMMA SignalAt ==
    ASSUME Sound(k), NEW s \in Semaphores, k.value[s] \in -128..126, k' = semaphore_signal(k, s)
    PROVE  /\ Sound(k)' /\ k'.value[s] = k.value[s] + 1
           /\ k'.waiters[s] = IF k.waiters[s] = <<>> THEN <<>> ELSE Tail(k.waiters[s])
           /\ \A r \in Semaphores : r # s => Same(r)
<1>1. /\ Sound(k') /\ k'.value = [k.value EXCEPT ![s] = k.value[s] + 1]
      /\ k'.waiters = IF k.waiters[s] = <<>> THEN k.waiters
                      ELSE [k.waiters EXCEPT ![s] = Tail(k.waiters[s])]
  BY Zenon, SignalSound
<1>2. k.value \in [Semaphores -> Int] /\ k.waiters \in [Semaphores -> Seq(Threads)]
  BY Zenon, SoundTypes
<1> QED BY <1>1, <1>2 DEF Same

LEMMA WaitAt ==
    ASSUME Sound(k), NEW s \in Semaphores, k.value[s] \in -127..127,
           NEW t \in Threads, k.current = t, ~k.pendsv, k' = semaphore_wait(k, s)
    PROVE  /\ Sound(k)' /\ k'.value[s] = k.value[s] - 1
           /\ k.value[s] >= 1 => k'.waiters[s] = k.waiters[s]
           /\ k.value[s] <= 0 => k'.waiters[s] = Append(k.waiters[s], t)
           /\ \A r \in Semaphores : r # s => Same(r)
<1>1. /\ Sound(k') /\ k'.value = [k.value EXCEPT ![s] = k.value[s] - 1]
      /\ k.value[s] >= 1 => k'.waiters = k.waiters
      /\ k.value[s] <= 0 => k'.waiters = [k.waiters EXCEPT ![s] = Append(k.waiters[s], t)]
  BY Zenon, WaitSound
<1>2. /\ k.value \in [Semaphores -> Int] /\ k.waiters \in [Semaphores -> Seq(Threads)]
      /\ k.value[s] >= 1 \/ k.value[s] <= 0
  BY SoundTypes
<1>3. CASE k.value[s] >= 1
  BY Zenon, <1>1, <1>2, <1>3 DEF Same
<1>4. CASE k.value[s] <= 0
  BY <1>1, <1>2 DEF Same
<1> QED BY <1>2, <1>3, <1>4

(* An interrupt only comes during a transfer that is not over.             *)
LEMMA IsrOwner ==
    ASSUME BusInv, hw.si
    PROVE  \E t, u \in Threads :
              /\ t # u /\ Holds(t, u) /\ pc[t] \in {"wait", "status"} /\ dev.owner = t
              /\ dev.writeLength = asked[t].write /\ dev.readLength = asked[t].read
              /\ Going /\ NotSignalled(t)
<1>1. ~Quiet
  BY DEF Quiet
<1>2. PICK t, u \in Threads : t # u /\ Holds(t, u)
  BY <1>1 DEF BusInv, Free
<1>3. /\ dev.owner = t /\ Going /\ NotSignalled(t)
      /\ dev.writeLength = asked[t].write /\ dev.readLength = asked[t].read
  BY <1>1, <1>2 DEF Holds, Transfer, Ended
<1> QED BY <1>2, <1>3 DEF NotSignalled

LEMMA InterruptStep ==
    ASSUME Sound(k), ThreadType, DevType, HwType, BusInv, i2c_dev_isr
    PROVE  Sound(k)' /\ DevType' /\ HwType' /\ BusInv' /\ Same(Sem) /\ Same(Lock)
<1> USE Constants
<1>1. hw.si /\ IsrCase /\ UNCHANGED <<pc, asked, wire, faults>>
  BY DEF i2c_dev_isr, IsrCase
<1>2. PICK t, u \in Threads :
         /\ t # u /\ Holds(t, u) /\ pc[t] \in {"wait", "status"} /\ dev.owner = t
         /\ dev.writeLength = asked[t].write /\ dev.readLength = asked[t].read
         /\ Going /\ NotSignalled(t)
  BY <1>1, IsrOwner
<1>3. dev.writeLength > 0
  BY Zenon, <1>2 DEF ThreadType
<1>4. /\ DevType' /\ HwType' /\ dev'.owner = dev.owner
      /\ dev'.writeLength = dev.writeLength /\ dev'.readLength = dev.readLength
      /\ \/ k' = k /\ Going'
         \/ k' = semaphore_signal(k, Done) /\ Ended'
  BY <1>1, <1>2, <1>3, IsrSteps
<1>6. CASE k' = k /\ Going'
  <2>1. NotSignalled(t)'
    BY Zenon, <1>1, <1>2, <1>6 DEF NotSignalled
  <2>2. Holds(t, u)'
    BY Zenon, <1>1, <1>2, <1>4, <1>6, <2>1 DEF Holds, Transfer
  <2> QED BY <1>2, <1>4, <1>6, <2>2 DEF BusInv, Same
<1>7. CASE k' = semaphore_signal(k, Done) /\ Ended'
  <2>1. k.value[Done] \in -128..126
    BY <1>2 DEF NotSignalled
  <2>2. /\ Sound(k)' /\ k'.value[Done] = k.value[Done] + 1
        /\ k'.waiters[Done] = IF k.waiters[Done] = <<>> THEN <<>> ELSE Tail(k.waiters[Done])
        /\ \A r \in Semaphores : r # Done => Same(r)
    BY Zenon, <1>7, <2>1, SignalAt
  <2>4. Same(Sem) /\ Same(Lock) /\ k'.value[Done] = k.value[Done] + 1
    BY <2>2
  <2>5. k'.waiters[Done] = <<>>
    BY <1>2, <2>2, OneInRange DEF NotSignalled
  <2>6. HasSignalled(t)'
    BY <1>1, <1>2, <2>4, <2>5 DEF NotSignalled, HasSignalled
  <2>7. Holds(t, u)'
    BY Zenon, <1>1, <1>2, <1>4, <1>7, <2>4, <2>6 DEF Holds, Transfer, Same
  <2> QED BY Zenon, <1>2, <1>4, <2>2, <2>7 DEF BusInv
<1> QED BY <1>4, <1>6, <1>7

-----------------------------------------------------------------------------
(* i2c_dev_transfer.                                                       *)

\* What is between two threads.
LEMMA TwoThreads == \A t, u, v \in Threads : t # u => v = t \/ v = u
BY Constants

LEMMA LockStep ==
    ASSUME Sound(k), ThreadType, DevType, HwType, BusInv, NEW t \in Threads,
           NEW lengths \in [write : Nat, read : Nat], lengths.write > 0, TransferLock(t, lengths)
    PROVE  /\ Sound(k)' /\ ThreadType' /\ DevType' /\ HwType' /\ BusInv' /\ Same(Sem)
           /\ pc'[t] = "start" /\ asked'[t] = lengths
<1>1. /\ At(t, "idle") /\ k' = semaphore_wait(k, Lock) /\ pc' = [pc EXCEPT ![t] = "start"]
      /\ asked' = [asked EXCEPT ![t] = lengths] /\ UNCHANGED <<dev, hw, wire, faults>>
  BY DEF TransferLock, Goto, device
<1>2. ThreadType' /\ pc'[t] = "start" /\ asked'[t] = lengths
      /\ \A u \in Threads : u # t => pc'[u] = pc[u] /\ asked'[u] = asked[u]
  BY Zenon, <1>1 DEF ThreadType
<1>3. DevType' /\ HwType' /\ (Quiet => Quiet') /\ (Going => Going') /\ (Ended => Ended')
  BY Zenon, <1>1
     DEF DevType, HwType, Quiet, Going, Ended, Starting, Refusing, Writing, Reading
<1>4. pc[t] = "idle" /\ k.current = t /\ ~k.pendsv
  BY <1>1, AtThread
<1>6. ASSUME k.value[Lock] \in -127..127
      PROVE  /\ Sound(k') /\ Same(Sem) /\ Same(Done) /\ k'.value[Lock] = k.value[Lock] - 1
             /\ k.value[Lock] >= 1 => k'.waiters[Lock] = k.waiters[Lock]
             /\ k.value[Lock] <= 0 => k'.waiters[Lock] = Append(k.waiters[Lock], t)
  BY Zenon, <1>1, <1>4, <1>6, Constants, WaitAt
<1>7. CASE Free
  <2>1. PICK u \in Threads : u # t
    BY Constants
  <2>2. /\ Sound(k') /\ Same(Sem) /\ Same(Done) /\ k'.value[Lock] = 0
        /\ k'.waiters[Lock] = <<>>
    BY <1>6, <1>7 DEF Free
  <2>3. Transfer(t)'
    BY Zenon, <1>2, <1>3, <1>7, <2>2 DEF Free, Transfer, Same
  <2>4. Holds(t, u)'
    BY Zenon, <1>2, <1>7, <2>1, <2>2, <2>3 DEF Holds, Free
  <2> QED BY <1>2, <1>3, <2>1, <2>2, <2>4 DEF BusInv
<1>8. ASSUME NEW v \in Threads, NEW u \in Threads, v # u, Holds(v, u)
      PROVE  Sound(k') /\ Same(Sem) /\ BusInv'
  <2>1. u = t /\ v # t
    BY <1>4, <1>8, TwoThreads DEF Holds
  <2>2. k.waiters[Lock] = <<>> /\ k.value[Lock] = 0
    BY <1>4, <1>8, <2>1 DEF Holds
  <2>3. /\ Sound(k') /\ Same(Sem) /\ Same(Done) /\ k'.value[Lock] = -1
        /\ k'.waiters[Lock] = <<u>>
    <3>1. 0 \in -127..127 /\ 0 <= 0 /\ 0 - 1 = -1 /\ Append(<<>>, t) = <<t>>
      OBVIOUS
    <3> QED BY Zenon, <1>6, <2>1, <2>2, <3>1
  <2>4. Transfer(v)'
    BY <1>1, <1>3, <1>8, <2>1, <2>3 DEF Holds, Transfer, NotSignalled, HasSignalled, Same
  <2>5. Holds(v, u)'
    BY <1>2, <1>8, <2>1, <2>3, <2>4 DEF Holds
  <2> QED BY <1>8, <2>3, <2>5 DEF BusInv
<1> QED BY <1>2, <1>3, <1>7, <1>8 DEF BusInv

(* The transfers of this program: a load, a save, a sensor's reading.      *)
LEMMA LockSteps ==
    ASSUME IInv, NEW t \in Threads, NEW lengths, TransferLock(t, lengths),
           \/ lengths = [write |-> 2, read |-> 1] \/ lengths = [write |-> 3, read |-> 0]
           \/ lengths = [write |-> 1, read |-> 2]
    PROVE  /\ Sound(k)' /\ ThreadType' /\ DevType' /\ HwType' /\ BusInv' /\ Same(Sem)
           /\ pc'[t] = "start" /\ asked'[t] = lengths
<1>1. lengths \in [write : Nat, read : Nat] /\ lengths.write > 0
  OBVIOUS
<1>2. Sound(k) /\ ThreadType /\ DevType /\ HwType /\ BusInv
  BY Zenon DEF IInv
<1> QED BY Zenon, <1>1, <1>2, LockStep

LEMMA StartStep ==
    ASSUME Sound(k), ThreadType, DevType, HwType, BusInv, NEW t \in Threads, TransferStart(t)
    PROVE  /\ Sound(k)' /\ ThreadType' /\ DevType' /\ HwType' /\ BusInv' /\ k' = k
           /\ ~hw.si /\ ~hw'.si /\ hw'.sta /\ dev'.owner = t
<1>1. /\ At(t, "start") /\ pc' = [pc EXCEPT ![t] = "wait"]
      /\ dev' = [dev EXCEPT !.owner = t, !.writeLength = asked[t].write,
                            !.readLength = asked[t].read]
      /\ hw' = [hw EXCEPT !.sta = TRUE] /\ UNCHANGED <<k, asked, wire, faults>>
  BY DEF TransferStart, Goto
<1>2. ThreadType' /\ pc'[t] = "wait" /\ \A u \in Threads : u # t => pc'[u] = pc[u]
  BY <1>1, AtThread DEF ThreadType
<1>3. asked[t].write \in Nat /\ asked[t].read \in Nat
  BY DEF ThreadType
<1>4. /\ DevType' /\ dev'.owner = t
      /\ dev'.writeLength = asked[t].write /\ dev'.readLength = asked[t].read
  BY Zenon, <1>1, <1>3 DEF DevType
<1>5. HwType' /\ hw'.sta /\ (hw'.si <=> hw.si) /\ (hw'.sto <=> hw.sto) /\ hw'.stat = hw.stat
  BY <1>1 DEF HwType
<1>6. pc[t] = "start" /\ k.waiters[Lock] # <<t>>
  BY <1>1, AtThread, Constants
<1>7. PICK u \in Threads : t # u /\ Holds(t, u)
  <2>1. PICK v, u \in Threads : v # u /\ Holds(v, u)
    BY <1>6 DEF BusInv, Free
  <2>2. v = t
    BY <1>6, <2>1, TwoThreads DEF Holds
  <2> QED BY <2>1, <2>2
<1>8. k.value[Done] = 0 /\ k.waiters[Done] = <<>> /\ Quiet
  BY <1>6, <1>7 DEF Holds, Transfer, NotSignalled, HasSignalled
<1>9. Going'
  BY <1>5, <1>8 DEF Quiet, Going, Starting
<1>10. NotSignalled(t)'
  BY <1>1, <1>2, <1>8 DEF NotSignalled
<1>11. Holds(t, u)'
  BY <1>1, <1>7, <1>9, <1>10 DEF Holds, Transfer
<1> QED BY <1>1, <1>2, <1>4, <1>5, <1>7, <1>8, <1>11 DEF BusInv, Quiet

LEMMA WaitStep ==
    ASSUME Sound(k), ThreadType, DevType, HwType, BusInv, NEW t \in Threads, TransferWait(t)
    PROVE  Sound(k)' /\ ThreadType' /\ DevType' /\ HwType' /\ BusInv' /\ Same(Sem) /\ Same(Lock)
<1>1. /\ At(t, "wait") /\ k' = semaphore_wait(k, Done) /\ pc' = [pc EXCEPT ![t] = "status"]
      /\ UNCHANGED <<asked, dev, hw, wire, faults>>
  BY Zenon DEF TransferWait, Goto, device
<1>2. /\ ThreadType' /\ pc'[t] = "status" /\ pc[t] = "wait" /\ k.current = t /\ ~k.pendsv
      /\ \A u \in Threads : u # t => pc'[u] = pc[u]
  BY <1>1, AtThread DEF ThreadType
<1>3. DevType' /\ HwType' /\ (Going => Going') /\ (Ended => Ended')
  BY Zenon, <1>1
     DEF DevType, HwType, Quiet, Going, Ended, Starting, Refusing, Writing, Reading
<1>4. PICK u \in Threads : t # u /\ Holds(t, u)
  <2>1. PICK v, u \in Threads : v # u /\ Holds(v, u)
    BY <1>2 DEF BusInv, Free
  <2>2. v = t
    BY <1>2, <2>1, TwoThreads DEF Holds
  <2> QED BY <2>1, <2>2
<1>5. /\ dev.owner = t /\ dev.writeLength = asked[t].write /\ dev.readLength = asked[t].read
      /\ k.waiters[Done] = <<>>
      /\ (Going /\ k.value[Done] = 0) \/ (Ended /\ k.value[Done] = 1)
  BY Zenon, <1>2, <1>4 DEF Holds, Transfer, NotSignalled, HasSignalled
<1>7. k.value[Done] \in -127..127
  BY <1>5
<1>8. /\ Sound(k') /\ Same(Sem) /\ Same(Lock) /\ k'.value[Done] = k.value[Done] - 1
      /\ k.value[Done] >= 1 => k'.waiters[Done] = k.waiters[Done]
      /\ k.value[Done] <= 0 => k'.waiters[Done] = Append(k.waiters[Done], t)
  BY Zenon, <1>1, <1>2, <1>7, Constants, WaitAt
<1>9. \/ Going /\ k'.value[Done] = -1 /\ k'.waiters[Done] = <<t>>
      \/ Ended /\ k'.value[Done] = 0 /\ k'.waiters[Done] = <<>>
  BY <1>5, <1>8
<1>10. Transfer(t)'
  BY <1>1, <1>2, <1>3, <1>5, <1>9 DEF Transfer, NotSignalled, HasSignalled
<1>11. Holds(t, u)'
  BY Zenon, <1>2, <1>4, <1>8, <1>10 DEF Holds, Same
<1> QED BY <1>2, <1>3, <1>4, <1>8, <1>11 DEF BusInv

(* i2c_dev_transfer only returns when its transfer has ended.              *)
LEMMA AtReturn ==
    ASSUME Sound(k), BusInv, NEW t \in Threads, At(t, "status")
    PROVE  \E u \in Threads :
              /\ t # u /\ Holds(t, u) /\ dev.owner = t /\ Ended
              /\ dev.writeLength = asked[t].write /\ dev.readLength = asked[t].read
              /\ k.value[Done] = 0 /\ k.waiters[Done] = <<>>
<1>1. pc[t] = "status" /\ k.waiters[Done] # <<t>>
  BY AtThread, Constants
<1>2. PICK v, u \in Threads : v # u /\ Holds(v, u)
  BY <1>1 DEF BusInv, Free
<1>3. v = t
  BY <1>1, <1>2, TwoThreads DEF Holds
<1> QED BY Zenon, <1>1, <1>2, <1>3 DEF Holds, Transfer, NotSignalled, HasSignalled

LEMMA ReturnStep ==
    ASSUME Sound(k), ThreadType, DevType, HwType, BusInv, NEW t \in Threads, TransferReturn(t)
    PROVE  Sound(k)' /\ ThreadType' /\ DevType' /\ HwType' /\ BusInv' /\ Same(Sem)
           /\ pc'[t] = "idle"
<1>1. /\ At(t, "status") /\ k' = semaphore_signal(k, Lock) /\ pc' = [pc EXCEPT ![t] = "idle"]
      /\ asked' = [asked EXCEPT ![t] = None] /\ UNCHANGED <<dev, hw, wire, faults>>
  BY DEF TransferReturn, Goto, device
<1>2. /\ ThreadType' /\ pc'[t] = "idle"
      /\ \A u \in Threads : u # t => pc'[u] = pc[u]
  BY <1>1 DEF ThreadType, None
<1>3. DevType' /\ HwType' /\ (Quiet => Quiet')
  BY Zenon, <1>1 DEF DevType, HwType, Quiet
<1>4. PICK u \in Threads :
         t # u /\ Holds(t, u) /\ Ended /\ k.value[Done] = 0 /\ k.waiters[Done] = <<>>
  BY <1>1, AtReturn
<1>5. \/ pc[u] = "idle" /\ k.waiters[Lock] = <<>> /\ k.value[Lock] = 0
      \/ pc[u] = "start" /\ k.waiters[Lock] = <<u>> /\ k.value[Lock] = -1
  BY <1>4 DEF Holds
<1>7. k.value[Lock] \in -128..126
  BY <1>5
<1>8. /\ Sound(k') /\ Same(Sem) /\ Same(Done) /\ k'.value[Lock] = k.value[Lock] + 1
      /\ k'.waiters[Lock] = IF k.waiters[Lock] = <<>> THEN <<>> ELSE Tail(k.waiters[Lock])
  BY Zenon, <1>1, <1>7, Constants, SignalAt
<1>9. k'.waiters[Lock] = <<>>
  BY <1>5, <1>8, OneInRange
<1>10. Quiet'
  BY <1>3, <1>4 DEF Ended
<1>11. CASE pc[u] = "idle" /\ k.value[Lock] = 0
  <2>0. k'.value[Lock] = 1
    BY <1>8, <1>11
  <2>1. \A v \in Threads : pc'[v] = "idle"
    BY Zenon, <1>2, <1>4, <1>11, TwoThreads
  <2>2. Free'
    BY Zenon, <1>4, <1>8, <1>9, <1>10, <2>0, <2>1 DEF Free, Same
  <2> QED BY Zenon, <1>2, <1>3, <1>8, <2>2 DEF BusInv
<1>12. CASE pc[u] = "start" /\ k.value[Lock] = -1
  <2>0. k'.value[Lock] = 0 /\ pc'[u] = "start"
    BY <1>2, <1>4, <1>8, <1>12
  <2>1. Transfer(u)'
    BY <1>4, <1>8, <1>10, <2>0 DEF Transfer, Same
  <2>2. Holds(u, t)'
    BY <1>2, <1>9, <2>0, <2>1 DEF Holds
  <2> QED BY Zenon, <1>2, <1>3, <1>4, <1>8, <2>2 DEF BusInv
<1> QED BY <1>5, <1>11, <1>12

-----------------------------------------------------------------------------
(* The steps of the bus and of the EEPROM.                                 *)

LEMMA SemKeeps ==
    ASSUME SemInv, Same(Sem), UNCHANGED <<changes, step>>
    PROVE  SemInv'
BY DEF SemInv, Same

LEMMA StepKeeps ==
    ASSUME StepInv, UNCHANGED <<pc, asked, config, rom, latch, step, page>>
    PROVE  StepInv'
BY DEF StepInv

LEMMA SaveKeeps ==
    ASSUME SaveInv, UNCHANGED <<config, rom, latch, step, page, buf, request, unsaved>>
    PROVE  SaveInv'
BY DEF SaveInv, Value, Keeps

\* Whose transfer it is when the bus is at work
LEMMA Owner ==
    ASSUME DevType, BusInv, ~Quiet
    PROVE  \E t, u \in Threads :
              /\ t # u /\ dev.owner = t /\ Going /\ pc[t] \in {"wait", "status"}
              /\ pc[u] \in {"idle", "start"}
              /\ dev.writeLength = asked[t].write /\ dev.readLength = asked[t].read
<1>1. PICK t, u \in Threads : t # u /\ Holds(t, u)
  BY DEF BusInv, Free
<1>2. /\ dev.owner = t /\ Going /\ NotSignalled(t)
      /\ dev.writeLength = asked[t].write /\ dev.readLength = asked[t].read
  BY <1>1 DEF Holds, Transfer, Ended
<1> QED BY <1>1, <1>2 DEF Holds, NotSignalled

LEMMA NoLatch ==
    ASSUME LatchInv, ~hw.si, ~hw.sto
    PROVE  latch = <<>>
BY DEF LatchInv

LEMMA StartIInv ==
    ASSUME IInv, StartCondition, UNCHANGED eeprom, Rest
    PROVE  IInv'
<1>1. /\ ~hw.si /\ ~hw.sto /\ hw.sta /\ UNCHANGED <<k, pc, asked, dev, faults>>
      /\ UNCHANGED <<config, rom, latch, step, page, buf, request, unsaved, changes>>
  BY DEF StartCondition, Rest, thread, eeprom
<1>2. DevType' /\ HwType' /\ ~Quiet /\ (Going => Going')
  BY Zenon, <1>1, StartSteps DEF IInv, DevType
<1>3. Sound(k)' /\ ThreadType' /\ Same(Lock) /\ Same(Done) /\ Same(Sem)
  BY Zenon, <1>1 DEF IInv, ThreadType, Same
<1>4. BusInv'
  BY <1>1, <1>2, <1>3, BusStep DEF IInv, Ended
<1>5. SemInv' /\ StepInv' /\ SaveInv'
  BY <1>1, <1>3, SemKeeps, StepKeeps, SaveKeeps DEF IInv
<1>6. latch' = <<>>
  BY <1>1, NoLatch DEF IInv
<1>7. ASSUME step = "write", pc[Loop] \in {"wait", "status"}
      PROVE  wire'.taken # 3
  <2>1. PICK t, u \in Threads :
           /\ t # u /\ Going /\ pc[t] \in {"wait", "status"} /\ pc[u] \in {"idle", "start"}
           /\ dev.readLength = asked[t].read
    BY <1>2, Owner DEF IInv
  <2>2. t = Loop
    BY <1>7, <2>1, Constants
  <2>3. dev.readLength = 0
    BY <1>7, <2>1, <2>2 DEF IInv, StepInv
  <2>4. hw.stat = \hF8
    BY <1>1, <2>1, <2>3 DEF Going, Starting, Refusing, Writing, Reading
  <2>5. wire' = Untouched
    BY <2>4 DEF StartCondition
  <2> QED BY <2>5 DEF Untouched
<1>8. LatchInv'
  <2>1. latch' # <<>> => FALSE
    BY <1>6
  <2>2. step' = "write" /\ pc'[Loop] \in {"wait", "status"} => ~(wire'.taken = 3)
    BY <1>1, <1>7
  <2> QED BY <2>1, <2>2 DEF LatchInv
<1> QED BY <1>2, <1>3, <1>4, <1>5, <1>8 DEF IInv

(* A byte or an address that is not acknowledged, or lost.                 *)
LEMMA RefusalIInv ==
    ASSUME IInv, NotAcknowledged \/ BusError, faults' \in Nat, UNCHANGED eeprom, Rest
    PROVE  IInv'
<1>1. /\ ~hw.si /\ ~hw.sto /\ ~hw.sta /\ UNCHANGED <<k, pc, asked, dev>>
      /\ wire' = [wire EXCEPT !.failed = TRUE]
      /\ UNCHANGED <<config, rom, latch, step, page, buf, request, unsaved, changes>>
  BY DEF NotAcknowledged, BusError, OnTheBus, Rest, thread, eeprom
<1>2. DevType' /\ HwType' /\ ~Quiet /\ (Going => Going')
  BY <1>1, RefusalSteps DEF IInv, DevType
<1>3. Sound(k)' /\ ThreadType' /\ Same(Lock) /\ Same(Done) /\ Same(Sem)
  BY <1>1 DEF IInv, ThreadType, Same
<1>4. BusInv'
  BY <1>1, <1>2, <1>3, BusStep DEF IInv, Ended
<1>5. SemInv' /\ StepInv' /\ SaveInv'
  BY <1>1, <1>3, SemKeeps, StepKeeps, SaveKeeps DEF IInv
<1>8. LatchInv'
  BY <1>1 DEF IInv, LatchInv, Keeps
<1> QED BY <1>2, <1>3, <1>4, <1>5, <1>8 DEF IInv

(* The last byte of a page makes the EEPROM's latch hold it.               *)
LEMMA ByteIInv ==
    ASSUME IInv, ByteMoves, latch' = IF Receives THEN <<page, buf>> ELSE latch,
           UNCHANGED <<rom, busy>>, Rest
    PROVE  IInv'
<1>1. /\ ~hw.si /\ ~hw.sto /\ ~hw.sta /\ hw.stat # \hF8
      /\ UNCHANGED <<k, pc, asked, dev, faults>>
      /\ UNCHANGED <<config, rom, step, page, buf, request, unsaved, changes>>
  BY DEF ByteMoves, OnTheBus, Rest, thread
<1>2. DevType' /\ HwType' /\ ~Quiet /\ (Going => Going')
  BY <1>1, ByteSteps DEF IInv, DevType
<1>3. Sound(k)' /\ ThreadType' /\ Same(Lock) /\ Same(Done) /\ Same(Sem)
  BY Zenon, <1>1 DEF IInv, ThreadType, Same
<1>4. BusInv' /\ SemInv'
  BY <1>1, <1>2, <1>3, BusStep, SemKeeps DEF IInv, Ended
<1>5. latch = <<>>
  BY Zenon, <1>1, NoLatch DEF IInv
<1>6. PICK t, u \in Threads :
         /\ t # u /\ dev.owner = t /\ Going /\ pc[t] \in {"wait", "status"}
         /\ pc[u] \in {"idle", "start"}
         /\ dev.writeLength = asked[t].write /\ dev.readLength = asked[t].read
  BY <1>2, Owner DEF IInv
<1>7. wire.taken \in Nat /\ (wire'.taken = wire.taken \/ wire'.taken = wire.taken + 1)
  BY DEF ByteMoves, IInv, HwType
<1>8. CASE Receives
  <2>1. /\ latch' = <<page, buf>> /\ dev.owner = Loop /\ dev.writeLength = 3
        /\ wire'.taken = 3 /\ wire.taken < 3
    BY Zenon, <1>8 DEF Receives
  <2>2. step = "write" /\ dev.readLength = 0
    BY <1>6, <2>1 DEF IInv, StepInv
  <2>3. Report(\h28)
    <3>1. UNCHANGED wire \/ wire' = [wire EXCEPT !.given = @ + 1] => wire'.taken = wire.taken
      BY DEF IInv, HwType
    <3>2. wire'.taken # wire.taken
      BY <2>1
    <3> QED BY <3>1, <3>2 DEF ByteMoves
  <2>4. hw'.si /\ hw'.stat = \h28
    BY Zenon, <2>3, ReportEffect DEF IInv
  <2>5. /\ latch' # <<>> /\ latch'[1] = page /\ latch'[2] = buf /\ page \in Places
        /\ \A p, v : p # page => (Keeps(p, v) <=> Keeps(p, v)')
        /\ Keeps(page, buf)'
    <3>1. page \in Places
      BY Zenon DEF IInv, StepInv
    <3>2. <<page, buf>> # <<>> /\ <<page, buf>>[1] = page /\ <<page, buf>>[2] = buf
      OBVIOUS
    <3>3. UNCHANGED <<rom, page, buf>> /\ latch = <<>> /\ latch' = <<page, buf>>
      BY Zenon, <1>1, <1>5, <2>1
    <3>4. (\A p, v : p # page => (Keeps(p, v) <=> Keeps(p, v)')) /\ Keeps(page, buf)'
      BY <3>1, <3>3 DEF Keeps
    <3> QED BY Zenon, <3>1, <3>2, <3>3, <3>4
  <2>6. StepInv'
    BY <1>1 DEF IInv, StepInv
  <2>7. LatchInv'
    <3>1. /\ step' = "write" /\ dev'.owner = Loop /\ dev'.readLength = 0
          /\ wire'.taken = dev'.writeLength
      BY Zenon, <1>1, <2>1, <2>2
    <3> QED BY Zenon, <2>4, <2>5, <3>1 DEF LatchInv
  <2>9. SaveInv'
    BY <1>1, <2>2, <2>5 DEF IInv, SaveInv, Value
  <2> QED BY <1>2, <1>3, <1>4, <2>6, <2>7, <2>9 DEF IInv
<1>9. CASE ~Receives
  <2>1. latch' = latch
    BY <1>9
  <2>2. StepInv' /\ SaveInv'
    BY <1>1, <2>1, StepKeeps, SaveKeeps DEF IInv
  <2>3. ASSUME step = "write", pc[Loop] \in {"wait", "status"}, wire'.taken = 3
        PROVE  wire.taken = 3
    <3>1. t = Loop
      BY Zenon, <1>6, <2>3, Constants
    <3>2. dev.owner = Loop /\ dev.writeLength = 3
      BY <1>6, <2>3, <3>1 DEF IInv, StepInv
    <3>3. ~(wire.taken < 3)
      BY Zenon, <1>9, <2>3, <3>2 DEF Receives
    <3> QED BY <1>7, <2>3, <3>3
  <2>4. LatchInv'
    BY <1>1, <2>1, <2>3 DEF IInv, LatchInv, Keeps
  <2> QED BY <1>2, <1>3, <1>4, <2>2, <2>4 DEF IInv
<1> QED BY <1>8, <1>9

(* A stop makes the EEPROM program what it has received.                   *)
LEMMA ProgramIInv ==
    ASSUME IInv, Program
    PROVE  IInv'
<1>1. /\ ~hw.si /\ hw.sto /\ UNCHANGED <<k, pc, asked, dev, wire, faults>> /\ StopCondition
      /\ hw' = [hw EXCEPT !.sto = FALSE, !.stat = \hF8]
      /\ UNCHANGED <<config, step, page, buf, request, unsaved, changes>>
      /\ \/ latch = <<>> /\ UNCHANGED <<rom, latch>>
         \/ latch # <<>> /\ rom' = [rom EXCEPT ![latch[1]] = latch[2]] /\ latch' = <<>>
  BY DEF Program, StopCondition, Rest, thread, eeprom
<1>2. DevType' /\ HwType' /\ (Quiet => Quiet') /\ (Ended => Ended') /\ (Going => Going')
  BY <1>1, StopSteps DEF IInv, DevType
<1>3. Sound(k)' /\ ThreadType' /\ Same(Lock) /\ Same(Done) /\ Same(Sem)
  BY <1>1 DEF IInv, ThreadType, Same
<1>4. BusInv' /\ SemInv'
  BY <1>1, <1>2, <1>3, BusStep, SemKeeps DEF IInv
<1>5. /\ latch' = <<>> /\ rom' = [p \in Places |-> rom'[p]]
      /\ \A p \in Places : \A v : Keeps(p, v) <=> Keeps(p, v)'
      /\ step \in {"load", "check"} => rom' = rom
  <2>1. CASE latch = <<>>
    BY <1>1, <2>1 DEF Keeps, IInv, StepInv
  <2>2. CASE latch # <<>>
    <3>1. rom = [p \in Places |-> rom[p]] /\ latch[1] \in Places
      BY <2>2 DEF IInv, StepInv
    <3>2. /\ rom' = [p \in Places |-> rom'[p]] /\ rom'[latch[1]] = latch[2]
          /\ \A p \in Places : p # latch[1] => rom'[p] = rom[p]
      BY <1>1, <2>2, <3>1
    <3>3. step \notin {"load", "check"}
      BY Zenon, <2>2 DEF IInv, LatchInv
    <3> QED BY <1>1, <3>2, <3>3 DEF Keeps
  <2> QED BY <2>1, <2>2
<1>6. page \in Places /\ Pages \subseteq Places
  BY Constants DEF IInv, StepInv, Places, Pages
<1>7. StepInv'
  BY <1>1 DEF IInv, StepInv
<1>9. LatchInv'
  BY <1>1, <1>5, <1>6 DEF IInv, LatchInv
<1>10. SaveInv'
  BY <1>1, <1>5 DEF IInv, SaveInv, Value
<1> QED BY <1>2, <1>3, <1>4, <1>7, <1>9, <1>10 DEF IInv

LEMMA InterruptIInv ==
    ASSUME IInv, Interrupt
    PROVE  IInv'
<1>1. /\ i2c_dev_isr /\ hw.si /\ IsrCase /\ UNCHANGED <<pc, asked, wire, faults>>
      /\ UNCHANGED <<config, rom, latch, step, page, buf, request, unsaved, changes>>
  BY DEF Interrupt, i2c_dev_isr, IsrCase, Rest, thread, eeprom
<1>2. Sound(k)' /\ DevType' /\ HwType' /\ BusInv' /\ Same(Sem) /\ Same(Lock)
  BY <1>1, InterruptStep DEF IInv
<1>3. ThreadType' /\ SemInv' /\ StepInv' /\ SaveInv'
  BY <1>1, <1>2, SemKeeps, StepKeeps, SaveKeeps DEF IInv, ThreadType
<1>4. ASSUME latch # <<>>
      PROVE  step \notin {"load", "check"} /\ hw'.sto
  <2>1. ~hw.sto /\ Going
    BY Zenon, <1>1, IsrOwner DEF IInv, Going, Starting, Refusing
  <2>2. /\ step = "write" /\ hw.stat = \h28 /\ dev.readLength = 0
        /\ wire.taken = dev.writeLength
    BY Zenon, <1>4, <2>1 DEF IInv, LatchInv
  <2>3. dev.writeIndex = wire.taken /\ dev.writeIndex \in Nat
    BY <2>1, <2>2 DEF IInv, DevType, Going, Starting, Refusing, Writing, Reading
  <2>4. ByteTaken
    BY <1>1, <2>2 DEF IsrCase, Started, StartedAgain, AddressTaken, ReadAddressTaken,
          ByteGiven, LastByteGiven, Refused
  <2>5. hw' = [hw EXCEPT !.si = FALSE, !.sto = TRUE]
    BY <2>2, <2>3, <2>4 DEF ByteTaken, SendNextByte
  <2> QED BY <2>2, <2>5
<1>5. LatchInv'
  BY <1>1, <1>4 DEF IInv, LatchInv, Keeps
<1> QED BY <1>2, <1>3, <1>5 DEF IInv

LEMMA PendSVIInv ==
    ASSUME IInv, PendSV
    PROVE  IInv'
<1>1. /\ k' = schedule(k) /\ UNCHANGED <<pc, asked, dev, hw, wire, faults>>
      /\ UNCHANGED <<config, rom, latch, step, page, buf, request, unsaved, changes>>
  BY DEF PendSV, device, thread, eeprom
<1>2. Sound(k)' /\ k'.value = k.value /\ k'.waiters = k.waiters
  BY <1>1, ScheduleSound DEF IInv
<1>3. Same(Sem) /\ Same(Lock) /\ Same(Done)
  BY Zenon, <1>2 DEF Same
<1>4. ThreadType' /\ DevType' /\ HwType' /\ SemInv' /\ StepInv' /\ SaveInv'
  BY <1>1, <1>3, SemKeeps, StepKeeps, SaveKeeps DEF IInv, ThreadType, DevType, HwType
<1>5. (Quiet => Quiet') /\ (Going => Going') /\ (Ended => Ended')
  BY Zenon, <1>1 DEF Quiet, Going, Ended, Starting, Refusing, Writing, Reading
<1>6. BusInv'
  BY Zenon, <1>1, <1>3, <1>5, BusStep DEF IInv
<1>7. LatchInv'
  BY <1>1 DEF IInv, LatchInv, Keeps
<1> QED BY <1>2, <1>4, <1>6, <1>7 DEF IInv

\* Nothing IInv is about changes (IdleLoop, Ready, a stuttering step).
LEMMA StutterIInv ==
    ASSUME IInv, UNCHANGED <<k, pc, asked, dev, hw, wire, faults, config, rom, latch,
                             step, page, buf, request, unsaved, changes>>
    PROVE  IInv'
<1>1. Sound(k)' /\ Same(Sem) /\ Same(Lock) /\ Same(Done)
  BY Zenon DEF IInv, Same
<1>2. ThreadType' /\ DevType' /\ HwType' /\ SemInv' /\ StepInv' /\ SaveInv'
  BY <1>1, SemKeeps, StepKeeps, SaveKeeps DEF IInv, ThreadType, DevType, HwType
<1>3. (Quiet => Quiet') /\ (Going => Going') /\ (Ended => Ended')
  BY Zenon DEF Quiet, Going, Ended, Starting, Refusing, Writing, Reading
<1>4. BusInv'
  BY Zenon, <1>1, <1>3, BusStep DEF IInv
<1>5. LatchInv'
  BY DEF IInv, LatchInv, Keeps
<1> QED BY Zenon, <1>2, <1>4, <1>5 DEF IInv

-----------------------------------------------------------------------------
(* The program starts, or starts again.                                    *)

Fresh ==
    /\ k = Kernel0 /\ pc = [t \in Threads |-> "idle"] /\ asked = [t \in Threads |-> None]
    /\ dev = Created.dev /\ hw = Created.hw /\ wire = Untouched /\ faults \in Nat
    /\ rom = [p \in Places |-> rom[p]] /\ config = [p \in Pages |-> 0]
    /\ latch = <<>> /\ step = "load" /\ page = 1 /\ buf = 0
    /\ request = FALSE /\ unsaved = FALSE /\ changes \in 0..MaxChanges

LEMMA FreshIInv == Fresh => IInv
<1> SUFFICES ASSUME Fresh PROVE IInv
  OBVIOUS
<1> USE Constants
<1>1. Sound(k)
  BY KernelStart DEF Fresh
<1>2. ThreadType
  BY Zenon DEF Fresh, ThreadType, None
<1>3. DevType
  BY DEF Fresh, DevType, Created
<1>4. HwType /\ Quiet
  <2>1. /\ hw = [stat |-> \hF8, si |-> FALSE, sta |-> FALSE, sto |-> FALSE, aa |-> FALSE]
        /\ wire = [taken |-> 0, given |-> 0, failed |-> FALSE] /\ faults \in Nat
    BY Zenon DEF Fresh, Created, Untouched
  <2> QED BY <2>1 DEF HwType, Quiet
<1>5. /\ \A s \in Semaphores : k.waiters[s] = <<>>
      /\ k.value[Lock] = 1 /\ k.value[Done] = 0 /\ k.value[Sem] = 0
  BY DEF Fresh, Kernel0
<1>6. SemInv
  BY <1>5 DEF Fresh, SemInv
<1>7. BusInv
  BY <1>4, <1>5 DEF Fresh, BusInv, Free
<1>8. StepInv
  BY DEF Fresh, StepInv, Places
<1>9. LatchInv
  BY DEF Fresh, LatchInv
<1>10. SaveInv
  BY DEF Fresh, SaveInv, Pages
<1> QED BY <1>1, <1>2, <1>3, <1>4, <1>6, <1>7, <1>8, <1>9, <1>10 DEF IInv

LEMMA InitIInv == Init => IInv
<1> SUFFICES ASSUME Init PROVE IInv
  OBVIOUS
<1>1. rom = [p \in Places |-> rom[p]]
  BY ConfigAssumption DEF Init, Places
<1>2. Fresh
  BY <1>1, Constants DEF Init, Fresh
<1> QED BY <1>2, FreshIInv

LEMMA RestartIInv ==
    ASSUME IInv, Restart
    PROVE  IInv'
<1>1. rom' = [p \in Places |-> rom'[p]]
  <2>1. rom = [p \in Places |-> rom[p]]
    BY DEF IInv, StepInv
  <2>2. rom' = rom \/ \E b \in Bytes : rom' = [rom EXCEPT ![busy] = b]
    BY Zenon DEF Restart
  <2> QED BY <2>1, <2>2
<1>2. faults' \in Nat /\ changes' \in 0..MaxChanges
  BY DEF Restart, IInv, HwType, SemInv
<1>3. Fresh'
  BY <1>1, <1>2 DEF Restart, Fresh
<1>4. Fresh' => IInv'
  BY FreshIInv, PTL
<1> QED BY <1>3, <1>4

(* The interrupt that changes the configuration.                           *)
LEMMA ChangeIInv ==
    ASSUME IInv, Change
    PROVE  IInv'
<1>1. /\ step \notin {"load", "check"} /\ changes < MaxChanges /\ changes' = changes + 1
      /\ k' = semaphore_signal(k, Sem) /\ request' = TRUE
      /\ UNCHANGED <<pc, asked, dev, hw, wire, faults, rom, latch, step, page, buf, unsaved>>
      /\ \E p \in Pages, b \in Bytes : config' = [config EXCEPT ![p] = b]
  BY DEF Change, device, thread, eeprom
<1>2. k.value[Sem] \in -128..126 /\ changes' \in 0..MaxChanges
  <2>1. changes \in 0..MaxChanges /\ (k.value[Sem] \in 0..changes \/ k.value[Sem] = -1)
    BY DEF IInv, SemInv
  <2> QED BY Zenon, <1>1, <2>1, OneMoreChange
<1>3. /\ Sound(k)' /\ k'.value[Sem] = k.value[Sem] + 1
      /\ k'.waiters[Sem] = IF k.waiters[Sem] = <<>> THEN <<>> ELSE Tail(k.waiters[Sem])
      /\ Same(Lock) /\ Same(Done)
  BY Zenon, <1>1, <1>2, Constants, SignalAt DEF IInv
<1>4. SemInv'
  <2>1. k'.waiters[Sem] = <<>>
    BY Zenon, <1>3, OneInRange DEF IInv, SemInv
  <2>2. k'.value[Sem] \in 0..changes'
    BY <1>1, <1>3 DEF IInv, SemInv
  <2> QED BY Zenon, <1>2, <2>1, <2>2 DEF SemInv
<1>5. ThreadType' /\ DevType' /\ HwType'
  BY <1>1 DEF IInv, ThreadType, DevType, HwType
<1>6. (Quiet => Quiet') /\ (Going => Going') /\ (Ended => Ended')
  BY Zenon, <1>1 DEF Quiet, Going, Ended, Starting, Refusing, Writing, Reading
<1>7. BusInv'
  BY Zenon, <1>1, <1>3, <1>6, BusStep DEF IInv
<1>8. config' = [p \in Pages |-> config'[p]]
  BY <1>1 DEF IInv, StepInv
<1>9. StepInv'
  BY Zenon, <1>1, <1>8 DEF IInv, StepInv
<1>10. LatchInv'
  BY <1>1 DEF IInv, LatchInv, Keeps
<1>11. SaveInv'
  BY Zenon, <1>1 DEF SaveInv
<1> QED BY Zenon, <1>3, <1>4, <1>5, <1>7, <1>9, <1>10, <1>11 DEF IInv

-----------------------------------------------------------------------------
(* config_load, config_save and the loop around them.                      *)

(* While the thread runs it is not in the queue of can_node.sem.           *)
LEMMA LoopRuns ==
    ASSUME Sound(k), SemInv, NEW label, At(Loop, label), Same(Sem), UNCHANGED changes
    PROVE  SemInv'
<1>1. k.waiters[Sem] = <<>> /\ k.value[Sem] \in 0..changes
  BY Zenon, AtThread, Constants DEF SemInv
<1> QED BY <1>1 DEF SemInv, Same

LEMMA LoadIInv ==
    ASSUME IInv, Load
    PROVE  IInv'
<1>1. /\ step \in {"load", "check"} /\ TransferLock(Loop, [write |-> 2, read |-> 1])
      /\ At(Loop, "idle") /\ UNCHANGED <<dev, hw, wire, faults>>
      /\ UNCHANGED <<config, rom, latch, step, page, buf, request, unsaved, changes>>
      /\ pc' = [pc EXCEPT ![Loop] = "start"]
      /\ asked' = [asked EXCEPT ![Loop] = [write |-> 2, read |-> 1]]
  BY Zenon DEF Load, TransferLock, Goto, device, thread, eeprom
<1>3. /\ Sound(k)' /\ ThreadType' /\ DevType' /\ HwType' /\ BusInv' /\ Same(Sem)
      /\ pc'[Loop] = "start" /\ asked'[Loop] = [write |-> 2, read |-> 1]
  BY Zenon, <1>1, Constants, LockSteps
<1>4. pc'[Console] = pc[Console] /\ asked'[Console] = asked[Console]
  BY <1>1, Constants
<1>5. SemInv' /\ SaveInv'
  BY Zenon, <1>1, <1>3, LoopRuns, SaveKeeps DEF IInv
<1>6. StepInv'
  BY Zenon, <1>1, <1>3, <1>4 DEF IInv, StepInv
<1>7. LatchInv'
  BY Zenon, <1>1 DEF IInv, LatchInv
<1> QED BY <1>3, <1>5, <1>6, <1>7 DEF IInv

\* What returns with TransferReturn.
LEMMA LoopReturns ==
    ASSUME IInv, TransferReturn(Loop)
    PROVE  /\ Sound(k)' /\ ThreadType' /\ DevType' /\ HwType' /\ BusInv' /\ Same(Sem)
           /\ At(Loop, "status") /\ pc[Loop] = "status" /\ pc'[Loop] = "idle"
           /\ pc'[Console] = pc[Console] /\ asked'[Console] = asked[Console]
           /\ UNCHANGED <<dev, hw, wire, faults>>
<1>1. /\ At(Loop, "status") /\ UNCHANGED <<dev, hw, wire, faults>>
      /\ pc' = [pc EXCEPT ![Loop] = "idle"] /\ asked' = [asked EXCEPT ![Loop] = None]
  BY DEF TransferReturn, Goto, device
<1>2. /\ Sound(k)' /\ ThreadType' /\ DevType' /\ HwType' /\ BusInv' /\ Same(Sem)
      /\ pc'[Loop] = "idle"
  BY Constants, ReturnStep DEF IInv
<1>3. pc'[Console] = pc[Console] /\ asked'[Console] = asked[Console]
  BY <1>1, Constants
<1> QED BY <1>1, <1>2, <1>3 DEF At

LEMMA LoadPageIInv ==
    ASSUME IInv, LoadPage
    PROVE  IInv'
<1>1. /\ step = "load" /\ TransferReturn(Loop) /\ UNCHANGED <<rom, latch, buf, request, changes>>
      /\ \/ step' = "wait" /\ page' = 1 /\ unsaved' = TRUE /\ UNCHANGED config
         \/ /\ config' = [config EXCEPT ![page] = rom[page]] /\ page' = page + 1
            /\ step' = IF page < NumPages THEN "load" ELSE "check"
  BY DEF LoadPage, eeprom
<1>2. /\ Sound(k)' /\ ThreadType' /\ DevType' /\ HwType' /\ BusInv' /\ Same(Sem)
      /\ At(Loop, "status") /\ pc'[Loop] = "idle"
      /\ pc'[Console] = pc[Console] /\ asked'[Console] = asked[Console]
  BY Zenon, <1>1, LoopReturns
<1>3. SemInv'
  BY Zenon, <1>1, <1>2, LoopRuns DEF IInv
<1>4. latch = <<>> /\ ~request /\ page \in Pages
  BY <1>1 DEF IInv, LatchInv, SaveInv, StepInv, Places, Pages
<1>5. LatchInv'
  BY <1>1, <1>4 DEF LatchInv
<1>6. config = [p \in Pages |-> config[p]]
  BY DEF IInv, StepInv
<1>7. CASE step' = "wait" /\ page' = 1 /\ unsaved' = TRUE /\ UNCHANGED config
  <2>1. StepInv'
    BY <1>1, <1>2, Constants DEF IInv, StepInv, Places
  <2>2. SaveInv'
    BY Zenon, <1>7 DEF SaveInv
  <2> QED BY Zenon, <1>2, <1>3, <1>5, <2>1, <2>2 DEF IInv
<1>8. CASE /\ config' = [config EXCEPT ![page] = rom[page]] /\ page' = page + 1
           /\ step' = IF page < NumPages THEN "load" ELSE "check"
  <2>1. /\ config' = [p \in Pages |-> config'[p]] /\ config'[page] = rom[page]
        /\ \A p \in Pages : p # page => config'[p] = config[p]
    BY <1>4, <1>6, <1>8
  <2>2. /\ page' \in Places /\ (page' <= NumPages <=> step' = "load")
        /\ step' \in {"load", "check"} /\ \A p \in Pages : p < page' => p < page \/ p = page
    BY <1>4, <1>8, Constants DEF Places, Pages
  <2>a. StepInv /\ step = "load"
    BY <1>1 DEF IInv
  <2>b. /\ rom' = rom /\ latch' = <<>> /\ pc'[Loop] = "idle"
        /\ pc'[Console] = pc[Console] /\ asked'[Console] = asked[Console]
    BY Zenon, <1>1, <1>2, <1>4
  <2>3. StepInv'
    BY <2>1, <2>2, <2>a, <2>b DEF StepInv
  <2>4. \A p \in Pages : p < page => config[p] = rom[p] /\ p # page
    BY <1>1 DEF IInv, SaveInv, Pages
  <2>5. SaveInv'
    BY <1>1, <1>4, <2>1, <2>4 DEF SaveInv
  <2> QED BY <1>2, <1>3, <1>5, <2>3, <2>5 DEF IInv
<1> QED BY Zenon, <1>1, <1>7, <1>8

LEMMA LoadChecksumIInv ==
    ASSUME IInv, LoadChecksum
    PROVE  IInv'
<1>1. /\ step = "check" /\ TransferReturn(Loop) /\ UNCHANGED <<rom, latch, buf, request, changes>>
      /\ step' = "wait" /\ page' = 1
      /\ config' = config \/ config' = defaults
      /\ ~unsaved' => config' = config /\ rom[page] = crc8_maxim(config)
  BY Zenon DEF LoadChecksum, ChecksumMatches, eeprom
<1>2. /\ Sound(k)' /\ ThreadType' /\ DevType' /\ HwType' /\ BusInv' /\ Same(Sem)
      /\ At(Loop, "status") /\ pc'[Loop] = "idle"
      /\ pc'[Console] = pc[Console] /\ asked'[Console] = asked[Console]
  BY Zenon, <1>1, LoopReturns
<1>3. SemInv'
  BY Zenon, <1>1, <1>2, LoopRuns DEF IInv
<1>4. latch = <<>> /\ page = NumPages + 1
  BY <1>1, Constants DEF IInv, LatchInv, StepInv, Places
<1>5. LatchInv'
  BY <1>1, <1>4 DEF LatchInv
<1>6. config' = [p \in Pages |-> config'[p]]
  BY Zenon, <1>1, ConfigAssumption DEF IInv, StepInv
<1>7. StepInv'
  BY <1>1, <1>2, <1>6, Constants DEF IInv, StepInv, Places
<1>8. \A p \in Places : p <= NumPages => p \in Pages /\ p < page /\ config[p] = rom[p]
  <2>1. \A p \in Places : p <= NumPages => p \in Pages /\ p < page
    <3>1. page = NumPages + 1 /\ NumPages \in Nat
      BY Zenon, <1>4, Constants
    <3> QED BY <3>1 DEF Places, Pages
  <2>2. \A p \in Pages : p < page => config[p] = rom[p]
    BY <1>1 DEF IInv, SaveInv
  <2> QED BY <2>1, <2>2
<1>9. \A p \in Places : ~(p <= NumPages) => p = page
  BY <1>4, Constants DEF Places
<1>10. SaveInv'
  BY Zenon, <1>1, <1>4, <1>8, <1>9 DEF SaveInv, Value, Keeps
<1> QED BY <1>2, <1>3, <1>5, <1>7, <1>10 DEF IInv

LEMMA LoopWaitIInv ==
    ASSUME IInv, LoopWait
    PROVE  IInv'
<1>1. /\ At(Loop, "idle") /\ step = "wait" /\ k' = semaphore_wait(k, Sem) /\ step' = "fetch"
      /\ UNCHANGED <<pc, asked, dev, hw, wire, faults>>
      /\ UNCHANGED <<config, rom, latch, page, buf, request, unsaved, changes>>
  BY Zenon DEF LoopWait, device, eeprom
<1>2. /\ k.current = Loop /\ ~k.pendsv
      /\ k.waiters[Sem] = <<>> /\ k.value[Sem] \in 0..changes
  BY Zenon, <1>1, AtThread, Constants DEF IInv, SemInv
<1>3. changes \in 0..127 /\ k.value[Sem] \in -127..127
  <2>1. MaxChanges \in Nat /\ MaxChanges <= 127
    BY Constants
  <2>2. changes \in 0..MaxChanges /\ k.value[Sem] \in 0..changes
    BY <1>2 DEF IInv, SemInv
  <2> QED BY <2>1, <2>2
<1>4. /\ Sound(k)' /\ k'.value[Sem] = k.value[Sem] - 1
      /\ k.value[Sem] >= 1 => k'.waiters[Sem] = k.waiters[Sem]
      /\ k.value[Sem] <= 0 => k'.waiters[Sem] = Append(k.waiters[Sem], Loop)
      /\ Same(Lock) /\ Same(Done)
  BY Zenon, <1>1, <1>2, <1>3, Constants, WaitAt DEF IInv
<1>5. SemInv'
  <2>1. CASE k.value[Sem] >= 1
    <3>1. k'.waiters[Sem] = <<>> /\ changes' = changes /\ changes \in 0..MaxChanges
      BY Zenon, <1>1, <1>2, <1>4, <2>1 DEF IInv, SemInv
    <3>2. \A c \in 0..127 : \A v \in 0..c : v >= 1 => v - 1 \in 0..c
      OBVIOUS
    <3>3. k'.value[Sem] \in 0..changes
      BY Zenon, <1>2, <1>3, <1>4, <2>1, <3>2
    <3> QED BY Zenon, <3>1, <3>3 DEF SemInv
  <2>2. CASE k.value[Sem] = 0
    <3>1. k'.value[Sem] = -1 /\ k'.waiters[Sem] = <<Loop>>
      BY <1>2, <1>4, <2>2
    <3> QED BY Zenon, <1>1, <3>1 DEF IInv, SemInv
  <2> QED BY <1>2, <2>1, <2>2
<1>6. ThreadType' /\ DevType' /\ HwType'
  BY <1>1 DEF IInv, ThreadType, DevType, HwType
<1>7. (Quiet => Quiet') /\ (Going => Going') /\ (Ended => Ended')
  BY Zenon, <1>1 DEF Quiet, Going, Ended, Starting, Refusing, Writing, Reading
<1>8. BusInv'
  BY Zenon, <1>1, <1>4, <1>7, BusStep DEF IInv
<1>9. StepInv' /\ LatchInv' /\ SaveInv'
  BY Zenon, <1>1 DEF IInv, StepInv, LatchInv, SaveInv, Keeps, Value
<1> QED BY <1>4, <1>5, <1>6, <1>8, <1>9 DEF IInv

LEMMA LoopFetchIInv ==
    ASSUME IInv, LoopFetch
    PROVE  IInv'
<1>1. /\ At(Loop, "idle") /\ step = "fetch" /\ step' = IF request THEN "copy" ELSE "wait"
      /\ request' = FALSE
      /\ UNCHANGED <<k, pc, asked, dev, hw, wire, faults>>
      /\ UNCHANGED <<config, rom, latch, page, buf, unsaved, changes>>
  BY Zenon DEF LoopFetch, bus, device, eeprom
<1>2. Sound(k)' /\ Same(Sem) /\ Same(Lock) /\ Same(Done)
  BY Zenon, <1>1 DEF IInv, Same
<1>3. SemInv'
  BY Zenon, <1>1, <1>2, LoopRuns DEF IInv
<1>4. ThreadType' /\ DevType' /\ HwType'
  BY <1>1 DEF IInv, ThreadType, DevType, HwType
<1>5. (Quiet => Quiet') /\ (Going => Going') /\ (Ended => Ended')
  BY Zenon, <1>1 DEF Quiet, Going, Ended, Starting, Refusing, Writing, Reading
<1>6. BusInv'
  BY Zenon, <1>1, <1>2, <1>5, BusStep DEF IInv
<1>7. StepInv' /\ LatchInv'
  BY Zenon, <1>1 DEF IInv, StepInv, LatchInv
<1>8. page = 1 /\ \A p \in Places : ~(p < 1)
  BY <1>1 DEF IInv, StepInv, Places
<1>9. SaveInv'
  BY Zenon, <1>1, <1>8 DEF IInv, SaveInv, Keeps, Value
<1> QED BY <1>2, <1>3, <1>4, <1>6, <1>7, <1>9 DEF IInv

(* SavePage and Retry: a transfer that writes buf begins.                  *)
LEMMA WriteIInv ==
    ASSUME IInv, step \in {"copy", "retry"}, TransferLock(Loop, [write |-> 3, read |-> 0]),
           step' = "write", buf' = IF step = "copy" THEN Value(page) ELSE buf,
           UNCHANGED <<config, rom, latch, page, request, unsaved, changes>>
    PROVE  IInv'
<1>1. /\ At(Loop, "idle") /\ UNCHANGED <<dev, hw, wire, faults>>
      /\ pc' = [pc EXCEPT ![Loop] = "start"]
      /\ asked' = [asked EXCEPT ![Loop] = [write |-> 3, read |-> 0]]
  BY DEF TransferLock, Goto, device
<1>3. /\ Sound(k)' /\ ThreadType' /\ DevType' /\ HwType' /\ BusInv' /\ Same(Sem)
      /\ pc'[Loop] = "start" /\ asked'[Loop] = [write |-> 3, read |-> 0]
  BY Zenon, Constants, LockSteps
<1>4. pc'[Console] = pc[Console] /\ asked'[Console] = asked[Console]
  BY <1>1, Constants
<1>5. SemInv'
  BY Zenon, <1>1, <1>3, LoopRuns DEF IInv
<1>6. StepInv'
  BY Zenon, <1>3, <1>4 DEF IInv, StepInv
<1>7. LatchInv'
  BY <1>1, <1>3 DEF IInv, LatchInv
<1>8. SaveInv'
  BY Zenon DEF IInv, SaveInv, Keeps, Value
<1> QED BY Zenon, <1>3, <1>5, <1>6, <1>7, <1>8 DEF IInv

(* A transfer of a page ends: if it was accepted, the page is saved.       *)
LEMMA SavedPageIInv ==
    ASSUME IInv, SavedPage
    PROVE  IInv'
<1>1. /\ step = "write" /\ TransferReturn(Loop)
      /\ UNCHANGED <<config, rom, latch, buf, request, changes>>
      /\ \/ step' = "retry" /\ UNCHANGED <<page, unsaved>>
         \/ /\ dev.status = "ok" /\ page <= NumPages /\ step' = "copy" /\ page' = page + 1
            /\ UNCHANGED unsaved
         \/ dev.status = "ok" /\ page > NumPages /\ step' = "wait" /\ page' = 1 /\ unsaved' = FALSE
  BY Zenon DEF SavedPage, Accepted, eeprom
<1>2. /\ Sound(k)' /\ ThreadType' /\ DevType' /\ HwType' /\ BusInv' /\ Same(Sem)
      /\ At(Loop, "status") /\ pc[Loop] = "status" /\ pc'[Loop] = "idle"
      /\ pc'[Console] = pc[Console] /\ asked'[Console] = asked[Console]
      /\ UNCHANGED <<dev, hw, wire, faults>>
  BY <1>1, LoopReturns
<1>3. SemInv'
  BY Zenon, <1>1, <1>2, LoopRuns DEF IInv
<1>4. Ended /\ dev.writeLength = 3
  BY <1>1, <1>2, AtReturn, Constants DEF IInv, StepInv
<1>5. LatchInv'
  BY Zenon, <1>1, <1>2, <1>4 DEF IInv, LatchInv, Ended, Quiet
<1>6. dev.status = "ok" => Keeps(page, buf)
  BY Zenon, <1>1, <1>2, <1>4 DEF IInv, LatchInv, Ended, Quiet
<1>7. page \in Places /\ (~request => buf = Value(page) /\ \A p \in Places : p < page => Keeps(p, Value(p)))
  BY Zenon, <1>1 DEF IInv, StepInv, SaveInv
<1>8. CASE step' = "retry" /\ UNCHANGED <<page, unsaved>>
  <2>1. StepInv'
    BY <1>1, <1>2, <1>8 DEF IInv, StepInv
  <2>2. SaveInv'
    BY Zenon, <1>1, <1>7, <1>8 DEF SaveInv, Keeps, Value
  <2> QED BY Zenon, <1>2, <1>3, <1>5, <2>1, <2>2 DEF IInv
<1>9. CASE dev.status = "ok" /\ page <= NumPages /\ step' = "copy" /\ page' = page + 1
  <2>1. page' \in Places /\ \A p \in Places : p < page' => p < page \/ p = page
    BY Zenon, <1>7, <1>9, PlaceOrder
  <2>2. StepInv'
    BY <1>1, <1>2, <2>1 DEF IInv, StepInv
  <2>3. ~request => \A p \in Places : p < page' => Keeps(p, Value(p))
    BY <1>6, <1>7, <1>9, <2>1
  <2>4. SaveInv'
    BY Zenon, <1>1, <1>9, <2>3 DEF SaveInv, Keeps, Value
  <2> QED BY Zenon, <1>2, <1>3, <1>5, <2>2, <2>4 DEF IInv
<1>10. CASE dev.status = "ok" /\ page > NumPages /\ step' = "wait" /\ page' = 1
  <2>1. 1 \in Places /\ \A p \in Places : p < page \/ p = page
    BY Zenon, <1>7, <1>10, PlaceOrder
  <2>2. StepInv'
    BY <1>1, <1>2, <1>10, <2>1 DEF IInv, StepInv
  <2>3. ~request => \A p \in Places : Keeps(p, Value(p))
    BY Zenon, <1>6, <1>7, <1>10, <2>1
  <2>4. SaveInv'
    BY Zenon, <1>1, <1>10, <2>3 DEF SaveInv, Keeps, Value
  <2> QED BY Zenon, <1>2, <1>3, <1>5, <2>2, <2>4 DEF IInv
<1> QED BY <1>1, <1>8, <1>9, <1>10

LEMMA ConsoleIInv ==
    ASSUME IInv, ConsoleStep
    PROVE  IInv'
<1>1. /\ TransferLock(Console, [write |-> 1, read |-> 2]) \/ TransferReturn(Console)
      /\ UNCHANGED <<dev, hw, wire, faults>>
      /\ UNCHANGED <<config, rom, latch, step, page, buf, request, unsaved, changes>>
      /\ \E label \in {"idle", "start"} : pc' = [pc EXCEPT ![Console] = label]
      /\ \E lengths : asked' = [asked EXCEPT ![Console] = lengths]
  BY DEF ConsoleStep, TransferLock, TransferReturn, Goto, device, Rest, thread, eeprom
<1>3. /\ Sound(k)' /\ ThreadType' /\ DevType' /\ HwType' /\ BusInv' /\ Same(Sem)
      /\ pc'[Console] # "idle" => asked'[Console] = [write |-> 1, read |-> 2]
  <2>1. Sound(k) /\ ThreadType /\ DevType /\ HwType /\ BusInv /\ Console \in Threads
    BY Zenon, Constants DEF IInv
  <2>2. CASE TransferLock(Console, [write |-> 1, read |-> 2])
    <3>1. /\ Sound(k)' /\ ThreadType' /\ DevType' /\ HwType' /\ BusInv' /\ Same(Sem)
          /\ asked'[Console] = [write |-> 1, read |-> 2]
      BY Zenon, <2>2, Constants, LockSteps
    <3> QED BY Zenon, <3>1
  <2>3. CASE TransferReturn(Console)
    BY Zenon, <2>1, <2>3, ReturnStep
  <2> QED BY Zenon, <1>1, <2>2, <2>3
<1>4. pc'[Loop] = pc[Loop] /\ asked'[Loop] = asked[Loop]
  BY <1>1, Constants
<1>5. SemInv' /\ SaveInv'
  BY Zenon, <1>1, <1>3, SemKeeps, SaveKeeps DEF IInv
<1>6. StepInv'
  BY Zenon, <1>1, <1>3, <1>4 DEF IInv, StepInv
<1>7. LatchInv'
  BY <1>1 DEF IInv, LatchInv, Keeps
<1> QED BY Zenon, <1>3, <1>5, <1>6, <1>7 DEF IInv

LEMMA TransferIInv ==
    ASSUME IInv, NEW t \in Threads, TransferStep(t)
    PROVE  IInv'
<1>1. /\ TransferStart(t) \/ TransferWait(t)
      /\ UNCHANGED <<config, rom, latch, step, page, buf, request, unsaved, changes>>
  BY DEF TransferStep, Rest, thread, eeprom
<1>2. /\ pc' = [pc EXCEPT ![t] = pc'[t]] /\ pc'[t] \in {"wait", "status"} /\ UNCHANGED asked
      /\ pc[t] \in {"start", "wait"} /\ wire' = wire
  BY <1>1 DEF TransferStart, TransferWait, Goto, At, device, IInv, ThreadType
<1>3. /\ Sound(k)' /\ ThreadType' /\ DevType' /\ HwType' /\ BusInv' /\ Same(Sem)
  BY Zenon, <1>1, StartStep, WaitStep DEF IInv, Same
<1>4. SemInv' /\ SaveInv'
  BY <1>1, <1>3, SemKeeps, SaveKeeps DEF IInv
<1>5. \A u \in Threads : (pc'[u] = "idle") <=> (pc[u] = "idle")
  BY Zenon, <1>2 DEF IInv, ThreadType
<1>6. StepInv'
  BY <1>1, <1>2, <1>5, Constants DEF IInv, StepInv
<1>7. LatchInv'
  <2>1. CASE TransferStart(t)
    <3>1. ~hw.si /\ ~hw'.si /\ hw'.sta
      BY <2>1, StartStep DEF IInv
    <3>2. hw'.sto = hw.sto
      BY <2>1 DEF TransferStart
    <3> QED BY Zenon, <1>1, <3>1, <3>2 DEF IInv, LatchInv
  <2>2. CASE TransferWait(t)
    <3>1. /\ UNCHANGED <<dev, hw, wire>> /\ pc[t] = "wait" /\ pc' = [pc EXCEPT ![t] = "status"]
      BY <2>2 DEF TransferWait, Goto, At, device
    <3> QED BY <1>1, <3>1 DEF IInv, LatchInv, Keeps
  <2> QED BY <1>1, <2>1, <2>2
<1> QED BY <1>3, <1>4, <1>6, <1>7 DEF IInv

-----------------------------------------------------------------------------

LEMMA NextIInv == IInv /\ [Next]_vars => IInv'
<1> SUFFICES ASSUME IInv, [Next]_vars PROVE IInv'
  OBVIOUS
<1>1. CASE BusMoves
  <2>1. faults' \in Nat \/ ~ByteLost
    BY DEF ByteLost, IInv, HwType
  <2> QED BY <1>1, <2>1, StartIInv, RefusalIInv, ByteIInv DEF BusMoves, ByteLost
<1>2. CASE Busy
  <2>1. faults' \in Nat
    BY <1>2 DEF Busy, IInv, HwType
  <2> QED BY <1>2, <2>1, RefusalIInv DEF Busy
<1>3. CASE Program
  BY <1>3, ProgramIInv
<1>4. CASE Interrupt
  BY <1>4, InterruptIInv
<1>5. CASE PendSV
  BY <1>5, PendSVIInv
<1>6. CASE Restart
  BY <1>6, RestartIInv
<1>7. CASE Change
  BY <1>7, ChangeIInv
<1>8. CASE IdleLoop \/ Ready \/ UNCHANGED vars
  <2>1. UNCHANGED <<k, pc, asked, dev, hw, wire, faults, config, rom, latch,
                    step, page, buf, request, unsaved, changes>>
    BY <1>8 DEF IdleLoop, Ready, Rest, vars, bus, device, eeprom, thread
  <2> QED BY Zenon, <2>1, StutterIInv
<1>9. CASE ThreadStep
  <2>1. CASE SavePage \/ Retry
    <3>1. /\ step \in {"copy", "retry"} /\ TransferLock(Loop, [write |-> 3, read |-> 0])
          /\ step' = "write" /\ buf' = IF step = "copy" THEN Value(page) ELSE buf
          /\ UNCHANGED <<config, rom, latch, page, request, unsaved, changes>>
      BY <2>1 DEF SavePage, Retry, Value, eeprom
    <3> QED BY Zenon, <3>1, WriteIInv
  <2>2. CASE Load \/ LoadPage \/ LoadChecksum \/ LoopWait \/ LoopFetch \/ SavedPage
    BY <2>2, LoadIInv, LoadPageIInv, LoadChecksumIInv, LoopWaitIInv, LoopFetchIInv,
       SavedPageIInv
  <2>3. CASE ConsoleStep
    BY <2>3, ConsoleIInv
  <2>4. CASE \E t \in Threads : TransferStep(t)
    BY <2>4, TransferIInv
  <2> QED BY Zenon, <1>9, <2>1, <2>2, <2>3, <2>4 DEF ThreadStep, LoopStep
<1> QED BY <1>1, <1>2, <1>3, <1>4, <1>5, <1>6, <1>7, <1>8, <1>9 DEF Next, Bus

LEMMA Invariance == Spec => []IInv
BY InitIInv, NextIInv, PTL DEF Spec

-----------------------------------------------------------------------------

(* i2c_dev_transfer returns the status of its own transfer, and returns    *)
(* STATUS_OK exactly if every byte was taken and given, whatever the bus   *)
(* loses, whoever else uses it, and whenever the program is reset.         *)
THEOREM StatusCorrect == Spec => []StatusTrue
<1>1. IInv => StatusTrue
  <2> SUFFICES ASSUME IInv, NEW t \in Threads, At(t, "status")
               PROVE  /\ dev.owner = t
                      /\ (dev.status = "ok") <=>
                            /\ ~wire.failed
                            /\ wire.taken = asked[t].write /\ wire.given = asked[t].read
    BY Zenon DEF StatusTrue
  <2> QED BY Zenon, AtReturn DEF IInv, Ended
<1> QED BY <1>1, Invariance, PTL

(* i2c_dev_isr stores no byte behind the buffer it was given, and works on *)
(* no transfer whose caller has returned.                                  *)
THEOREM BuffersSafe == Spec => []BuffersHeld
<1>1. IInv => BuffersHeld
  <2> SUFFICES ASSUME IInv, hw.si
               PROVE  /\ pc[dev.owner] \in {"wait", "status"}
                      /\ hw.stat \in {\h50, \h58} => dev.readIndex < dev.readLength
    BY Zenon DEF BuffersHeld
  <2>1. pc[dev.owner] \in {"wait", "status"} /\ Going
    BY IsrOwner DEF IInv
  <2>2. dev.readIndex \in Nat /\ dev.readLength \in Nat /\ wire.given \in Nat
    BY DEF IInv, DevType, HwType
  <2>3. hw.stat \in {\h50, \h58} => dev.readIndex < dev.readLength
    <3>1. hw.stat \in {\h50, \h58} =>
             wire.given = dev.readIndex + 1 /\ (wire.given < dev.readLength \/ wire.given = dev.readLength)
      BY <2>1, ByteCame
    <3> QED BY <2>2, <3>1
  <2> QED BY Zenon, <2>1, <2>3
<1> QED BY <1>1, Invariance, PTL

(* When nothing is left to save the EEPROM holds the configuration and its *)
(* checksum, wherever in config_save the interrupt changed it and whatever *)
(* was lost on the bus.                                                    *)
THEOREM SavedCorrectly == Spec => []SavedAtRest
<1>1. IInv => SavedAtRest
  <2> SUFFICES ASSUME IInv, step \in {"wait", "fetch"}, ~request, ~unsaved, latch = <<>>
               PROVE  rom = Append(config, crc8_maxim(config))
    BY Zenon DEF SavedAtRest
  <2>1. \A p \in Places : rom[p] = Value(p)
    BY DEF IInv, SaveInv, Keeps
  <2>2. PICK c : c = crc8_maxim(config)
    OBVIOUS
  <2>3. /\ config = [p \in 1..NumPages |-> config[p]]
        /\ rom = [p \in 1..NumPages + 1 |-> rom[p]] /\ NumPages \in Nat
    BY Zenon, Constants DEF IInv, StepInv, Places, Pages
  <2>4. \A p \in 1..NumPages + 1 : rom[p] = IF p <= NumPages THEN config[p] ELSE c
    BY Zenon, <2>1, <2>2 DEF Value, Places
  <2>6. rom = Append(config, c)
    BY <2>3, <2>4
  <2> QED BY <2>2, <2>6
<1> QED BY <1>1, Invariance, PTL
==============================================================================
