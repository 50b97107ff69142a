--------------------------------- MODULE I2c ---------------------------------
(***************************************************************************)
(* platform/lpc11xx/i2c.c: i2c_dev_transfer called by several threads, and *)
(* the interrupt that drives the transfer by the controller's status.  A   *)
(* device on the bus may refuse its address or a byte, and the bus may     *)
(* fail at any point.  Config has the threads and the devices.             *)
(*                                                                         *)
(* Only threads signal the lock and only the interrupt signals done, so    *)
(* semaphore_signal is one step (Threading.tla).                           *)
(***************************************************************************)
EXTENDS Kernel

CONSTANTS Lock, Done,           \* dev->lock, dev->done
          MaxFaults             \* bound: bytes that are lost on the bus, and restarts

ASSUME I2cAssumption == {Lock, Done} \subseteq Semaphores /\ Lock # Done /\ MaxFaults \in Nat

VARIABLES k,            \* the kernel's state (Kernel.tla)
          pc,           \* where each thread is in i2c_dev_transfer
          asked,        \* ... and the lengths it was called with
          dev,          \* struct i2c_dev
          hw,           \* the controller: STAT, SI, STA, STO and AA
          wire,         \* what the device has taken and given in this transfer
          faults

device == <<dev, hw, wire, faults>>

None == [write |-> 0, read |-> 0]
Untouched == [taken |-> 0, given |-> 0, failed |-> FALSE]

(* i2c_dev_create.                                                         *)
Created ==
    [dev |-> [owner |-> Idle, status |-> "ok", writeLength |-> 0, readLength |-> 0,
              writeIndex |-> 0, readIndex |-> 0],
     hw  |-> [stat |-> \hF8, si |-> FALSE, sta |-> FALSE, sto |-> FALSE, aa |-> FALSE]]

At(t, label) == k.current = t /\ ~k.pendsv /\ pc[t] = label

Goto(t, label) == pc' = [pc EXCEPT ![t] = label]

-----------------------------------------------------------------------------

(* The controller and the devices (external).  A stop is sent before a     *)
(* start; otherwise what comes next follows from the last status.          *)
StopCondition ==
    /\ ~hw.si /\ hw.sto
    /\ hw' = [hw EXCEPT !.sto = FALSE, !.stat = \hF8]
    /\ UNCHANGED <<k, pc, asked, dev, wire, faults>>

Report(stat) == hw' = [hw EXCEPT !.stat = stat, !.si = TRUE]

StartCondition ==
    /\ ~hw.si /\ ~hw.sto /\ hw.sta
    /\ IF hw.stat = \hF8
       THEN Report(\h08) /\ wire' = Untouched
       ELSE Report(\h10) /\ UNCHANGED wire
    /\ UNCHANGED <<k, pc, asked, dev, faults>>

OnTheBus == ~hw.si /\ ~hw.sto /\ ~hw.sta /\ hw.stat # \hF8

ByteMoves ==
    /\ OnTheBus
    /\ \/ hw.stat = \h08 /\ Report(\h18) /\ UNCHANGED wire
       \/ hw.stat = \h10 /\ Report(\h40) /\ UNCHANGED wire
       \/ hw.stat \in {\h18, \h28} /\ Report(\h28) /\ wire' = [wire EXCEPT !.taken = @ + 1]
       \/ /\ hw.stat \in {\h40, \h50} /\ Report(IF hw.aa THEN \h50 ELSE \h58)
          /\ wire' = [wire EXCEPT !.given = @ + 1]
    /\ UNCHANGED <<k, pc, asked, dev, faults>>

\* The device does not acknowledge what it is sent.
NotAcknowledged ==
    /\ OnTheBus
    /\ \/ hw.stat = \h08 /\ Report(\h20)
       \/ hw.stat = \h10 /\ Report(\h48)
       \/ hw.stat \in {\h18, \h28} /\ Report(\h30)
    /\ wire' = [wire EXCEPT !.failed = TRUE]
    /\ UNCHANGED <<k, pc, asked, dev>>

BusError ==
    /\ OnTheBus /\ Report(\h00)
    /\ wire' = [wire EXCEPT !.failed = TRUE]
    /\ UNCHANGED <<k, pc, asked, dev>>

ByteLost ==
    /\ faults < MaxFaults /\ faults' = faults + 1
    /\ NotAcknowledged \/ BusError

-----------------------------------------------------------------------------

\* The interrupt ends the transfer with a status.
Finish(status) ==
    /\ dev' = [dev EXCEPT !.status = status]
    /\ k' = semaphore_signal(k, Done)

SendNextByte ==
    /\ dev.writeIndex < dev.writeLength
    /\ dev' = [dev EXCEPT !.writeIndex = @ + 1]

\* A faulty Acknowledge: the last byte is acknowledged too.
Acknowledge_all(index) == index < dev.readLength

\* The next byte is acknowledged unless it is the last one.
Acknowledge(index) == index + 1 < dev.readLength

(* i2c_dev_isr, case by case.                                              *)
Started ==
    /\ hw.stat = \h08
    /\ dev' = [dev EXCEPT !.writeIndex = 0]
    /\ hw' = [hw EXCEPT !.si = FALSE, !.sta = FALSE]
    /\ UNCHANGED k

StartedAgain ==
    /\ hw.stat = \h10
    /\ dev' = [dev EXCEPT !.readIndex = 0]
    /\ hw' = [hw EXCEPT !.si = FALSE, !.sta = FALSE]
    /\ UNCHANGED k

(* Nothing to write is not the end of the transfer: nobody is woken.       *)
AddressTaken ==
    /\ hw.stat = \h18
    /\ IF dev.writeIndex < dev.writeLength
       THEN SendNextByte /\ hw' = [hw EXCEPT !.si = FALSE]
       ELSE hw' = [hw EXCEPT !.si = FALSE, !.sto = TRUE] /\ UNCHANGED dev
    /\ UNCHANGED k

ByteTaken ==
    /\ hw.stat = \h28
    /\ \/ SendNextByte /\ hw' = [hw EXCEPT !.si = FALSE] /\ UNCHANGED k
       \/ /\ dev.writeIndex >= dev.writeLength /\ dev.readLength > 0
          /\ hw' = [hw EXCEPT !.si = FALSE, !.sta = TRUE] /\ UNCHANGED <<k, dev>>
       \/ /\ dev.writeIndex >= dev.writeLength /\ dev.readLength = 0
          /\ hw' = [hw EXCEPT !.si = FALSE, !.sto = TRUE] /\ Finish("ok")

ReadAddressTaken ==
    /\ hw.stat = \h40
    /\ hw' = [hw EXCEPT !.si = FALSE, !.aa = Acknowledge(dev.readIndex)]
    /\ UNCHANGED <<k, dev>>

ByteGiven ==
    /\ hw.stat = \h50
    /\ dev' = [dev EXCEPT !.readIndex = @ + 1]
    /\ hw' = [hw EXCEPT !.si = FALSE, !.aa = Acknowledge(dev.readIndex + 1)]
    /\ UNCHANGED k

LastByteGiven ==
    /\ hw.stat = \h58
    /\ dev' = [dev EXCEPT !.readIndex = @ + 1, !.status = "ok"]
    /\ k' = semaphore_signal(k, Done)
    /\ hw' = [hw EXCEPT !.si = FALSE, !.sto = TRUE]

\* A faulty interrupt: an error leaves the status alone.
Refused_keeps_status ==
    /\ hw.stat \in {\h20, \h48, \h30, \h00}
    /\ hw' = [hw EXCEPT !.si = FALSE, !.sto = TRUE]
    /\ k' = semaphore_signal(k, Done)
    /\ UNCHANGED dev

\* A faulty interrupt: nobody is woken when the device refuses its address.
Refused_silently ==
    /\ hw.stat \in {\h20, \h48, \h30, \h00}
    /\ hw' = [hw EXCEPT !.si = FALSE, !.sto = TRUE]
    /\ dev' = [dev EXCEPT !.status = "err"]
    /\ UNCHANGED k

(* Not acknowledged, or a status the driver does not expect.               *)
Refused ==
    /\ hw.stat \in {\h20, \h48, \h30, \h00}
    /\ hw' = [hw EXCEPT !.si = FALSE, !.sto = TRUE]
    /\ Finish("err")

i2c_dev_isr ==
    /\ hw.si /\ ~k.pendsv
    /\ \/ Started \/ StartedAgain \/ AddressTaken \/ ByteTaken
       \/ ReadAddressTaken \/ ByteGiven \/ LastByteGiven \/ Refused
    /\ UNCHANGED <<pc, asked, wire, faults>>

-----------------------------------------------------------------------------

(* i2c_dev_transfer, of a number of bytes to write and to read.            *)
TransferLock(t, lengths) ==
    /\ At(t, "idle")
    /\ k' = semaphore_wait(k, Lock)
    /\ Goto(t, "start")
    /\ asked' = [asked EXCEPT ![t] = lengths]
    /\ UNCHANGED device

(* The transfer is configured and started: no interrupt is due before.     *)
TransferStart(t) ==
    /\ At(t, "start")
    /\ dev' = [dev EXCEPT !.owner = t, !.writeLength = asked[t].write,
                          !.readLength = asked[t].read]
    /\ hw' = [hw EXCEPT !.sta = TRUE]
    /\ Goto(t, "wait")
    /\ UNCHANGED <<k, asked, wire, faults>>

TransferWait(t) ==
    /\ At(t, "wait")
    /\ k' = semaphore_wait(k, Done)
    /\ Goto(t, "status")
    /\ UNCHANGED <<asked, device>>

(* It returns dev.status.                                                  *)
TransferReturn(t) ==
    /\ At(t, "status")
    /\ k' = semaphore_signal(k, Lock)
    /\ Goto(t, "idle")
    /\ asked' = [asked EXCEPT ![t] = None]
    /\ UNCHANGED device

-----------------------------------------------------------------------------

(* The status i2c_dev_transfer returns is its own transfer's, and it is    *)
(* right: STATUS_OK exactly if the device took every byte to be written    *)
(* and gave every byte to be read.                                         *)
StatusTrue ==
    \A t \in Threads :
        At(t, "status") =>
            /\ dev.owner = t
            /\ (dev.status = "ok") <=>
                  /\ ~wire.failed
                  /\ wire.taken = asked[t].write /\ wire.given = asked[t].read

(* The interrupt stores no byte behind the end of the caller's buffer, and *)
(* never works on the buffers after i2c_dev_transfer has returned (they    *)
(* are on the caller's stack).                                             *)
BuffersHeld ==
    hw.si =>
        /\ pc[dev.owner] \in {"wait", "status"}
        /\ hw.stat \in {\h50, \h58} => dev.readIndex < dev.readLength

(* Every transfer ends, successfully or not, whatever the device does, and *)
(* every thread that wants the bus gets it.  This takes transfers that     *)
(* write at least one byte, as all those in the repository do: an empty    *)
(* one is stopped without waking its caller (AddressTaken).                *)
TransferReturns == \A t \in Threads : pc[t] = "start" ~> pc[t] = "idle"
==============================================================================
