-------------------------------- MODULE Config -------------------------------
(***************************************************************************)
(* lib/config/config.c on device/24xx64/24xx64.c and the bus of I2c: the   *)
(* thread of can_node_loop loads the configuration and saves it page by    *)
(* page and then its checksum, while an interrupt changes the              *)
(* configuration and asks for it to be saved, and another thread reads a   *)
(* sensor on the same bus.  The EEPROM does not answer while it programs a *)
(* page; the program may be reset, or lose its power, at any point, and    *)
(* then loads what it finds.                                               *)
(*                                                                         *)
(* A page holds one byte (kPageSize bytes in the code).                    *)
(***************************************************************************)
EXTENDS I2c, Crc8

CONSTANTS Loop, Console,    \* the threads
          Sem,              \* can_node.sem
          NumPages,         \* sizeof(config), in pages
          Bytes,            \* the values of a page
          Stored,           \* what the EEPROM may hold when the program starts
          defaults,         \* the configuration that config_load_defaults makes
          MaxChanges        \* bound: changes to the configuration

Pages == 1..NumPages

ASSUME ConfigAssumption ==
    /\ Threads = {Loop, Console} /\ Loop # Console
    /\ Semaphores = {Lock, Done, Sem} /\ Sem \notin {Lock, Done}
    /\ NumPages \in Nat \ {0} /\ MaxChanges \in 0..127 \* the range of an int8_t
    /\ defaults \in [Pages -> Bytes] /\ Stored \subseteq [1..NumPages + 1 -> 0..255]

VARIABLES config,       \* the configuration in memory
          rom,          \* the EEPROM: the pages and, last, the checksum
          latch,        \* the page and byte it has received, or <<>>
          busy,         \* the page it is programming, or 0
          step,         \* where the thread is
          page, buf,    \* mcp24xx64_write's and mcp24xx64_read's locals
          request,      \* a save is requested
          unsaved,      \* config_load did not find this configuration intact
          seen,         \* history: the configurations there were in memory
          changes

bus == <<k, pc, asked, device>>
eeprom == <<rom, latch, busy>>
thread == <<step, page, buf>>
vars == <<bus, config, eeprom, thread, request, unsaved, seen, changes>>

(* firmware_main's thread goes on with config_load, a console was spawned. *)
Kernel0 ==
    [state   |-> [t \in Threads \cup {Idle} |-> IF t = Idle THEN "stopped" ELSE "running"],
     queue   |-> <<Loop, Console>>, current |-> Loop, pendsv |-> FALSE,
     value   |-> [s \in Semaphores |-> IF s = Lock THEN 1 ELSE 0],
     waiters |-> [s \in Semaphores |-> <<>>]]

(* The program starts with an EEPROM that was saved before, or was not.    *)
Init ==
    /\ k = Kernel0 /\ pc = [t \in Threads |-> "idle"] /\ asked = [t \in Threads |-> None]
    /\ dev = Created.dev /\ hw = Created.hw /\ wire = Untouched /\ faults = 0
    /\ rom \in Stored
    /\ seen = {c \in [Pages -> Bytes] : rom = Append(c, crc8_maxim(c))}
    /\ config = [p \in Pages |-> 0]
    /\ latch = <<>> /\ busy = 0 /\ step = "load" /\ page = 1 /\ buf = 0
    /\ request = FALSE /\ unsaved = FALSE /\ changes = 0

-----------------------------------------------------------------------------

PendSV ==
    /\ k.pendsv /\ k' = schedule(k)
    /\ UNCHANGED <<pc, asked, device, config, eeprom, thread, request, unsaved, seen, changes>>

IdleLoop == k.current = Idle /\ ~k.pendsv /\ UNCHANGED vars

Rest == UNCHANGED <<config, thread, request, unsaved, seen, changes>>

(* The EEPROM (external) takes an address and a byte, and programs the     *)
(* page when the transfer is stopped.                                      *)
Receives == dev.owner = Loop /\ dev.writeLength = 3 /\ wire'.taken = 3 /\ wire.taken < 3

BusMoves ==
    /\ \/ StartCondition /\ UNCHANGED eeprom
       \/ ByteLost /\ UNCHANGED eeprom
       \/ /\ ByteMoves
          /\ ~(hw.stat = \h08 /\ dev.owner = Loop /\ busy # 0)
          /\ latch' = IF Receives THEN <<page, buf>> ELSE latch
          /\ UNCHANGED <<rom, busy>>
    /\ Rest

(* A busy EEPROM does not acknowledge its address.                         *)
Busy ==
    /\ hw.stat = \h08 /\ dev.owner = Loop /\ busy # 0
    /\ NotAcknowledged /\ UNCHANGED faults
    /\ UNCHANGED eeprom /\ Rest

Program ==
    /\ StopCondition
    /\ IF latch = <<>> THEN UNCHANGED eeprom
       ELSE rom' = [rom EXCEPT ![latch[1]] = latch[2]] /\ busy' = latch[1] /\ latch' = <<>>
    /\ Rest

Ready ==
    /\ busy # 0 /\ busy' = 0
    /\ UNCHANGED <<bus, rom, latch>> /\ Rest

Interrupt == i2c_dev_isr /\ UNCHANGED eeprom /\ Rest

(* A reset of the processor; config is zero again.  If the power fails,    *)
(* the page being programmed is left with any value.                       *)
Restart ==
    /\ faults < MaxFaults /\ faults' = faults + 1
    /\ \/ UNCHANGED <<rom, busy>>
       \/ /\ busy # 0 /\ busy' = 0
          /\ \E b \in Bytes : rom' = [rom EXCEPT ![busy] = b]
    /\ k' = Kernel0 /\ pc' = [t \in Threads |-> "idle"] /\ asked' = [t \in Threads |-> None]
    /\ dev' = Created.dev /\ hw' = Created.hw /\ wire' = Untouched /\ latch' = <<>>
    /\ config' = [p \in Pages |-> 0]
    /\ step' = "load" /\ page' = 1 /\ buf' = 0 /\ request' = FALSE /\ unsaved' = FALSE
    /\ UNCHANGED <<seen, changes>>

(* An interrupt changes a byte of the configuration and asks for a save.   *)
Change ==
    /\ step \notin {"load", "check"} /\ ~k.pendsv /\ changes < MaxChanges
    /\ \E p \in Pages, b \in Bytes :
          config[p] # b /\ config' = [config EXCEPT ![p] = b]
    /\ k' = semaphore_signal(k, Sem)
    /\ request' = TRUE /\ changes' = changes + 1 /\ seen' = seen \cup {config'}
    /\ UNCHANGED <<pc, asked, device, eeprom, thread, unsaved>>

-----------------------------------------------------------------------------
(* config_load and config_save, in the thread of can_node_loop.            *)

(* mcp24xx64_read: two bytes of address, then the page is read.            *)
Load ==
    /\ step \in {"load", "check"}
    /\ TransferLock(Loop, [write |-> 2, read |-> 1])
    /\ UNCHANGED <<config, eeprom, thread, request, unsaved, seen, changes>>

(* The pages are read one by one.  When a transfer fails config_load       *)
(* returns, and config is left as it is.                                   *)
LoadPage ==
    /\ step = "load" /\ TransferReturn(Loop)
    /\ IF dev.status # "ok"
       THEN step' = "wait" /\ page' = 1 /\ unsaved' = TRUE /\ UNCHANGED config
       ELSE /\ config' = [config EXCEPT ![page] = rom[page]]
            /\ page' = page + 1
            /\ step' = IF page < NumPages THEN "load" ELSE "check"
            /\ UNCHANGED unsaved
    /\ UNCHANGED <<eeprom, buf, request, seen, changes>>

\* A faulty config_load: what was read is taken without its checksum.
ChecksumMatches_unread(actual) == TRUE

ChecksumMatches(actual) == actual = crc8_maxim(config)

(* The checksum decides if what was read is taken.  The status of its read *)
(* is not looked at: crc_actual is then uninitialised.                     *)
LoadChecksum ==
    /\ step = "check" /\ TransferReturn(Loop)
    /\ step' = "wait" /\ page' = 1
    /\ \E crc_actual \in IF dev.status = "ok" THEN {rom[page]} ELSE {crc8_maxim(config), -1} :
          /\ config' = IF ChecksumMatches(crc_actual) THEN config ELSE defaults
          /\ unsaved' = (dev.status # "ok" \/ ~ChecksumMatches(crc_actual))
    /\ seen' = IF unsaved' THEN seen \cup {config'} ELSE seen
    /\ UNCHANGED <<eeprom, buf, request, changes>>

LoopWait ==
    /\ At(Loop, "idle") /\ step = "wait"
    /\ k' = semaphore_wait(k, Sem) /\ step' = "fetch"
    /\ UNCHANGED <<pc, asked, device, config, eeprom, page, buf, request, unsaved, seen, changes>>

LoopFetch ==
    /\ At(Loop, "idle") /\ step = "fetch"
    /\ step' = IF request THEN "copy" ELSE "wait"
    /\ request' = FALSE
    /\ UNCHANGED <<bus, config, eeprom, page, buf, unsaved, seen, changes>>

(* mcp24xx64_write copies a page or, after the last, config_save takes the *)
(* checksum of config as it is by now; a transfer of three bytes.          *)
SavePage ==
    /\ step = "copy"
    /\ TransferLock(Loop, [write |-> 3, read |-> 0])
    /\ buf' = IF page <= NumPages THEN config[page] ELSE crc8_maxim(config)
    /\ step' = "write"
    /\ UNCHANGED <<config, eeprom, page, request, unsaved, seen, changes>>

(* The transfer is repeated over and over while the EEPROM is busy.        *)
Retry ==
    /\ step = "retry"
    /\ TransferLock(Loop, [write |-> 3, read |-> 0])
    /\ step' = "write"
    /\ UNCHANGED <<config, eeprom, page, buf, request, unsaved, seen, changes>>

\* A faulty mcp24xx64_write: it goes on after a transfer that failed.
Accepted_always == TRUE

Accepted == dev.status = "ok"

\* A faulty mcp24xx64_write: it repeats what the EEPROM has accepted.
SavedPage_again ==
    /\ step = "write" /\ TransferReturn(Loop)
    /\ step' = "retry"
    /\ UNCHANGED <<config, eeprom, page, buf, request, unsaved, seen, changes>>

SavedPage ==
    /\ step = "write" /\ TransferReturn(Loop)
    /\ \/ ~Accepted /\ step' = "retry" /\ UNCHANGED <<page, unsaved>>
       \/ Accepted /\ page <= NumPages /\ step' = "copy" /\ page' = page + 1 /\ UNCHANGED unsaved
       \/ Accepted /\ page > NumPages /\ step' = "wait" /\ page' = 1 /\ unsaved' = FALSE
    /\ UNCHANGED <<config, eeprom, buf, request, seen, changes>>

LoopStep ==
    \/ Load \/ LoadPage \/ LoadChecksum \/ LoopWait \/ LoopFetch
    \/ SavePage \/ Retry \/ SavedPage

(* sht2x_get_temp in another thread (with two bytes to read).              *)
ConsoleStep ==
    /\ TransferLock(Console, [write |-> 1, read |-> 2]) \/ TransferReturn(Console)
    /\ UNCHANGED eeprom /\ Rest

TransferStep(t) ==
    /\ TransferStart(t) \/ TransferWait(t)
    /\ UNCHANGED eeprom /\ Rest

ThreadStep == LoopStep \/ ConsoleStep \/ \E t \in Threads : TransferStep(t)

Bus == BusMoves \/ Busy \/ Program

Next == PendSV \/ IdleLoop \/ Bus \/ Ready \/ Interrupt \/ Restart \/ Change \/ ThreadStep

Spec == Init /\ [][Next]_vars

(* Weak fairness of Bus, Ready, Interrupt, PendSV and ThreadStep: each     *)
(* conjunct is infinitely often disabled or infinitely often taken (the    *)
(* first four end what enables them).  The bus and the EEPROM go on,       *)
(* exceptions are served, and the processor executes the thread that runs. *)
(* The console waits for input now and then, and does not run meanwhile.   *)
FairSpec ==
    /\ Spec
    /\ []<>(hw.si \/ (~hw.sto /\ ~hw.sta /\ hw.stat = \hF8))
    /\ []<>(busy = 0) /\ []<>(~hw.si) /\ []<>(~k.pendsv)
    /\ []<>(k.pendsv \/ k.current = Idle) \/ []<><<ThreadStep>>_vars
    /\ []<>(k.current # Console)

-----------------------------------------------------------------------------

(* When there is nothing left to save, the EEPROM holds the configuration  *)
(* in memory under the right checksum, whenever the interrupt changed it   *)
(* during config_save and whatever was lost on the bus: the next start     *)
(* will find it.  The exception is a configuration that config_load could  *)
(* not read or replaced by the defaults, until it is saved.                *)
SavedAtRest ==
    step \in {"wait", "fetch"} /\ ~request /\ ~unsaved /\ latch = <<>>
        => rom = Append(config, crc8_maxim(config))

(* config_load never takes a configuration that is part of one and part of *)
(* another, although the power may fail between any two pages of a save:   *)
(* what it takes was the configuration once.  (If the checksum itself      *)
(* cannot be read, the code compares with an uninitialised byte.)          *)
NoTornConfig ==
    [][LoadChecksum /\ dev.status = "ok" => config' \in seen \cup {defaults}]_vars

(* config_save ends, although mcp24xx64_write repeats a transfer until the *)
(* EEPROM accepts it and shares the bus with another thread; only a        *)
(* restart can keep it from ending.                                        *)
SaveEnds == request ~> (step \in {"wait", "fetch"} /\ ~request) \/ step = "load"

\* The exponents of x with coefficient 1 in the polynomial the data stands for
Exponents(s) ==
    UNION {{8 * (Len(s) - i) + b : b \in {b \in 0..7 : (s[i] \div 2^b) % 2 = 1}} :
               i \in DOMAIN s}

SymmetricDifference(S, T) == (S \ T) \cup (T \ S)

\* The remainder of a polynomial of degree at most top modulo x^8 + x^5 + x^4 + 1
RemainderFrom(P, top) ==
    LET rest[d \in 8..(top + 1)] ==
            IF d = top + 1 THEN P
            ELSE LET Q == rest[d + 1]
                 IN  IF d \in Q THEN SymmetricDifference(Q, {d, d - 3, d - 4, d - 8}) ELSE Q
    IN  rest[8]

(* The checksum config_save takes is the remainder of the configuration,   *)
(* shifted by eight bits, modulo the polynomial x^8 + x^5 + x^4 + 1 that   *)
(* 0x31 stands for.                                                        *)
CrcIsRemainder ==
    step = "copy" /\ page > NumPages =>
        Exponents(<<crc8_maxim(config)>>) =
            RemainderFrom({e + 8 : e \in Exponents(config)}, 8 * NumPages + 7)
==============================================================================
