# A TLA+ model of TheFirmware

TheFirmware is a small operating system for Cortex-M0 microcontrollers (lpc11xx, samd20)
with drivers and applications for CAN sensor nodes, and an instruction-set simulator in
which its unit tests run. These modules model its kernel, its drivers for CAN and I2C with
what is built on them, its start, and the simulator. Interrupts run between any two steps
of a thread. TLC checks the models on small instances. TLAPS proves most of their safety
properties without the small bounds: the threading core and the CAN driver for up to 126
threads, the CAN node for any number of outputs and sources, I2C and the saved configuration
for any number of pages, the start for every table of hooks and every set of drivers, the run
of the unit tests for any number of tests, and the arithmetic of the simulator for words of
every size.

## The system

| part | state | operations that change it | modelled in |
|---|---|---|---|
| scheduler (`core/scheduler.c`) | `current_thread`, `running_queue`, PendSV pending | `schedule`, `scheduler_thread_changed_state`, `delay`, `delay_handler` | Kernel, Threading, Delay |
| threads (`core/thread.c`) | `thread->state` | `thread_block`, `thread_wakeup` | Kernel, Threading, Delay |
| semaphores (`core/semaphore.c`) | `value` (an `int8_t`), `queue` | `semaphore_wait`, `semaphore_signal` | Kernel, Threading, CanDriver |
| lists (`core/list.c`) | `next`, `prev`, `head` | append, delete, insert before, rotate | LinkedList, ListSpec, Lists |
| heap (`core/malloc.c`) | the free list | `malloc`, `free`, `malloc_raw`, `free_raw` | Malloc |
| managed timer (`core/timer.c`) | timeouts, each relative to the one before | schedule, cancel, the SysTick handler | ManagedTimer, Delay |
| SysTick (`arch/arm-m/systick.c`) | LOAD, VAL, enabled, pending | set, disable, count, interrupt | ManagedTimer, Delay |
| exceptions (`arch/arm-m/arch.c`) and interrupt table (`platform/irq.c`) | PRIMASK, PendSV, handlers, enabled lines | yield, dispatch, register, enable | Kernel, Irq |
| start (`top/main.c`, `top/init.c`) | the hook last run | `fw_init_run`, driver initialisation | FwInit, FwInitSpec, Boot |
| CAN driver (`net/can/can_rom.c`) | message object 0, `send_lock`, `send_done`, `send_async` | `can_send`, the transmit callback | CanDriver, CanSpec |
| CAN node (`lib/can_node`) | requests, sources, modes, outputs | `can_node_loop`, the receive callbacks | CanNode, CanId, CanDriver, Delay |
| I2C driver (`lpc11xx/i2c.c`) | the transfer, the controller | `i2c_dev_transfer`, the interrupt | I2c |
| EEPROM, configuration (`24xx64.c`, `config.c`) | pages and checksum | load, save | Config, Crc8 |
| simulator (`tools/simulator`) | registers, ram, halt reason; gdb's buffer; the test device | instructions, gdb's packets, test status | ThumbAlu, Thumb, Gdb, TestRun, Simulator |
| unit tests (`core/test.c`, `platform/sim/test.c`) | which test to run | `test_do` | TestRun |

How the parts interact, and what makes it hard:

* **The lock does not nest.** `scheduler_lock` is `cpsid i` and `scheduler_unlock` is
  `cpsie i`. An unlock inside a function ends the lock its caller took. This is why
  `delay()` blocks with interrupts enabled.
* **Scheduling is cooperative.** The current thread changes in `schedule()` only, which
  PendSV calls. PendSV is requested when the current thread blocks, and whenever a thread's
  state changes while the processor idles.
* **Handlers do not nest.** No priorities are configured, so no handler preempts another.
  PendSV has the lower exception number and is served before a pending interrupt.
* **`semaphore_signal` takes no lock.** A thread's signal is interrupted between its steps;
  an interrupt handler's signal is one step. Only `can.send_lock` is signalled by both.
* **Timeouts are relative to each other**, and the time the first one has waited already is
  not accounted for when one is added.
* **The free list is unsorted**, and headers of free blocks are inside the blocks.
* **The loop of the CAN node reads what interrupts change**, one variable at a time, and
  saves the configuration in pages while commands change it.
* **The bus and the power fail**: a device refuses a byte, the EEPROM does not answer while
  it programs a page, the program starts again in the middle of a save.
* **gdb's stream is cut anywhere**, and the mcu halts by itself while a break is on its way.

What correctness means here: run queue and thread states agree; whoever waits is woken,
once, in order; a mutex has one owner; timeouts fire; memory is handed out once; lists stay
lists; transfers return with their own status; no request is lost; what is saved is found
again; hooks run once and in order; a handler is there before its interrupt; instructions
compute what the architecture says; each test is run once.

## The modules

* **Lists** has the list operations on sequences, **ListSpec** the state machine over them.
  **LinkedList** is `core/list.c` on `next`, `prev` and `head`, one operator per C function
  with the assignments in their order. The variable `call` records which function was called
  last, with which arguments, so that ListSpec asks of every call the effect of that very
  function and not of any one of the five. LinkedList implements ListSpec under the mapping
  that reads a list from its head. The other modules therefore use Lists.
* **Kernel** has the kernel's operations as functions of a record `k` (states, run queue,
  current thread, PendSV, semaphore values and queues). What the code does under the lock
  is one function application. `scheduler_thread_changed_state` takes the old state, which
  was read before the lock was taken, so callers can separate the read and the write from
  the rest; `thread_set_state` is all three parts where nothing comes between them.
* **Threading** runs threads on it. `Wait` is `semaphore_wait`, which holds the lock
  throughout. `SignalLoad`, `SignalStore`, `SignalFirst` and `SignalDelete` are the steps of
  `semaphore_signal`. `WakeupRead`, `WakeupWrite` and `WakeupQueue` are those of the
  `thread_wakeup` that follows, or that `console_spawn` calls (`Spawn`): the other thread's
  state is read, written, and then the run queue is updated under the lock. `ParkRead`,
  `ParkWrite` and `ParkQueue` are the same steps of the `thread_block` that ends
  `firmware_main`. `Interrupt` is a handler that signals an event, and may come between any
  two of them; `PendSV` is the context switch. CanDriver, CanNode and Config take
  a thread's `thread_wakeup` as one step: what comes between its parts is Threading's.
* **ManagedTimer** has `core/timer.c` and the SysTick driver as functions of a record `tm`,
  with the 32-bit wrap-around of `systick_set` and `systick_get`.
* **Delay** composes Kernel and ManagedTimer: threads call `delay()`, one runs
  `can_node_loop` on a repeating timeout that signals a semaphore, and a client schedules
  and cancels a timeout of its own. `thread_block` is split where the interrupt can come:
  after the state is written and before the run queue is.
* **Malloc** is `core/malloc.c`. The free list is the sequence of blocks reached from
  `free_head`; a block that drops out is gone.
* **CanDriver** is `can_send` on Kernel, called by threads and by the receive interrupt
  that answers discovery, against the transmit interrupt. **CanSpec** is what `can_send`
  promises; its mapping names a frame after the thread that sends it.
* **CanNode** has the receive callbacks and `can_node_loop`, split where it reads or writes
  what interrupts change. **CanId** has the identifiers of its frames.
* **I2c** has `i2c_dev_transfer` and one action per status of the interrupt, with a
  controller that is modelled from the registers the driver uses. **Crc8** is the checksum.
  **Config** puts load and save on that bus, with the EEPROM, a second thread that reads a
  sensor, changes by interrupts, and restarts.
* **FwInit** is `fw_init_run`'s search through the table, **FwInitSpec** what it promises.
  **Irq** is the interrupt table with the renumbering of exceptions. **Boot** composes
  them into `firmware_main`.
* **ThumbAlu** has the flags and conditions, **Thumb** one action per instruction and per
  way it can fail. An instruction is a record of its fields. **Gdb** has the connection,
  **TestRun** the test device and `test_do`. **Simulator** composes these two: gdb stops,
  steps, resets, changes and resumes an mcu that executes the run of the tests. gdb's
  register write `P` of 0 to the pc is a reset of the mcu that the device does not see
  (`GdbReset`): a test it cuts off is started again, and the history takes the first start
  back. After any other write (`P` or `X`, `GdbWrite`) the program may do anything
  (`Unknown`), and only gdb's protocol is followed.
* The modules `MC...` give the constants of the instances. `MCThumb` has the programs and
  single instructions and what they should compute; `Deviates` lists the instructions that
  compute something else.

PRIMASK is not a variable: what runs under the lock is one action. Where a SysTick
interrupt is pending and a thread's next step would be interrupted, the guard `~tm.pending`
has the interrupt served first. Where the code's behaviour is undefined (an empty heap in
Malloc, `list_delete` on NULL or a blocked handler in CanDriver) the model stops.

## The runs

| run | checks | result |
|---|---|---|
| `threading` | TypeOK, RunQueueExact, RunsReadyThread, MutualExclusion, NoLostWakeup, BlockedIsWaiting, WokenInOrder, ReadyThreadRuns | hold |
| `linked_list` | ImplementsListSpec | holds |
| `malloc` | BlocksDisjoint | holds |
| `malloc_overlap` | LiveDisjoint | violated |
| `delay` | ArmedForHead, TimeoutsSound, DelayWaits, TimeoutFires | hold |
| `delay_lost` | WokenIsQueued | violated |
| `can` | LockComesBack, ImplementsCanSpec, SendReturns | hold |
| `can_node` | NoRequestLost, OutputsFollow, AnswersTrue | hold |
| `storage` | StatusTrue, BuffersHeld, TransferReturns, SavedAtRest, NoTornConfig, SaveEnds, CrcIsRemainder | hold |
| `boot` | ImplementsFwInitSpec, StartEnds, FaultsCaught, NoStrayInterrupt, OwnHandler | hold |
| `thumb` | ProgramsRight, FaultsStay, ProgramsEnd | hold |
| `simulator` | RepliesMatch, EachTestOnce, NoStaleBreak, RequestsServed, RunEnds | hold |

Each property has a mutant, a definition with a plausible bug, that breaks it
(`PROJECT.json`); mutants are the definitions introduced as "A faulty ...".

The violated properties state what headers say of functions, and the code does otherwise:

* `malloc.h:30`, `malloc`: memory is handed out twice once more blocks are given back than
  the firmware has timeouts. Such a block was put at the head of the list and also merged
  into its lower neighbour.
* `thread.h:107`, `thread_wakeup`: "Wakes up a given thread." A timeout that fires between
  the two halves of `thread_block` in `delay()` makes the thread RUNNING and leaves it
  without a place in the run queue.

Other places where code and text differ, or that look unintended, met while modelling and
translated as they are:

* `core/malloc.c:125`: a block given back below the head drops the blocks behind the head
  from the list, so `get_free_size` reports too little.
* `core/timer.c:120`: a timeout scheduled while another one runs may be called early.
* `can_rom.c:282`: `can_send` in the receive handler may block the thread it interrupted.
* `arch.c:294`: the supervisor call is dispatched under the number of an interrupt line, IRQ2
  (no code raises it; Irq leaves it out of its exceptions, and so do the proofs).
* `cortex-m0p/mcu.c:759`: the condition LE is taken when N and V are equal, or Z; the
  comment at line 756 says "Z==1 or N != V". ProgramsRight leaves LE out.
* `cortex-m0p/mcu.c`, instructions that differ from the architecture. ProgramsRight excepts
  them by name (`Deviates` in MCThumb), and runs them in its programs only where both agree:
  * 2291, 2314, 2359, 2379 and 2337: SXTB, SXTH, UXTB, UXTH and TST read r1, whatever
    register they name;
  * 941: CMN takes its registers from r8 up;
  * 1847: REV16 does what REV does;
  * 1360 and 1388: LDRSB and LDRSH do not extend the sign to the word;
  * 2091 and 2128: STRB writes the halfword that holds the byte as a whole word, whose upper
    half becomes zero.
* Others that only show in how an instruction ends or what it sets, translated in Thumb:
  * 2431: MSR of APSR goes on to set the stack pointer, and MRS of 0 to 7 ends as MRS of it;
  * 765 and 769: a conditional branch with condition 0xE or 0xF, the latter SWI, fails without
    a halt, so that the running mcu tries it again for ever;
  * 2565: the table of 32-bit instructions has no end mark, so the search for an instruction
    that is not in it runs on behind it (`Unknown32`);
  * ADC has no entry (377), and those of ASR and ROR by a register carry the encodings of ASR
    by an immediate and REVSH (608, 1888), so that the mcu knows none of the three;
  * an access that is not aligned is served from the aligned address and is no fault.

### Bounds

* `threading`: three threads, one mutex, one event, and interrupts at most 2 ahead
  (`MaxEvents`). Three threads let one own the mutex, one wait for it and one be woken.
  ReadyThreadRuns is about behaviours in which at most two threads are started, as in the
  firmware (main and console). With three it fails: `schedule` may pass the same thread over
  again and again.
* `linked_list`: four entries, two lists. Rings of one, two and three entries differ.
* `malloc`: units of four bytes, header 2, 18 units, sizes 2 and 3 and one more for `malloc`.
  At most three blocks (`MaxLive`) that will be given back are held at a time. The firmware
  gives back only the timeouts of `delay()`, one per thread, and has two threads. With five
  blocks to give back the property fails (`malloc_overlap`).
* `delay`: three threads, delays of 1 or 2 ms, one client, interval 3 ms, the repeating
  timeout at most 3 signals ahead (`MaxPosts`), and a SysTick that counts 2 ms, so that a
  timeout also needs several rounds.
* `can`: three senders and three discovery requests (`MaxRequests`), the least that reaches
  `list_delete` on an empty queue.
* `can_node`: two outputs with two sources each, and at most 2 signals ahead (`MaxPosts`).
  Two sources tell "any" from "last", two outputs one request from the next.
* `storage`: two pages of one byte with two values, two changes (`MaxChanges`) and one lost
  byte or restart (`MaxFaults`). Two pages are the least that can be torn. The byte 164 is
  chosen so that the checksums of the configurations differ. With bytes whose checksums
  collide a torn configuration is accepted, as by any checksum of 8 bits.
* `boot`: all tables of four hooks with five levels, and the three calls of `firmware_main`:
  two hooks of one level, and hooks before and behind each call. The four drivers of the
  lpc11xx targets.
* `thumb`: words of 8 bits, bytes of 2 bits, a ram of 40 bytes. All pairs of words where a
  program compares two. Recursion runs to the end of the ram. SimulatorProofs has every
  size of a word.
* `simulator`: two tests (`Count`), so that there is a reset between two of them and one
  before the first; the proof has any number. Two breaks per continue (`MaxBreaks`); a buffer
  of 12 elements for packets of 5 (`BufferLength`).

### Fairness

* `threading`: weak fairness of PendSV and of each thread's steps. The processor does
  execute, and serves a pending exception. That no thread keeps the processor for ever is a
  hypothesis of ReadyThreadRuns, since nothing preempts it.
* `delay`: time passes, a pending SysTick interrupt is served and the processor executes.
  The second is written `[]<>(~tm.pending)`, which for this model is weak fairness of Tick: Tick is
  enabled exactly while the interrupt is pending, and only Tick ends that. TimeoutFires
  excepts behaviours that cancel timeouts for ever, because each cancellation of the first
  one starts SysTick again.
* `can`: the bus takes frames, the transmit interrupt is served, and threads go on.
  SendReturns is about behaviours without discovery requests; with them a handler's wait
  may block the thread it interrupted.
* `storage`: the controller and the EEPROM's programming go on, interrupts are served, and
  whoever has the processor executes. These are written with state predicates in the same
  way. `[]<>(k.current # Console)` says that the sensor's reader does not keep the
  processor; it does nothing but transfers, in which it waits.
* `boot`, `thumb`: the processor executes.
* `simulator`: the event loop steps a running mcu, and reads what has arrived; nothing is
  assumed of gdb. Fairness of Read is written as `[]<>~Readable \/ []<><<...>>`, its
  definition, with the guard of Read spelled out. RunEnds has the hypothesis that gdb lets
  the mcu run from some point on.

## The proofs

| module | theorems | for every value of |
|---|---|---|
| KernelProofs | lemmas on the list and kernel operators, used by the next four | threads, semaphores |
| ThreadingProofs | `TypeCorrect`, `RunQueueCorrect`, `ReadyThreadCorrect`, `MutexCorrect`, `SemaphoreCorrect`, `BlockedCorrect`, `OrderCorrect` | at most 126 threads, any mutexes and events |
| CanDriverProofs | `LockReturned`, `DriverRefines` | at most 126 threads, 40 discovery requests |
| CanNodeProofs | `RequestsKept`, `OutputsCorrect`, `AnswersCorrect`, `IdentifiersRoundTrip` | outputs, sources and their configuration |
| ConfigProofs | `StatusCorrect`, `BuffersSafe`, `SavedCorrectly` | pages, bytes, faults, at most 127 changes |
| BootProofs | `RunsHooksInOrder`, `FaultsHandled`, `InterruptsHandled`, `ExceptionsDispatched` | tables of hooks, levels that do not decrease, drivers |
| SimulatorProofs | `TestsRunOnce`, `BranchesCompare`, `SumsCarry`, `BorrowsCompare` | tests and outcomes; the size of a word |
| SystickProofs | `RoundTrip` | clocks that are a multiple of 1 kHz |

The assumptions are the named ASSUMEs of the modules that declare the constants. The bounds
in them come from the code: a semaphore's `value` is an `int8_t`, so at most 126 threads can
wait and 127 signals run ahead. CanDriverProofs bounds `send_lock` by one and three for each
discovery request, which fits an `int8_t` for up to 40 requests.

Except for the arithmetic, a proof has an inductive invariant (`IInv` in most modules), one
lemma per action, and a lemma that combines them. The properties are not inductive by themselves; what has to
be added is this.

* **Threading.** What a thread at each label knows: that whoever is in the middle of
  `semaphore_signal` is the one executing and owns the mutex until it has taken the waitee
  out, that its loaded value is still the one in memory (interrupt handlers signal other
  semaphores), that the waitee it took is BLOCKED, or not started yet, and nobody else's. A
  mutex's tokens, its owner and its waiting threads add up. The bound on `value` needs that
  no queue holds a thread twice, hence a pigeonhole argument. Between its write of a state
  and the lock a thread leaves state and queue apart: `Entered` and `Leaving` say which
  thread it is, and the invariant that no PendSV is pending then, because only the executing
  thread gets there and a handler requests none while a thread executes. Hence schedule()
  finds the two in agreement (`Whole`).
* **CanDriver.** Here the interrupt signals the semaphore the threads use, and `value` does
  not tell who has the lock. The invariant counts instead: `value` plus the threads that have
  taken the lock or wait for it make at least one, unless an answer of the interrupt, which
  nobody disturbs, is about to give it back. The refinement of CanSpec needs more, but
  CanSpec promises something only until the first discovery request. Up to there one thread
  has the lock, the frame in the message object is its own, and `send_done` is signalled once
  for it. Where the behaviour is undefined the invariant claims nothing, as the properties.
* **CanNode.** None of the properties says anything while the loop is awake. The invariant
  says at every point of the loop what it has yet to do for each output, page and answer; and
  that, if what it read before an interrupt came is no longer true, a request for another
  pass is posted. A posted request is about to be fetched, or the semaphore is positive.
* **I2c and Config.** For each status of the controller, where the transfer is: how many
  bytes were taken and given, which index points to which, and whether stop or start was
  asked for. There is one transfer at most, the lock's owner is its owner, and `done` is
  signalled once per transfer. The pages saved so far are those in memory, or a request for
  another save is there. A page the EEPROM has received is programmed before the bus can be
  used again.
* **Boot.** The hooks that have been run are those up to the last call's level, and up to the
  last hook in this call; the candidate is the best of the hooks already looked at. At the
  end of the table it is therefore FwInitSpec's next hook. FaultsHandled follows because the
  idle hook's level is below that of the second call. A driver past its registration has its
  own entry in the table, and lines are enabled only then.
* **TestRun.** Tests before the current one were run once, those behind it were not; the mcu
  has not passed the level at which the current one is run; memory is initialised wherever a
  test may be started; and the number of failures is that of the tests that failed. gdb's
  reset keeps this: the test it cuts off is as if it had not been started. Gdb's writes end
  it, so the invariant is `Followed`: all this, or the program is unknown.

Only model-checked, and why:

* ReadyThreadRuns, TimeoutFires, SendReturns, TransferReturns, SaveEnds, StartEnds,
  ProgramsEnd, RequestsServed and RunEnds: liveness under fairness is out of the prover's
  reach.
* CrcIsRemainder and NoTornConfig: what the checksum computes is a recursion over data with
  bitwise steps, and NoTornConfig depends on the values the instance chooses.
* ProgramsRight and FaultsStay: Thumb uses bitwise operators, and the programs are constants
  of the instance. The flags and conditions they rest on are proved.
* ArmedForHead, TimeoutsSound and DelayWaits: the time until a timeout is the sum of those
  before it, and what a sum over a sequence of any length is needs induction over data.
* ImplementsListSpec: `Members`, which reads a list from its head, is recursive.
* BlocksDisjoint: holds for as many blocks to give back as the firmware has and fails for
  more (`malloc_overlap`), so there is no theorem for all constants.
* RepliesMatch and NoStaleBreak: they select the replies from a sequence with SelectSeq, and
  what that returns is again known only by induction.

## Not modelled

* `thread_stop`, `semaphore_create`, `semaphore_destory`, `can_unset_receive_callback`,
  `arch_test_skip`: nothing calls them. `get_free_size` only adds up.
* Stacks, stack protection, names and the register file of the context switch: no property
  is about them.
* Heap operations interleaved with the SysTick handler, which frees without a lock, and
  `config_save` called by the console and the loop at the same time: nothing in the code or
  its comments says what should happen.
* How punctual a timeout is: no property bounds how early or late it is called.
* UART input and output, the console's line editing and the command that sets
  configuration values: characters, in threads that wait on semaphores as Threading has it.
* Text and data: printf, string functions, log, the generated file system, the conversions
  of sensors and ADC. Nothing in the repository gives a reference for the formulas.
* Register set-up: GPIO, clocks, pin multiplexing, the samd20 platform. `valve.c` is not
  wired into a target.
* The CAN error callback (it logs) and setting up receive objects (once, at the start).
* The simulator's elf loader, the output of its uart, and the contents of gdb's queries and
  writes. Entries of its instruction table that an earlier entry shadows.
* `core/bootstrap.c` is not compiled by the present build; TestRun takes from it the places
  where `test_do` is called, because the unit tests are written for them.
* Vendored code. About 50 000 of the 63 000 lines under `src/` are the vendors' register
  headers (CMSIS, lpc11xx, samd20), which have no behaviour. Of the rest about 4 300 lines are modelled:
  most of the kernel, of the CAN and I2C paths and of the simulator.
