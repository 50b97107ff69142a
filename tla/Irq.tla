--------------------------------- MODULE Irq ---------------------------------
(***************************************************************************)
(* platform/irq.c with the dispatch of exceptions in arch/arm-m/arch.c,    *)
(* and the drivers that register a handler and then enable their line.     *)
(***************************************************************************)
EXTENDS Integers, Functions

CONSTANTS Drivers,      \* the drivers: a function to their irq numbers
          Clients,      \* irq numbers that others register and unregister
          Faults,       \* exceptions that no driver enables
          NUMBER_OF_IRQS,
          None          \* no handler

IRQ_NMI == 2
IRQ_HARDFAULT == 3
IRQ_SV == 4
IRQ_PENDSV == 5
IRQ_SYSTICK == 6
IRQ0 == 7
IRQ_HANDLER_MISSING == IRQ_HARDFAULT

ASSUME IrqAssumption ==
    /\ NUMBER_OF_IRQS \in 8..39
    /\ Range(Drivers) \subseteq IRQ_SYSTICK..NUMBER_OF_IRQS - 1 /\ IsInjective(Drivers)
    /\ Faults \subseteq {2, 3, 11} \* NMI, HardFault, SVCall
    /\ Clients \cap (Range(Drivers) \cup {IRQ_HARDFAULT}) = {} /\ Clients \subseteq Nat
    /\ DOMAIN Drivers \cap {"client", "error", None} = {} /\ None \notin {"client", "error"}

VARIABLES entries,      \* irq.entries: the handler of each irq number
          enabled,      \* the exceptions that may be raised
          at,           \* where each driver is in its initialisation
          called,       \* the handler that ran last
          halted        \* why the system stopped

irqVars == <<entries, enabled, at, called, halted>>

\* The handlers: one for each driver, the clients' and error of arch.c.
Handlers == DOMAIN Drivers \cup {"client", "error"}

IrqInit ==
    /\ entries = [n \in 0..NUMBER_OF_IRQS - 1 |-> None]
    /\ enabled = Faults
    /\ at = [d \in DOMAIN Drivers |-> "register"]
    /\ called = None
    /\ halted = "no"

(* The conditions of irq_register and irq_unregister.                      *)
CanRegister(n) == n < NUMBER_OF_IRQS /\ entries[n] = None

CanUnregister(n, h) == n < NUMBER_OF_IRQS /\ entries[n] = h

\* A faulty adjustment: one of the reserved exceptions keeps its number.
Adjust_short(x) ==
    LET irq == IF x > 11 THEN x - 6 ELSE x
    IN  IF irq > 5 THEN irq - 2 ELSE irq

(* arch_dispatch_irq, from the exception number to the irq number.         *)
Adjust(x) ==
    LET irq == IF x > 11 THEN x - 7 ELSE x
    IN  IF irq > 5 THEN irq - 2 ELSE irq

(* irq_enable: the exception of the bit that is set in the NVIC.  SysTick  *)
(* has an enable of its own.                                               *)
EnabledBy(n) == IF n = IRQ_SYSTICK THEN 15 ELSE 16 + ((n - 7) % 32)

(* arch_init_idle_thread registers error for HardFault.                    *)
RegistersError ==
    /\ halted = "no"
    /\ entries' = IF CanRegister(IRQ_HARDFAULT) THEN [entries EXCEPT ![IRQ_HARDFAULT] = "error"]
                  ELSE entries
    /\ UNCHANGED <<enabled, at, called, halted>>

(* A driver asserts that it got its entry (can_init returns an error).     *)
DriverRegisters(d) ==
    /\ halted = "no" /\ at[d] = "register"
    /\ IF CanRegister(Drivers[d])
       THEN /\ entries' = [entries EXCEPT ![Drivers[d]] = d]
            /\ at' = [at EXCEPT ![d] = "enable"]
            /\ UNCHANGED halted
       ELSE halted' = "assert" /\ UNCHANGED <<entries, at>>
    /\ UNCHANGED <<enabled, called>>

\* A faulty driver: it enables its line first.
DriverEnables_early(d) ==
    /\ halted = "no" /\ at[d] \in {"register", "enable"}
    /\ enabled' = enabled \cup {EnabledBy(Drivers[d])}
    /\ UNCHANGED <<entries, at, called, halted>>

DriverEnables(d) ==
    /\ halted = "no" /\ at[d] = "enable"
    /\ enabled' = enabled \cup {EnabledBy(Drivers[d])}
    /\ at' = [at EXCEPT ![d] = "done"]
    /\ UNCHANGED <<entries, called, halted>>

\* The clients look at the result and leave a refusal at that.
irq_register(n) ==
    /\ halted = "no" /\ CanRegister(n)
    /\ entries' = [entries EXCEPT ![n] = "client"]
    /\ UNCHANGED <<enabled, at, called, halted>>

irq_unregister(n) ==
    /\ halted = "no" /\ CanUnregister(n, "client")
    /\ entries' = [entries EXCEPT ![n] = None]
    /\ UNCHANGED <<enabled, at, called, halted>>

(* The handler do_irq ends up with.                                        *)
do_irq(n) == IF entries[n] # None THEN entries[n] ELSE entries[IRQ_HANDLER_MISSING]

(* An exception: error asserts, and so does do_irq without a handler.      *)
Exception(x) ==
    /\ halted = "no" /\ x \in enabled
    /\ called' = do_irq(Adjust(x))
    /\ halted' = IF called' \notin {"error", None} THEN "no"
                 ELSE IF x \in Faults THEN "fault" ELSE "stray"
    /\ UNCHANGED <<entries, enabled, at>>

IrqNext ==
    \/ RegistersError
    \/ \E d \in DOMAIN Drivers : DriverRegisters(d) \/ DriverEnables(d)
    \/ \E n \in Clients : irq_register(n) \/ irq_unregister(n)
    \/ \E x \in enabled : Exception(x)

IrqSpec == IrqInit /\ [][IrqNext]_irqVars

-----------------------------------------------------------------------------

(* The irq number that arch/irq.h gives each exception of the vector table.*)
Defined(x) ==
    CASE x = 2  -> IRQ_NMI
      [] x = 3  -> IRQ_HARDFAULT
      [] x = 11 -> IRQ_SV
      [] x = 14 -> IRQ_PENDSV
      [] x = 15 -> IRQ_SYSTICK
      [] x >= 16 -> IRQ0 + x - 16

(* An exception runs the handler that was registered under the number      *)
(* arch/irq.h names for it, and no other; the one for HardFault stands in  *)
(* when there is none.  SVCall is excepted by leaving it out of Faults.    *)
OwnHandler ==
    [][\A x \in enabled : Exception(x) =>
           called' = IF entries[Defined(x)] # None THEN entries[Defined(x)] ELSE entries[IRQ_HARDFAULT]]_irqVars

(* A driver's interrupt never finds the table without its handler and ends *)
(* the system in error, whatever the other drivers and the clients of the  *)
(* table do meanwhile: each registers before it enables its line.          *)
NoStrayInterrupt == halted \notin {"stray", "assert"}
==============================================================================
