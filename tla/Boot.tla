-------------------------------- MODULE Boot ---------------------------------
(***************************************************************************)
(* firmware_main of top/main.c: the calls of fw_init_run (FwInit) with the *)
(* drivers that are initialised between them (Irq), and interrupts from    *)
(* the moment a driver has enabled its line.  The hook idle_thread, of the *)
(* second call, registers the handler of HardFault.                        *)
(***************************************************************************)
EXTENDS FwInit, Irq

CONSTANTS Phase,        \* the call of fw_init_run a driver is initialised before
          Late          \* the drivers that are enabled only when they are used

ASSUME BootAssumption ==
    /\ Phase \in [DOMAIN Drivers -> 2..Len(Calls) + 1] /\ Late \subseteq DOMAIN Drivers
    /\ Len(Calls) >= 2

VARIABLE idle           \* where the linker has put the hook idle_thread

bootVars == <<vars, irqVars, idle>>

BootInit ==
    /\ Init /\ IrqInit
    /\ idle \in {h \in Hooks : level[h] = Calls[2]}

(* firmware_main is about to make its next call, or has made the last.     *)
BetweenCalls == ptr = 1 /\ last = NULL /\ found = NULL

(* The drivers that come before the call are initialised.                  *)
Ready == \A d \in DOMAIN Drivers :
            Phase[d] <= call => at[d] = "done" \/ (at[d] = "enable" /\ d \in Late)

(* A step of fw_init_run.                                                  *)
FwInitStep ==
    /\ halted = "no" /\ Ready
    /\ Scan \/ Return \/ (RunHook /\ found # idle)
    /\ UNCHANGED <<irqVars, idle>>

arch_init_idle_thread ==
    /\ Ready /\ RunHook /\ found = idle /\ RegistersError
    /\ UNCHANGED idle

(* arch_early_init, platform_early_init, platform_init or target_main.     *)
DriverStep(d) ==
    /\ BetweenCalls /\ Phase[d] = call
    /\ DriverRegisters(d) \/ (DriverEnables(d) /\ d \notin Late)
    /\ UNCHANGED <<vars, idle>>

(* SysTick is enabled when the first timeout is scheduled.                 *)
LateStep(d) ==
    /\ d \in Late /\ DriverEnables(d)
    /\ UNCHANGED <<vars, idle>>

TableStep ==
    /\ \/ \E n \in Clients : irq_register(n) \/ irq_unregister(n)
       \/ \E x \in enabled : Exception(x)
    /\ UNCHANGED <<vars, idle>>

firmware_main == FwInitStep \/ arch_init_idle_thread \/ \E d \in DOMAIN Drivers : DriverStep(d)

BootNext ==
    \/ firmware_main \/ TableStep
    \/ \E d \in Late : LateStep(d)

BootSpec == BootInit /\ [][BootNext]_bootVars

(* The processor goes on executing; interrupts leave it time for it.       *)
FairSpec == BootSpec /\ WF_bootVars(firmware_main)

-----------------------------------------------------------------------------

(* The idle hook is run by the call it belongs to, wherever the linker has *)
(* put it: with the last call of fw_init_run, when threads are scheduled,  *)
(* a fault is caught by error.                                             *)
FaultsCaught == call > 2 => entries[IRQ_HARDFAULT] = "error"

(* No table of hooks keeps fw_init_run looking for ever and no driver is   *)
(* refused: the start ends, with all drivers initialised, or with a fault. *)
StartEnds == <>((call > Len(Calls) /\ Ready) \/ halted = "fault")
==============================================================================
