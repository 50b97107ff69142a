------------------------------- MODULE MCBoot --------------------------------
(* An instance of Boot: all tables of four hooks with levels at, between   *)
(* and behind those firmware_main asks for, and the lpc11xx's drivers.     *)
EXTENDS Boot, TLC

\* kFWInitLevelEarliest, kFWInitLevelThreading and kFWInitLevelLast
FirmwareCalls == <<1, 3, 5>>

LpcDrivers ==
    "systick" :> IRQ_SYSTICK @@ "can" :> IRQ0 + 13 @@ "i2c" :> IRQ0 + 15 @@ "uart" :> IRQ0 + 21

LpcPhase == "systick" :> 2 @@ "uart" :> 2 @@ "i2c" :> 3 @@ "can" :> 4

OnUse == {"systick"}

TestClients == {IRQ0, IRQ0 + 32} \* the last is not an irq number

Stopping == {2, 3}
==============================================================================
